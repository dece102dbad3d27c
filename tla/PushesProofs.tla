----------------------------- MODULE PushesProofs -----------------------------
(***************************************************************************)
(* For any number of requests, retries and intervals: the failures that    *)
(* are hidden as pending results are counted right, and the heartbeat sees *)
(* the silence.  For any number of endpoints, push keys, tokens and        *)
(* configurations: a token resolves to its owner.                          *)
(***************************************************************************)
EXTENDS MCPushes, FiniteSetTheorems, TLAPS

\* What an actor is about to process is what it was asked for.
ResultsAre ==
    \A who \in Actors :
        /\ pc[who] = "idle" => result[who] = NoResult
        /\ pc[who] = "locking" => ~result[who].failed /\ ~result[who].maintained
        /\ result[who].failed => result[who].kind = "pending"

\* The retries used are the failures stored as pending results: they are counted before the result is stored.
Pending(who) == IF result[who].failed THEN 1 ELSE 0
UsedIsConverted ==
    /\ converted <= Retries \/ lost
    /\ (\A who \in Actors : pc[who] # "inserting") => used = converted \/ lost
    /\ \A who \in Actors : pc[who] = "inserting" =>
        IF result[who].kind = "up" THEN used = 0 ELSE used = converted + Pending(who) \/ lost
    /\ \A who \in Actors : pc[who] \in {"inserting", "finishing"} /\ result[who].kind = "down" /\ ~result[who].maintained => used = Retries

\* A key that is not defined is not monitored, and nothing is kept for it that was not left behind.
UndefinedIsForgotten ==
    Undefined =>
        /\ beat.at = "off"
        /\ stray \/ (lastPushes = None /\ used = 0 /\ \A who \in Actors : pc[who] \in {"idle", "locking"})
\* A push waits for the lock through the file, through an entry that was stopped, or through the one that is monitored.
TargetsKnown ==
    /\ \A p \in fallsBack \cup stopped : pc[p] # "idle"
    /\ \A p \in Pushers : pc[p] = "locking" => p \in fallsBack \cup stopped \/ Monitored
ChangesWhileRunning ==
    /\ change # "none" => cycle = "running" /\ managed /\ ~inConfig
    /\ cycle = "loaded" => beat.at = "off"

\* The age of the time that the pushes restart is the silence, and the heartbeat refers to that time unless it is orphaned.
TimesKept ==
    /\ lastPushes # None => age[lastPushes] = silence
    /\ beat.last # None => silence <= age[beat.last]
    /\ beat.last # None => beat.last = lastPushes \/ orphaned

PushesInv == TypeOK /\ ResultsAre /\ UsedIsConverted /\ UndefinedIsForgotten /\ TargetsKnown /\ ChangesWhileRunning /\ TimesKept

-----------------------------------------------------------------------------
(* The requests and the heartbeat *)

\* The heartbeat is none of the requests, and None is no actor and no time.
LEMMA ActorsApart ==
    /\ \A p \in Pushers : p \in Actors /\ p # "heartbeat" /\ p # "leftover"
    /\ "heartbeat" \in Actors /\ "leftover" \in Actors /\ "leftover" # "heartbeat" /\ None \notin Actors /\ None \notin Times
  BY PushesAssumption DEF Actors, Times

\* The time that a push restarts is one of the two, and not the one of the heartbeat when the key is used first.
LEMMA TimeIsOne ==
    ASSUME TypeOK
    PROVE  Time \in Times /\ (lastPushes # None => Time = lastPushes) /\ (lastPushes = None => Time # beat.last)
<1>1. \E t \in Times : t # beat.last
  BY DEF Times
<1> QED
  BY <1>1 DEF Time, FirstUse, TypeOK

\* The processing of a result keeps the invariant.
LEMMA RetryKeeps ==
    ASSUME PushesInv, NEW who \in Actors, pc[who] = "locking", Retry(who), who \in Pushers => Accepts(who)
    PROVE  PushesInv'
<1> DEFINE r == [result[who] EXCEPT !.maintained = maintenance]
<1>1. /\ used \in 0..Retries /\ maintenance \in BOOLEAN /\ Retries \in Nat
      /\ result \in [Actors -> [kind : Kinds, failed : BOOLEAN, maintained : BOOLEAN]]
      /\ pc \in [Actors -> {"idle", "locking", "inserting", "finishing"}]
  BY PushesAssumption DEF PushesInv, TypeOK
<1>2. /\ holder = None /\ holder' = who /\ pc' = [pc EXCEPT ![who] = "inserting"] /\ used' = UsedAfter(r)
      /\ result' = [result EXCEPT ![who] = IF Retried(r) THEN [r EXCEPT !.kind = "pending", !.failed = TRUE] ELSE r]
      /\ stray' = (stray \/ (Undefined /\ LeftBehind(who)))
      /\ UNCHANGED <<definition, cycle, change, lastPushes, age, beat, fallsBack, stopped, maintenance>>
      /\ UNCHANGED <<silence, orphaned, converted, lost>>
  BY DEF Retry
<1>3. \A twin \in Actors : pc[twin] \in {"idle", "locking"}
  BY <1>1, <1>2, ActorsApart DEF PushesInv, TypeOK
<1>4. result[who].kind \in Kinds /\ result[who].failed = FALSE /\ r.kind = result[who].kind /\ r.failed = FALSE /\ r.maintained = maintenance
  BY <1>1 DEF PushesInv, ResultsAre
<1>5. used' \in 0..Retries
  BY <1>1, <1>2 DEF UsedAfter, Retried
<1>6. result' \in [Actors -> [kind : Kinds, failed : BOOLEAN, maintained : BOOLEAN]]
  BY <1>1, <1>2 DEF Kinds
<1>7. TypeOK'
  <2>1. stray' \in BOOLEAN
    BY <1>2 DEF PushesInv, TypeOK
  <2> QED
    BY <1>1, <1>2, <1>3, <1>5, <1>6, <2>1, ActorsApart DEF PushesInv, TypeOK, definition
<1>8. ResultsAre'
  BY <1>1, <1>2, <1>4 DEF PushesInv, ResultsAre, Retried
<1>9. UsedIsConverted'
  <2>1. /\ converted \in 0..(Retries + 1) /\ (converted <= Retries \/ lost) /\ (used = converted \/ lost)
        /\ converted' = converted /\ lost' = lost
    BY <1>2, <1>3 DEF PushesInv, TypeOK, UsedIsConverted
  <2>2. result'[who] = (IF Retried(r) THEN [r EXCEPT !.kind = "pending", !.failed = TRUE] ELSE r) /\ pc'[who] = "inserting"
    BY <1>1, <1>2
  <2>3. \A twin \in Actors \ {who} : pc'[twin] \in {"idle", "locking"}
    BY <1>1, <1>2, <1>3
  <2>4. IF result'[who].kind = "up" THEN used' = 0 ELSE used' = converted + (IF result'[who].failed THEN 1 ELSE 0) \/ lost
    BY <1>1, <1>2, <1>4, <2>1, <2>2 DEF UsedAfter, Retried
  <2>5. result'[who].kind = "down" /\ ~result'[who].maintained => used' = Retries
    BY <1>1, <1>2, <1>4, <2>2, SMTT(60) DEF UsedAfter, Retried
  <2> QED
    BY <2>1, <2>2, <2>3, <2>4, <2>5 DEF UsedIsConverted, Pending
<1>10. UndefinedIsForgotten' /\ TargetsKnown' /\ ChangesWhileRunning'
  <2>1. who = "heartbeat" => ~Undefined
    BY DEF PushesInv, TypeOK, UndefinedIsForgotten
  <2>2. who \in Pushers => who \in fallsBack \/ ~Undefined
    BY DEF PushesInv, UndefinedIsForgotten, TargetsKnown, Accepts, Monitored
  <2>3. Undefined => stray'
    BY <1>2, <2>1, <2>2 DEF LeftBehind, Actors
  <2>4. UndefinedIsForgotten'
    BY <1>2, <2>3 DEF PushesInv, UndefinedIsForgotten, Undefined, definition
  <2>5. TargetsKnown'
    BY <1>1, <1>2, ActorsApart DEF PushesInv, TargetsKnown, Monitored
  <2> QED
    BY <1>2, <2>4, <2>5 DEF PushesInv, ChangesWhileRunning, definition
<1>11. TimesKept'
  BY <1>2 DEF PushesInv, TimesKept
<1> QED
  BY <1>7, <1>8, <1>9, <1>10, <1>11 DEF PushesInv

\* Storing the result, or not, keeps the invariant.
LEMMA InsertKeeps ==
    ASSUME PushesInv, NEW who \in Actors, Insert(who)
    PROVE  PushesInv'
<1>1. /\ pc \in [Actors -> {"idle", "locking", "inserting", "finishing"}] /\ Retries \in Nat
      /\ result \in [Actors -> [kind : Kinds, failed : BOOLEAN, maintained : BOOLEAN]]
      /\ used \in 0..Retries /\ converted \in 0..(Retries + 1) /\ lost \in BOOLEAN
      /\ \A twin \in Actors \ {who} : pc[twin] \in {"idle", "locking"}
  BY PushesAssumption DEF PushesInv, TypeOK, Insert
<1>2. /\ pc[who] = "inserting" /\ pc' = [pc EXCEPT ![who] = "finishing"]
      /\ UNCHANGED <<inConfig, managed, cycle, change, lastPushes, age, used, beat, result, fallsBack, stopped, holder, maintenance>>
      /\ UNCHANGED <<silence, orphaned, stray>>
      /\ lost' = (lost /\ result[who].kind # "up")
      /\ converted' = IF result[who].kind = "up" THEN 0
                      ELSE IF result[who].failed /\ ~lost /\ converted <= Retries THEN converted + 1 ELSE converted
  BY DEF Insert, definition, memory
<1>3. converted' \in 0..(Retries + 1) /\ lost' \in BOOLEAN
  BY <1>1, <1>2
<1>4. TypeOK'
  BY <1>1, <1>2, <1>3 DEF PushesInv, TypeOK
<1>5. ResultsAre'
  BY <1>1, <1>2 DEF PushesInv, ResultsAre
<1>6. UsedIsConverted'
  <2>1. IF result[who].kind = "up" THEN used = 0 ELSE used = converted + Pending(who) \/ lost
    BY <1>2 DEF PushesInv, UsedIsConverted
  <2>2. used = converted' \/ lost'
    BY <1>1, <1>2, <2>1 DEF Pending
  <2>3. result[who].kind = "down" /\ ~result[who].maintained => used = Retries
    BY <1>2 DEF PushesInv, UsedIsConverted
  <2> QED
    BY <1>1, <1>2, <2>2, <2>3 DEF UsedIsConverted
<1>7. UndefinedIsForgotten' /\ TargetsKnown' /\ ChangesWhileRunning'
  <2>1. Undefined => stray
    BY <1>2 DEF PushesInv, UndefinedIsForgotten
  <2>2. UndefinedIsForgotten'
    BY <1>2, <2>1 DEF PushesInv, UndefinedIsForgotten, Undefined
  <2>3. TargetsKnown'
    BY <1>1, <1>2, ActorsApart DEF PushesInv, TargetsKnown, Monitored
  <2> QED
    BY <1>2, <2>2, <2>3 DEF PushesInv, ChangesWhileRunning
<1>8. TimesKept'
  BY <1>2 DEF PushesInv, TimesKept
<1> QED
  BY <1>4, <1>5, <1>6, <1>7, <1>8 DEF PushesInv

\* Returning the lock after a result that was not stored ...
LEMMA ReleaseKeeps ==
    ASSUME PushesInv, NEW who \in Actors, pc[who] \in {"inserting", "finishing"}, Released(who),
           UNCHANGED <<definition, cycle, change, used, maintenance, orphaned, stray>>
    PROVE  /\ ResultsAre' /\ TargetsKnown' /\ ChangesWhileRunning'
           /\ pc' \in [Actors -> {"idle", "locking", "inserting", "finishing"}]
           /\ result' \in [Actors -> [kind : Kinds, failed : BOOLEAN, maintained : BOOLEAN]]
           /\ \A twin \in Actors : pc'[twin] \in {"idle", "locking"}
           /\ fallsBack' \subseteq Pushers /\ stopped' \subseteq Pushers /\ holder' = None
           /\ beat' \in [at : {"off", "starting", "waiting", "looking", "recording"}, last : Times \cup {None},
                         elapsed : 0..(Interval - 1), tick : BOOLEAN, cancelled : BOOLEAN]
           /\ (beat'.at \in {"waiting", "looking", "recording"} <=> beat'.last # None)
           /\ (pc'["heartbeat"] # "idle" <=> beat'.at = "recording")
           /\ beat'.last = beat.last /\ (Undefined => stray /\ beat'.at = "off")
<1>1. /\ pc \in [Actors -> {"idle", "locking", "inserting", "finishing"}]
      /\ result \in [Actors -> [kind : Kinds, failed : BOOLEAN, maintained : BOOLEAN]]
      /\ beat \in [at : {"off", "starting", "waiting", "looking", "recording"}, last : Times \cup {None},
                   elapsed : 0..(Interval - 1), tick : BOOLEAN, cancelled : BOOLEAN]
      /\ \A twin \in Actors \ {who} : pc[twin] \in {"idle", "locking"}
      /\ fallsBack \subseteq Pushers /\ stopped \subseteq Pushers
      /\ (beat.at \in {"waiting", "looking", "recording"} <=> beat.last # None)
      /\ (pc["heartbeat"] # "idle" <=> beat.at = "recording")
  BY DEF PushesInv, TypeOK
<1>2. /\ pc' = [pc EXCEPT ![who] = "idle"] /\ holder' = None /\ result' = [result EXCEPT ![who] = NoResult]
      /\ fallsBack' = fallsBack \ {who} /\ stopped' = stopped \ {who}
      /\ beat' = IF who = "heartbeat" THEN [beat EXCEPT !.at = "waiting"] ELSE beat
      /\ UNCHANGED <<inConfig, managed, cycle, change>>
  BY DEF Released, definition
<1>3. Undefined => stray /\ beat'.at = "off"
  <2>1. Undefined => stray /\ beat.at = "off"
    BY DEF PushesInv, UndefinedIsForgotten
  <2>2. Undefined => who # "heartbeat"
    BY <1>1, <2>1
  <2> QED
    BY <1>2, <2>1, <2>2
<1>4. ResultsAre'
  BY <1>1, <1>2 DEF PushesInv, ResultsAre, NoResult
<1>5. beat.at = "off" => beat'.at = "off"
  BY <1>1, <1>2
<1>6. TargetsKnown' /\ ChangesWhileRunning'
  <2>1. Monitored => Monitored'
    BY <1>1, <1>2 DEF Monitored
  <2>2. TargetsKnown'
    BY <1>1, <1>2, <2>1, ActorsApart DEF PushesInv, TargetsKnown
  <2> QED
    BY <1>1, <1>2, <1>5, <2>2 DEF PushesInv, ChangesWhileRunning
<1>7. result' \in [Actors -> [kind : Kinds, failed : BOOLEAN, maintained : BOOLEAN]]
  BY <1>1, <1>2 DEF NoResult, Kinds
<1>8. /\ pc' \in [Actors -> {"idle", "locking", "inserting", "finishing"}]
      /\ \A twin \in Actors : pc'[twin] \in {"idle", "locking"}
  BY <1>1, <1>2
<1>9. /\ beat' \in [at : {"off", "starting", "waiting", "looking", "recording"}, last : Times \cup {None},
                    elapsed : 0..(Interval - 1), tick : BOOLEAN, cancelled : BOOLEAN]
      /\ (beat'.at \in {"waiting", "looking", "recording"} <=> beat'.last # None)
      /\ (pc'["heartbeat"] # "idle" <=> beat'.at = "recording")
      /\ beat'.last = beat.last
  BY <1>1, <1>2, ActorsApart
<1> QED
  BY <1>1, <1>2, <1>3, <1>4, <1>6, <1>7, <1>8, <1>9

\* The storage fails to insert the result, which is lost.
LEMMA InsertFailsKeeps ==
    ASSUME PushesInv, NEW who \in Actors, InsertFails(who)
    PROVE  PushesInv'
<1>1. /\ pc[who] = "inserting" /\ Released(who) /\ lost' = TRUE /\ converted' = 0
      /\ UNCHANGED <<inConfig, managed, cycle, change, lastPushes, age, used, maintenance, silence, orphaned, stray>>
  BY DEF InsertFails, definition, memory
<1>2. /\ ResultsAre' /\ TargetsKnown' /\ ChangesWhileRunning'
      /\ pc' \in [Actors -> {"idle", "locking", "inserting", "finishing"}]
      /\ result' \in [Actors -> [kind : Kinds, failed : BOOLEAN, maintained : BOOLEAN]]
      /\ \A twin \in Actors : pc'[twin] \in {"idle", "locking"}
      /\ fallsBack' \subseteq Pushers /\ stopped' \subseteq Pushers /\ holder' = None
      /\ beat' \in [at : {"off", "starting", "waiting", "looking", "recording"}, last : Times \cup {None},
                    elapsed : 0..(Interval - 1), tick : BOOLEAN, cancelled : BOOLEAN]
      /\ (beat'.at \in {"waiting", "looking", "recording"} <=> beat'.last # None)
      /\ (pc'["heartbeat"] # "idle" <=> beat'.at = "recording")
      /\ beat'.last = beat.last /\ (Undefined => stray /\ beat'.at = "off")
  BY <1>1, ReleaseKeeps DEF definition
<1>3. TypeOK'
  <2>1. 0 \in 0..(Retries + 1)
    BY PushesAssumption
  <2> QED
    BY <1>1, <1>2, <2>1, ActorsApart DEF PushesInv, TypeOK
<1>4. UsedIsConverted' /\ UndefinedIsForgotten' /\ TimesKept'
  BY <1>1, <1>2 DEF PushesInv, UsedIsConverted, UndefinedIsForgotten, Undefined, TimesKept
<1> QED
  BY <1>2, <1>3, <1>4 DEF PushesInv

\* ... and after one that was: a push restarts the interval.
LEMMA FinishKeeps ==
    ASSUME PushesInv, NEW who \in Actors, Finish(who)
    PROVE  PushesInv'
<1>1. /\ pc[who] = "finishing" /\ Released(who)
      /\ UNCHANGED <<inConfig, managed, cycle, change, used, maintenance, orphaned, converted, lost, stray>>
  BY DEF Finish, definition
<1>2. /\ ResultsAre' /\ TargetsKnown' /\ ChangesWhileRunning'
      /\ pc' \in [Actors -> {"idle", "locking", "inserting", "finishing"}]
      /\ result' \in [Actors -> [kind : Kinds, failed : BOOLEAN, maintained : BOOLEAN]]
      /\ \A twin \in Actors : pc'[twin] \in {"idle", "locking"}
      /\ fallsBack' \subseteq Pushers /\ stopped' \subseteq Pushers /\ holder' = None
      /\ beat' \in [at : {"off", "starting", "waiting", "looking", "recording"}, last : Times \cup {None},
                    elapsed : 0..(Interval - 1), tick : BOOLEAN, cancelled : BOOLEAN]
      /\ (beat'.at \in {"waiting", "looking", "recording"} <=> beat'.last # None)
      /\ (pc'["heartbeat"] # "idle" <=> beat'.at = "recording")
      /\ beat'.last = beat.last /\ (Undefined => stray /\ beat'.at = "off")
  BY <1>1, ReleaseKeeps DEF definition
<1>3. /\ age \in [Times -> 0..Interval] /\ silence \in 0..Interval /\ Interval \in Nat \ {0}
      /\ lastPushes \in Times \cup {None} /\ None \notin Times
      /\ Time \in Times /\ (lastPushes # None => Time = lastPushes) /\ (lastPushes = None => Time # beat.last)
      /\ beat.last \in Times \cup {None}
  BY PushesAssumption, TimeIsOne, ActorsApart DEF PushesInv, TypeOK
<1>4. /\ age' \in [Times -> 0..Interval] /\ silence' \in 0..Interval /\ lastPushes' \in Times \cup {None}
      /\ TimesKept'
  <2>1. CASE who \in Pushers
    <3>1. lastPushes' = Time /\ age' = [age EXCEPT ![Time] = 0] /\ silence' = 0
      BY <2>1 DEF Finish, Restarts
    <3>2. beat.last # None => beat.last = Time \/ orphaned
      BY <1>3 DEF PushesInv, TimesKept
    <3>3. \A t \in Times : age'[t] \in Nat
      BY <1>3, <3>1
    <3> QED
      BY <1>1, <1>2, <1>3, <3>1, <3>2, <3>3 DEF TimesKept
  <2>2. CASE who \notin Pushers
    <3>1. UNCHANGED <<lastPushes, age, silence>>
      BY <2>2 DEF Finish, Restarts
    <3> QED
      BY <1>1, <1>2, <1>3, <3>1 DEF PushesInv, TimesKept
  <2> QED
    BY <2>1, <2>2
<1>5. TypeOK'
  BY <1>1, <1>2, <1>4, ActorsApart DEF PushesInv, TypeOK
<1>6. UsedIsConverted' /\ UndefinedIsForgotten'
  <2>1. (converted <= Retries \/ lost) /\ (used = converted \/ lost)
    <3>1. \A twin \in Actors : pc[twin] # "inserting"
      BY <1>1 DEF PushesInv, TypeOK
    <3> QED
      BY <3>1 DEF PushesInv, UsedIsConverted
  <2> QED
    BY <1>1, <1>2, <2>1 DEF UsedIsConverted, UndefinedIsForgotten, Undefined
<1> QED
  BY <1>2, <1>4, <1>5, <1>6 DEF PushesInv

-----------------------------------------------------------------------------
(* The steps of the requests, of the heartbeat and of the administration *)

\* A request comes, or is rejected.
LEMMA RequestKeeps ==
    ASSUME PushesInv, NEW p \in Pushers, (\E kind \in Kinds : Push(p, kind)) \/ Reject(p)
    PROVE  PushesInv'
<1>1. /\ pc \in [Actors -> {"idle", "locking", "inserting", "finishing"}]
      /\ result \in [Actors -> [kind : Kinds, failed : BOOLEAN, maintained : BOOLEAN]]
      /\ fallsBack \subseteq Pushers /\ stopped \subseteq Pushers /\ p \in Actors /\ p # "heartbeat" /\ p # "leftover"
  BY ActorsApart DEF PushesInv, TypeOK
<1>2. CASE Reject(p)
  <2>1. /\ pc[p] = "locking" /\ pc' = [pc EXCEPT ![p] = "idle"] /\ result' = [result EXCEPT ![p] = NoResult]
        /\ p \notin fallsBack /\ stopped' = stopped \ {p}
        /\ UNCHANGED <<inConfig, managed, cycle, change, lastPushes, age, used, beat, fallsBack, holder, maintenance,
                       silence, orphaned, converted, lost, stray>>
    BY <1>2 DEF Reject, Accepts, definition, memory, observed
  <2>2. result' \in [Actors -> [kind : Kinds, failed : BOOLEAN, maintained : BOOLEAN]]
    BY <1>1, <2>1 DEF NoResult, Kinds
  <2>3. TypeOK'
    BY <1>1, <2>1, <2>2 DEF PushesInv, TypeOK
  <2>4. ResultsAre'
    BY <1>1, <2>1 DEF PushesInv, ResultsAre, NoResult
  <2>5. UsedIsConverted'
    BY <1>1, <2>1 DEF PushesInv, UsedIsConverted, Pending
  <2>6. UndefinedIsForgotten' /\ TargetsKnown' /\ ChangesWhileRunning' /\ TimesKept'
    BY <1>1, <2>1 DEF PushesInv, UndefinedIsForgotten, Undefined, TargetsKnown, Monitored, ChangesWhileRunning, TimesKept
  <2> QED
    BY <2>3, <2>4, <2>5, <2>6 DEF PushesInv
<1>3. ASSUME NEW kind \in Kinds, Push(p, kind) PROVE PushesInv'
  <2>1. /\ pc[p] = "idle" /\ (inConfig \/ Monitored)
        /\ pc' = [pc EXCEPT ![p] = "locking"] /\ result' = [result EXCEPT ![p].kind = kind]
        /\ fallsBack' = IF inConfig THEN fallsBack \cup {p} ELSE fallsBack
        /\ UNCHANGED <<inConfig, managed, cycle, change, lastPushes, age, used, beat, stopped, holder, maintenance,
                       silence, orphaned, converted, lost, stray>>
    BY <1>3 DEF Push, definition, memory, observed
  <2>2. result[p] = NoResult
    BY <1>1, <2>1 DEF PushesInv, ResultsAre
  <2>3. result' \in [Actors -> [kind : Kinds, failed : BOOLEAN, maintained : BOOLEAN]]
    BY <1>1, <2>1
  <2>4. TypeOK'
    BY <1>1, <2>1, <2>3 DEF PushesInv, TypeOK
  <2>5. ResultsAre'
    BY <1>1, <2>1, <2>2 DEF PushesInv, ResultsAre, NoResult
  <2>6. UsedIsConverted'
    BY <1>1, <2>1 DEF PushesInv, UsedIsConverted, Pending
  <2>7. UndefinedIsForgotten' /\ TargetsKnown' /\ ChangesWhileRunning' /\ TimesKept'
    BY <1>1, <2>1 DEF PushesInv, UndefinedIsForgotten, Undefined, TargetsKnown, Monitored, ChangesWhileRunning, TimesKept
  <2> QED
    BY <2>4, <2>5, <2>6, <2>7 DEF PushesInv
<1> QED
  BY <1>2, <1>3

\* What the steps of the heartbeat that do not process a result keep
LEMMA BeatKeeps ==
    ASSUME PushesInv,
           UNCHANGED <<inConfig, managed, cycle, change, used, pc, result, fallsBack, stopped, holder, maintenance>>,
           UNCHANGED <<converted, lost, stray>>, beat.cancelled \/ (Monitored => Monitored'),
           beat' \in [at : {"off", "starting", "waiting", "looking", "recording"}, last : Times \cup {None},
                      elapsed : 0..(Interval - 1), tick : BOOLEAN, cancelled : BOOLEAN],
           beat'.at \in {"waiting", "looking", "recording"} <=> beat'.last # None,
           beat'.at = "recording" <=> beat.at = "recording",
           lastPushes' \in Times \cup {None}, age' \in [Times -> 0..Interval], silence' \in 0..Interval,
           orphaned' \in BOOLEAN, TimesKept',
           Undefined => beat'.at = "off" /\ (stray \/ lastPushes' = None),
           cycle = "loaded" => beat'.at = "off"
    PROVE  PushesInv'
<1>1. TypeOK'
  BY DEF PushesInv, TypeOK
<1>2. ResultsAre' /\ UsedIsConverted' /\ UndefinedIsForgotten' /\ ChangesWhileRunning'
  BY DEF PushesInv, ResultsAre, UsedIsConverted, Pending, UndefinedIsForgotten, Undefined, ChangesWhileRunning
<1>3. TargetsKnown'
  <2>1. beat.cancelled => ~Monitored
    BY DEF Monitored
  <2> QED
    BY <2>1 DEF PushesInv, TargetsKnown
<1> QED
  BY <1>1, <1>2, <1>3 DEF PushesInv

\* The goroutine of the heartbeat
LEMMA HeartbeatKeeps ==
    ASSUME PushesInv, Heartbeat
    PROVE  PushesInv'
<1>1. /\ beat \in [at : {"off", "starting", "waiting", "looking", "recording"}, last : Times \cup {None},
                   elapsed : 0..(Interval - 1), tick : BOOLEAN, cancelled : BOOLEAN]
      /\ (beat.at \in {"waiting", "looking", "recording"} <=> beat.last # None)
      /\ lastPushes \in Times \cup {None} /\ age \in [Times -> 0..Interval] /\ silence \in 0..Interval
      /\ orphaned \in BOOLEAN /\ Interval \in Nat \ {0} /\ None \notin Times
      /\ Time \in Times /\ (lastPushes # None => Time = lastPushes) /\ (lastPushes = None => Time # beat.last)
      /\ (pc["heartbeat"] # "idle" <=> beat.at = "recording")
  BY PushesAssumption, ActorsApart, TimeIsOne DEF PushesInv, TypeOK
<1>2. CASE BeginHeartbeat
  <2>1. /\ beat.at = "starting" /\ beat' = [beat EXCEPT !.at = "waiting", !.last = Time] /\ lastPushes' = Time
        /\ IF lastPushes = None THEN age' = [age EXCEPT ![Time] = 0] /\ silence' = 0 ELSE UNCHANGED <<age, silence>>
        /\ UNCHANGED <<inConfig, managed, cycle, change, used, pc, result, fallsBack, stopped, holder, maintenance>>
        /\ UNCHANGED <<orphaned, converted, lost, stray>>
    BY <1>2 DEF BeginHeartbeat, FirstUse, definition, processing
  <2>2. /\ beat' \in [at : {"off", "starting", "waiting", "looking", "recording"}, last : Times \cup {None},
                      elapsed : 0..(Interval - 1), tick : BOOLEAN, cancelled : BOOLEAN]
        /\ beat'.at = "waiting" /\ beat'.last = Time /\ Time # None /\ beat'.cancelled = beat.cancelled
    BY <1>1, <2>1
  <2>3. age' \in [Times -> 0..Interval] /\ silence' \in 0..Interval
    BY <1>1, <2>1
  <2>4. TimesKept'
    BY <1>1, <2>1, <2>2, <2>3 DEF PushesInv, TimesKept
  <2>5. ~Undefined /\ cycle # "loaded"
    BY <2>1 DEF PushesInv, UndefinedIsForgotten, ChangesWhileRunning
  <2>6. Monitored => Monitored'
    BY <2>2 DEF Monitored
  <2> QED
    BY <1>1, <2>1, <2>2, <2>3, <2>4, <2>5, <2>6, BeatKeeps
<1>3. ASSUME NoConnectivity \/ Tick \/ Skip PROVE PushesInv'
  <2>1. /\ UNCHANGED <<inConfig, managed, cycle, change, lastPushes, age, used, pc, result, fallsBack, stopped, holder, maintenance,
                       silence, orphaned, converted, lost, stray>>
        /\ beat.at \in {"waiting", "looking"}
        /\ \/ beat' = [beat EXCEPT !.at = "looking", !.tick = FALSE]
           \/ beat' = [beat EXCEPT !.at = "waiting"]
           \/ beat' = [beat EXCEPT !.tick = FALSE]
    BY <1>3 DEF NoConnectivity, Tick, Skip, BeatStep, definition, memory, observed
  <2>2. /\ beat' \in [at : {"off", "starting", "waiting", "looking", "recording"}, last : Times \cup {None},
                      elapsed : 0..(Interval - 1), tick : BOOLEAN, cancelled : BOOLEAN]
        /\ beat'.at \in {"waiting", "looking"} /\ beat'.last = beat.last /\ beat.last # None
        /\ beat'.cancelled = beat.cancelled
    BY <1>1, <2>1
  <2>3. TimesKept'
    BY <2>1, <2>2 DEF PushesInv, TimesKept
  <2>4. ~Undefined /\ cycle # "loaded"
    BY <2>1 DEF PushesInv, UndefinedIsForgotten, ChangesWhileRunning
  <2>5. Monitored => Monitored'
    BY <2>2 DEF Monitored
  <2> QED
    BY <1>1, <2>1, <2>2, <2>3, <2>4, <2>5, BeatKeeps
<1>4. CASE Miss
  <2>1. /\ beat.at = "looking" /\ beat' = [beat EXCEPT !.at = "recording"]
        /\ pc' = [pc EXCEPT !["heartbeat"] = "locking"] /\ result' = [result EXCEPT !["heartbeat"].kind = "down"]
        /\ UNCHANGED <<inConfig, managed, cycle, change, lastPushes, age, used, fallsBack, stopped, holder, maintenance,
                       silence, orphaned, converted, lost, stray>>
    BY <1>4 DEF Miss, BeatStep, definition, memory, observed
  <2>2. /\ pc \in [Actors -> {"idle", "locking", "inserting", "finishing"}]
        /\ result \in [Actors -> [kind : Kinds, failed : BOOLEAN, maintained : BOOLEAN]]
        /\ pc["heartbeat"] = "idle" /\ result["heartbeat"] = NoResult
    BY <1>1, <2>1, ActorsApart DEF PushesInv, TypeOK, ResultsAre
  <2>3. result' \in [Actors -> [kind : Kinds, failed : BOOLEAN, maintained : BOOLEAN]]
    BY <2>1, <2>2 DEF Kinds
  <2>4. /\ beat' \in [at : {"off", "starting", "waiting", "looking", "recording"}, last : Times \cup {None},
                      elapsed : 0..(Interval - 1), tick : BOOLEAN, cancelled : BOOLEAN]
        /\ beat'.at = "recording" /\ beat'.last = beat.last /\ beat.last # None /\ beat'.cancelled = beat.cancelled
    BY <1>1, <2>1
  <2>5. TypeOK'
    BY <1>1, <2>1, <2>2, <2>3, <2>4, ActorsApart DEF PushesInv, TypeOK
  <2>6. ResultsAre'
    BY <2>1, <2>2 DEF PushesInv, ResultsAre, NoResult
  <2>7. UsedIsConverted'
    BY <2>1, <2>2 DEF PushesInv, UsedIsConverted, Pending
  <2>8. UndefinedIsForgotten' /\ TargetsKnown' /\ ChangesWhileRunning' /\ TimesKept'
    BY <2>1, <2>2, <2>4, ActorsApart
       DEF PushesInv, UndefinedIsForgotten, Undefined, TargetsKnown, Monitored, ChangesWhileRunning, TimesKept
  <2> QED
    BY <2>5, <2>6, <2>7, <2>8 DEF PushesInv
<1>5. CASE EndHeartbeat
  <2>1. /\ beat.at = "waiting" /\ beat' = NoBeat /\ orphaned' = FALSE
        /\ UNCHANGED <<inConfig, managed, cycle, change, lastPushes, age, used, pc, result, fallsBack, stopped, holder, maintenance,
                       silence, converted, lost, stray>>
        /\ beat.cancelled
    BY <1>5 DEF EndHeartbeat, definition, memory, processing
  <2>2. NoBeat \in [at : {"off", "starting", "waiting", "looking", "recording"}, last : Times \cup {None},
                    elapsed : 0..(Interval - 1), tick : BOOLEAN, cancelled : BOOLEAN]
        /\ NoBeat.at = "off" /\ NoBeat.last = None
    BY <1>1 DEF NoBeat
  <2>3. TimesKept'
    BY <2>1, <2>2 DEF PushesInv, TimesKept
  <2>4. Undefined => stray \/ lastPushes = None
    BY DEF PushesInv, UndefinedIsForgotten
  <2> QED
    BY <1>1, <2>1, <2>2, <2>3, <2>4, BeatKeeps
<1> QED
  BY <1>2, <1>3, <1>4, <1>5 DEF Heartbeat

\* Time passes, for everyone alike.
LEMMA TimeKeeps ==
    ASSUME PushesInv, Elapse \/ ToggleMaintenance
    PROVE  PushesInv'
<1>1. /\ beat \in [at : {"off", "starting", "waiting", "looking", "recording"}, last : Times \cup {None},
                   elapsed : 0..(Interval - 1), tick : BOOLEAN, cancelled : BOOLEAN]
      /\ (beat.at \in {"waiting", "looking", "recording"} <=> beat.last # None)
      /\ lastPushes \in Times \cup {None} /\ age \in [Times -> 0..Interval] /\ silence \in 0..Interval
      /\ orphaned \in BOOLEAN /\ Interval \in Nat \ {0} /\ None \notin Times
  BY PushesAssumption, ActorsApart DEF PushesInv, TypeOK
<1>2. CASE Elapse
  <2>1. /\ age' = [t \in Times |-> Older(age[t])] /\ silence' = Older(silence) /\ beat' = Ticked(beat)
        /\ UNCHANGED <<inConfig, managed, cycle, change, lastPushes, used, pc, result, fallsBack, stopped, holder, maintenance,
                       orphaned, converted, lost, stray>>
    BY <1>2 DEF Elapse, definition, processing
  <2>2. age' \in [Times -> 0..Interval] /\ silence' \in 0..Interval
    BY <1>1, <2>1 DEF Older
  <2>3. beat.at \notin {"off", "starting"} /\ ~beat.cancelled =>
            beat' = [[beat EXCEPT !.elapsed = (beat.elapsed + 1) % Interval] EXCEPT !.tick = beat.tick \/ beat.elapsed + 1 = Interval]
    BY <1>1, <2>1 DEF Ticked
  <2>4. (beat.elapsed + 1) % Interval \in 0..(Interval - 1)
    BY <1>1
  <2>5. /\ beat' \in [at : {"off", "starting", "waiting", "looking", "recording"}, last : Times \cup {None},
                      elapsed : 0..(Interval - 1), tick : BOOLEAN, cancelled : BOOLEAN]
        /\ beat'.at = beat.at /\ beat'.last = beat.last /\ beat'.cancelled = beat.cancelled
    BY <1>1, <2>1, <2>3, <2>4 DEF Ticked
  <2>6. TimesKept'
    BY <1>1, <2>1, <2>5 DEF PushesInv, TimesKept, Older
  <2>7. /\ Undefined => beat.at = "off" /\ (stray \/ lastPushes = None)
        /\ cycle = "loaded" => beat.at = "off"
    BY DEF PushesInv, UndefinedIsForgotten, ChangesWhileRunning
  <2>8. Monitored => Monitored'
    BY <2>5 DEF Monitored
  <2> QED
    BY <1>1, <2>1, <2>2, <2>5, <2>6, <2>7, <2>8, BeatKeeps
<1>3. CASE ToggleMaintenance
  <2>1. maintenance' = ~maintenance /\ UNCHANGED <<definition, cycle, change, memory, beat, processing, observed>>
    BY <1>3 DEF ToggleMaintenance
  <2>2. TypeOK'
    BY <2>1 DEF PushesInv, TypeOK, definition, memory, processing, observed
  <2>3. ResultsAre' /\ UsedIsConverted' /\ UndefinedIsForgotten' /\ TargetsKnown' /\ ChangesWhileRunning' /\ TimesKept'
    BY <2>1 DEF PushesInv, ResultsAre, UsedIsConverted, Pending, UndefinedIsForgotten, Undefined, TargetsKnown, Monitored,
       ChangesWhileRunning, TimesKept, definition, memory, processing, observed
  <2> QED
    BY <2>2, <2>3 DEF PushesInv
<1> QED
  BY <1>2, <1>3

\* The context of the monitoring is cancelled, or a new one starts with nothing to process.
LEMMA MonitoringChanges ==
    ASSUME PushesInv, NEW twin, twin \in {Cancelled(beat), NewBeat, NoBeat}, twin = Cancelled(beat) \/ beat.at = "off"
    PROVE  /\ twin \in [at : {"off", "starting", "waiting", "looking", "recording"}, last : Times \cup {None},
                     elapsed : 0..(Interval - 1), tick : BOOLEAN, cancelled : BOOLEAN]
           /\ twin.last = beat.last /\ (twin.at = beat.at \/ (beat.at = "off" /\ twin.at \in {"off", "starting"}))
<1>1. /\ beat \in [at : {"off", "starting", "waiting", "looking", "recording"}, last : Times \cup {None},
                   elapsed : 0..(Interval - 1), tick : BOOLEAN, cancelled : BOOLEAN]
      /\ (beat.at \in {"waiting", "looking", "recording"} <=> beat.last # None) /\ Interval \in Nat \ {0}
  BY PushesAssumption DEF PushesInv, TypeOK
<1>2. CASE twin = Cancelled(beat)
  <2>1. 0 \in 0..(Interval - 1)
    BY <1>1
  <2> QED
    BY <1>1, <1>2, <2>1 DEF Cancelled
<1>3. CASE twin \in {NoBeat, NewBeat} /\ beat.at = "off"
  <2>1. 0 \in 0..(Interval - 1) /\ beat.last = None
    BY <1>1, <1>3
  <2>2. CASE twin = NoBeat
    BY <1>3, <2>1, <2>2 DEF NoBeat
  <2>3. CASE twin = NewBeat
    <3>1. twin = [at |-> "starting", last |-> None, elapsed |-> 0, tick |-> FALSE, cancelled |-> FALSE]
      BY <2>3 DEF NoBeat, NewBeat
    <3> QED
      BY <1>3, <2>1, <3>1
  <2> QED
    BY <1>3, <2>2, <2>3
<1> QED
  BY <1>2, <1>3

\* What the steps of the administration and of a reload keep
LEMMA ChangeKeeps ==
    ASSUME PushesInv, UNCHANGED <<age, pc, result, fallsBack, holder, maintenance, silence>>,
           stopped' \subseteq Pushers, stray' \in BOOLEAN,
           beat' \in [at : {"off", "starting", "waiting", "looking", "recording"}, last : Times \cup {None},
                      elapsed : 0..(Interval - 1), tick : BOOLEAN, cancelled : BOOLEAN],
           beat'.last = beat.last /\ (beat'.at = beat.at \/ (beat.at = "off" /\ beat'.at \in {"off", "starting"})),
           inConfig' \in BOOLEAN, managed' \in BOOLEAN,
           cycle' \in {"running", "stopping", "loaded"}, change' \in {"none", "editing", "deleting"},
           orphaned' \in BOOLEAN, lost' \in BOOLEAN,
           \/ UNCHANGED <<lastPushes, used, orphaned, converted, lost>>
           \/ /\ lastPushes' = None /\ used' = 0 /\ holder = None
              /\ converted' = 0
              /\ beat.last = None \/ orphaned',
           UndefinedIsForgotten', TargetsKnown', ChangesWhileRunning'
    PROVE  PushesInv'
<1>1. lastPushes' \in Times \cup {None} /\ used' \in 0..Retries /\ converted' \in 0..(Retries + 1)
  BY PushesAssumption DEF PushesInv, TypeOK
<1>2. TypeOK'
  BY <1>1 DEF PushesInv, TypeOK
<1>3. UsedIsConverted'
  <2>1. CASE UNCHANGED <<used, converted, lost>>
    BY <2>1 DEF PushesInv, UsedIsConverted, Pending
  <2>2. CASE holder = None /\ (used' = converted' \/ lost') /\ (converted' <= Retries \/ lost')
    BY <2>2, ActorsApart DEF PushesInv, TypeOK, UsedIsConverted
  <2> QED
    BY <2>1, <2>2, PushesAssumption
<1>4. ResultsAre'
  BY DEF PushesInv, ResultsAre
<1>5. TimesKept'
  BY DEF PushesInv, TimesKept
<1> QED
  BY <1>2, <1>3, <1>4, <1>5 DEF PushesInv

\* When the monitoring stops, the pushes that wait for the lock have no target any more.
LEMMA StopsKeep ==
    ASSUME PushesInv, Stops
    PROVE  /\ UNCHANGED <<pc, result, fallsBack, holder>> /\ beat' = Cancelled(beat)
           /\ stopped' \subseteq Pushers /\ TargetsKnown'
<1>1. pc \in [Actors -> {"idle", "locking", "inserting", "finishing"}] /\ stopped \subseteq Pushers
  BY DEF PushesInv, TypeOK
<1> QED
  BY <1>1 DEF PushesInv, TargetsKnown, Stops

\* The changes of the administration: only a key that nobody processes a result of is forgotten.
LEMMA AdministrationKeeps ==
    ASSUME PushesInv, Administration
    PROVE  PushesInv'
<1>1. /\ inConfig \in BOOLEAN /\ managed \in BOOLEAN /\ lost \in BOOLEAN /\ orphaned \in BOOLEAN /\ stray \in BOOLEAN
      /\ cycle \in {"running", "stopping", "loaded"} /\ change \in {"none", "editing", "deleting"}
      /\ (beat.at \in {"waiting", "looking", "recording"} <=> beat.last # None)
      /\ \A who \in Actors : pc[who] \in {"inserting", "finishing"} <=> holder = who
      /\ pc \in [Actors -> {"idle", "locking", "inserting", "finishing"}] /\ stopped \subseteq Pushers
      /\ beat \in [at : {"off", "starting", "waiting", "looking", "recording"}, last : Times \cup {None},
                   elapsed : 0..(Interval - 1), tick : BOOLEAN, cancelled : BOOLEAN]
  BY DEF PushesInv, TypeOK
<1>2. CASE Create
  <2>1. /\ cycle = "running" /\ change = "none" /\ ~inConfig /\ ~managed /\ managed' = TRUE /\ beat' = NewBeat /\ stray' = FALSE
        /\ UNCHANGED <<inConfig, cycle, change, lastPushes, age, used, pc, result, fallsBack, stopped, holder, maintenance>>
        /\ UNCHANGED <<silence, orphaned, converted, lost>>
    BY <1>2 DEF Create, ChangeBegins, memory, processing
  <2>2. beat.at = "off"
    BY <2>1 DEF PushesInv, UndefinedIsForgotten, Undefined
  <2>3. UndefinedIsForgotten' /\ TargetsKnown' /\ ChangesWhileRunning'
    BY <2>1, <2>2 DEF PushesInv, UndefinedIsForgotten, Undefined, TargetsKnown, Monitored, ChangesWhileRunning
  <2> QED
    BY <1>1, <2>1, <2>2, <2>3, MonitoringChanges, ChangeKeeps
<1>3. ASSUME BeginEdit \/ BeginDelete PROVE PushesInv'
  <2>1. /\ cycle = "running" /\ managed /\ ~inConfig /\ change' \in {"editing", "deleting"} /\ Stops
        /\ UNCHANGED <<inConfig, managed, cycle, lastPushes, age, used, maintenance, silence, orphaned, converted, lost, stray>>
    BY <1>3 DEF BeginEdit, BeginDelete, ChangeBegins, definition, memory, observed
  <2>2. /\ UNCHANGED <<pc, result, fallsBack, holder>> /\ beat' = Cancelled(beat)
        /\ stopped' \subseteq Pushers /\ TargetsKnown'
    BY <2>1, StopsKeep
  <2>3. UndefinedIsForgotten' /\ ChangesWhileRunning'
    BY <2>1, <2>2 DEF PushesInv, UndefinedIsForgotten, Undefined, ChangesWhileRunning
  <2> QED
    BY <1>1, <2>1, <2>2, <2>3, MonitoringChanges, ChangeKeeps
<1>4. CASE EndEdit
  <2>1. /\ change = "editing" /\ beat.at = "off" /\ change' = "none" /\ beat' = NewBeat
        /\ UNCHANGED <<inConfig, managed, cycle, lastPushes, age, used, pc, result, fallsBack, stopped, holder, maintenance>>
        /\ UNCHANGED <<silence, orphaned, converted, lost, stray>>
    BY <1>4 DEF EndEdit, definition, memory, processing, observed
  <2>2. UndefinedIsForgotten' /\ TargetsKnown' /\ ChangesWhileRunning'
    BY <2>1 DEF PushesInv, UndefinedIsForgotten, Undefined, TargetsKnown, Monitored, ChangesWhileRunning
  <2> QED
    BY <1>1, <2>1, <2>2, MonitoringChanges, ChangeKeeps
<1>5. CASE EndDelete
  <2>1. /\ change = "deleting" /\ beat.at = "off" /\ holder = None /\ change' = "none" /\ managed' = FALSE
        /\ lastPushes' = None /\ used' = 0 /\ converted' = 0 /\ lost' = FALSE
        /\ UNCHANGED <<inConfig, cycle, age, beat, pc, result, fallsBack, stopped, holder, maintenance, silence, orphaned, stray>>
    BY <1>5 DEF EndDelete, Forget, processing
  <2>2. \A who \in Actors : pc[who] \in {"idle", "locking"}
    BY <1>1, <2>1, ActorsApart
  <2>3. UndefinedIsForgotten' /\ TargetsKnown' /\ ChangesWhileRunning'
    BY <1>1, <2>1, <2>2 DEF PushesInv, UndefinedIsForgotten, TargetsKnown, Monitored, ChangesWhileRunning
  <2>5. /\ beat'.last = beat.last /\ beat'.at = beat.at
        /\ inConfig' \in BOOLEAN /\ managed' \in BOOLEAN /\ lost' \in BOOLEAN /\ orphaned' \in BOOLEAN
        /\ cycle' \in {"running", "stopping", "loaded"} /\ change' \in {"none", "editing", "deleting"}
        /\ beat.last = None \/ orphaned'
    BY <1>1, <2>1
  <2> QED
    BY <1>1, <2>1, <2>3, <2>5, ChangeKeeps
<1>6. CASE DeleteInConflict
  <2>1. /\ cycle = "running" /\ change = "none" /\ managed /\ inConfig /\ holder = None /\ managed' = FALSE
        /\ lastPushes' = None /\ used' = 0 /\ lost' = TRUE /\ converted' = 0 /\ orphaned' = (beat.last # None)
        /\ UNCHANGED <<inConfig, cycle, change, age, beat, pc, result, fallsBack, stopped, holder, maintenance, silence, stray>>
    BY <1>6 DEF DeleteInConflict, ChangeBegins, Forget, processing
  <2>2. UndefinedIsForgotten' /\ TargetsKnown' /\ ChangesWhileRunning'
    BY <1>1, <2>1 DEF PushesInv, UndefinedIsForgotten, Undefined, TargetsKnown, Monitored, ChangesWhileRunning
  <2>4. /\ beat'.last = beat.last /\ beat'.at = beat.at
        /\ inConfig' \in BOOLEAN /\ managed' \in BOOLEAN /\ lost' \in BOOLEAN /\ orphaned' \in BOOLEAN
        /\ cycle' \in {"running", "stopping", "loaded"} /\ change' \in {"none", "editing", "deleting"}
        /\ beat.last = None \/ orphaned'
    BY <1>1, <2>1
  <2> QED
    BY <1>1, <2>1, <2>2, <2>4, ChangeKeeps
<1> QED
  BY <1>2, <1>3, <1>4, <1>5, <1>6 DEF Administration

\* A reload: the new configuration is loaded when the heartbeat has ended or is left behind, and so are the requests.
LEMMA CycleKeeps ==
    ASSUME PushesInv, BeginReload \/ (\E config \in BOOLEAN : Load(config)) \/ EndReload
    PROVE  PushesInv'
<1>1. /\ inConfig \in BOOLEAN /\ managed \in BOOLEAN /\ lost \in BOOLEAN /\ orphaned \in BOOLEAN /\ stray \in BOOLEAN
      /\ cycle \in {"running", "stopping", "loaded"} /\ change \in {"none", "editing", "deleting"}
      /\ (beat.at \in {"waiting", "looking", "recording"} <=> beat.last # None)
      /\ \A who \in Actors : pc[who] \in {"inserting", "finishing"} <=> holder = who
      /\ pc \in [Actors -> {"idle", "locking", "inserting", "finishing"}] /\ stopped \subseteq Pushers
      /\ beat \in [at : {"off", "starting", "waiting", "looking", "recording"}, last : Times \cup {None},
                   elapsed : 0..(Interval - 1), tick : BOOLEAN, cancelled : BOOLEAN]
  BY DEF PushesInv, TypeOK
<1>2. CASE BeginReload
  <2>1. /\ cycle = "running" /\ change = "none" /\ cycle' = "stopping" /\ Stops
        /\ UNCHANGED <<inConfig, managed, change, lastPushes, age, used, maintenance, silence, orphaned, converted, lost, stray>>
    BY <1>2 DEF BeginReload, ChangeBegins, definition, memory, observed
  <2>2. /\ UNCHANGED <<pc, result, fallsBack, holder>> /\ beat' = Cancelled(beat)
        /\ stopped' \subseteq Pushers /\ TargetsKnown'
    BY <2>1, StopsKeep
  <2>3. UndefinedIsForgotten' /\ ChangesWhileRunning'
    BY <2>1, <2>2 DEF PushesInv, UndefinedIsForgotten, Undefined, ChangesWhileRunning, Cancelled
  <2> QED
    BY <1>1, <2>1, <2>2, <2>3, MonitoringChanges, ChangeKeeps
<1>3. ASSUME NEW config \in BOOLEAN, Load(config) PROVE PushesInv'
  <2>1. /\ cycle = "stopping" /\ beat.at = "off" /\ cycle' = "loaded" /\ inConfig' = config
        /\ stray' = (~config /\ ~managed /\ holder # None)
        /\ UNCHANGED <<managed, change, age, beat, pc, result, fallsBack, stopped, holder, maintenance, silence, orphaned>>
        /\ IF Forgotten(config) THEN holder = None /\ lastPushes' = None /\ used' = 0 /\ converted' = 0 /\ lost' = FALSE
                                ELSE UNCHANGED <<lastPushes, used, converted, lost>>
    BY <1>3 DEF Load, Forget, processing
  <2>2. change = "none" /\ beat.last = None
    BY <1>1, <2>1 DEF PushesInv, ChangesWhileRunning
  <2>3. ~config /\ ~managed => lastPushes' = None /\ used' = 0
    BY <2>1 DEF Forgotten
  <2>4. UndefinedIsForgotten'
    BY <1>1, <2>1, <2>3, ActorsApart DEF UndefinedIsForgotten, Undefined
  <2>5. TargetsKnown' /\ ChangesWhileRunning'
    BY <2>1, <2>2 DEF PushesInv, TargetsKnown, Monitored, ChangesWhileRunning
  <2>6. /\ beat'.last = beat.last /\ beat'.at = beat.at
        /\ inConfig' \in BOOLEAN /\ managed' \in BOOLEAN /\ lost' \in BOOLEAN /\ orphaned' \in BOOLEAN /\ stray' \in BOOLEAN
        /\ cycle' \in {"running", "stopping", "loaded"} /\ change' \in {"none", "editing", "deleting"}
        /\ beat.last = None \/ orphaned'
    BY <1>1, <2>1, <2>2
  <2>7. \/ UNCHANGED <<lastPushes, used, orphaned, converted, lost>>
        \/ lastPushes' = None /\ used' = 0 /\ holder = None /\ converted' = 0
    BY <2>1
  <2> QED
    BY <1>1, <2>1, <2>4, <2>5, <2>6, <2>7, ChangeKeeps
<1>4. CASE EndReload
  <2>1. /\ cycle = "loaded" /\ cycle' = "running" /\ beat' = IF inConfig \/ managed THEN NewBeat ELSE NoBeat
        /\ UNCHANGED <<inConfig, managed, change, lastPushes, age, used, pc, result, fallsBack, stopped, holder, maintenance>>
        /\ UNCHANGED <<silence, orphaned, converted, lost, stray>>
    BY <1>4 DEF EndReload, definition, memory, processing, observed
  <2>2. beat.at = "off" /\ change = "none"
    BY <1>1, <2>1 DEF PushesInv, ChangesWhileRunning
  <2>3. UndefinedIsForgotten' /\ ChangesWhileRunning'
    BY <2>1, <2>2 DEF PushesInv, UndefinedIsForgotten, Undefined, ChangesWhileRunning, NoBeat
  <2>4. TargetsKnown'
    BY <2>1, <2>2 DEF PushesInv, TargetsKnown, Monitored
  <2> QED
    BY <1>1, <2>1, <2>2, <2>3, <2>4, MonitoringChanges, ChangeKeeps
<1> QED
  BY <1>2, <1>3, <1>4

\* The timer fires: the heartbeat is left behind with the result that it processes.
LEMMA TimesOutKeeps ==
    ASSUME PushesInv, TimesOut
    PROVE  PushesInv'
<1>1. /\ pc \in [Actors -> {"idle", "locking", "inserting", "finishing"}]
      /\ result \in [Actors -> [kind : Kinds, failed : BOOLEAN, maintained : BOOLEAN]]
      /\ holder \in Actors \cup {None} /\ (\A who \in Actors : pc[who] \in {"inserting", "finishing"} <=> holder = who)
      /\ Interval \in Nat \ {0}
  BY PushesAssumption DEF PushesInv, TypeOK
<1>2. /\ beat.at = "recording" /\ beat.cancelled /\ pc["leftover"] = "idle" /\ beat' = NoBeat /\ orphaned' = FALSE
      /\ pc' = [pc EXCEPT !["leftover"] = pc["heartbeat"], !["heartbeat"] = "idle"]
      /\ result' = [result EXCEPT !["leftover"] = result["heartbeat"], !["heartbeat"] = NoResult]
      /\ holder' = IF holder = "heartbeat" THEN "leftover" ELSE holder
      /\ UNCHANGED <<inConfig, managed, cycle, change, lastPushes, age, used, fallsBack, stopped, maintenance, silence>>
      /\ UNCHANGED <<converted, lost, stray>>
  BY DEF TimesOut, definition, memory
<1>3. NoResult \in [kind : Kinds, failed : BOOLEAN, maintained : BOOLEAN]
  BY DEF NoResult, Kinds
<1>4. /\ pc' \in [Actors -> {"idle", "locking", "inserting", "finishing"}]
      /\ pc'["heartbeat"] = "idle" /\ pc'["leftover"] = pc["heartbeat"]
      /\ \A p \in Actors \ {"heartbeat", "leftover"} : pc'[p] = pc[p]
  BY <1>1, <1>2, ActorsApart
<1>5. /\ result' \in [Actors -> [kind : Kinds, failed : BOOLEAN, maintained : BOOLEAN]]
      /\ result'["heartbeat"] = NoResult /\ result'["leftover"] = result["heartbeat"]
      /\ \A p \in Actors \ {"heartbeat", "leftover"} : result'[p] = result[p]
  BY <1>1, <1>2, <1>3, ActorsApart
<1>6. /\ holder' \in Actors \cup {None}
      /\ \A who \in Actors : pc'[who] \in {"inserting", "finishing"} <=> holder' = who
  BY <1>1, <1>2, <1>4, ActorsApart
<1>7. NoBeat \in [at : {"off", "starting", "waiting", "looking", "recording"}, last : Times \cup {None},
                  elapsed : 0..(Interval - 1), tick : BOOLEAN, cancelled : BOOLEAN]
      /\ NoBeat.at = "off" /\ NoBeat.last = None
  BY <1>1 DEF NoBeat
<1>8. TypeOK'
  <2>1. /\ beat' \in [at : {"off", "starting", "waiting", "looking", "recording"}, last : Times \cup {None},
                      elapsed : 0..(Interval - 1), tick : BOOLEAN, cancelled : BOOLEAN]
        /\ beat'.at = "off" /\ beat'.last = None /\ orphaned' \in BOOLEAN
    BY <1>2, <1>7
  <2>2. /\ beat'.at \in {"waiting", "looking", "recording"} <=> beat'.last # None
        /\ pc'["heartbeat"] # "idle" <=> beat'.at = "recording"
    BY <1>4, <2>1
  <2> QED
    BY <1>2, <1>4, <1>5, <1>6, <2>1, <2>2 DEF PushesInv, TypeOK
<1>9. ResultsAre'
  <2>1. /\ pc["heartbeat"] = "idle" => result["heartbeat"] = NoResult
        /\ pc["heartbeat"] = "locking" => ~result["heartbeat"].failed /\ ~result["heartbeat"].maintained
        /\ result["heartbeat"].failed => result["heartbeat"].kind = "pending"
    BY ActorsApart DEF PushesInv, ResultsAre
  <2>2. ~NoResult.failed
    BY DEF NoResult
  <2> QED
    BY <1>4, <1>5, <2>1, <2>2 DEF PushesInv, ResultsAre
<1>10. UsedIsConverted'
  <2>1. /\ \A who \in Actors : pc[who] = "inserting" => \E twin \in Actors : pc'[twin] = "inserting"
        /\ \A who \in Actors : pc'[who] # "idle" =>
               \E twin \in Actors : pc'[who] = pc[twin] /\ result'[who] = result[twin]
    BY <1>2, <1>4, <1>5, ActorsApart
  <2>2. \A who \in Actors : pc'[who] = "inserting" =>
            IF result'[who].kind = "up" THEN used = 0
            ELSE used = converted + (IF result'[who].failed THEN 1 ELSE 0) \/ lost
    BY <2>1 DEF PushesInv, UsedIsConverted, Pending
  <2>3. \A who \in Actors : pc'[who] \in {"inserting", "finishing"} /\ result'[who].kind = "down" /\ ~result'[who].maintained
            => used = Retries
    BY <2>1 DEF PushesInv, UsedIsConverted
  <2> QED
    BY <1>2, <2>1, <2>2, <2>3 DEF PushesInv, UsedIsConverted, Pending
<1>11. ~Undefined
  BY <1>2 DEF PushesInv, UndefinedIsForgotten
<1>12. UndefinedIsForgotten' /\ ChangesWhileRunning' /\ TimesKept'
  BY <1>2, <1>7, <1>11 DEF PushesInv, UndefinedIsForgotten, Undefined, ChangesWhileRunning, TimesKept
<1>13. TargetsKnown'
  <2>1. ~Monitored
    BY <1>2 DEF Monitored
  <2>2. \A p \in Pushers : pc'[p] = pc[p]
    BY <1>4, ActorsApart
  <2>3. fallsBack \subseteq Pushers /\ stopped \subseteq Pushers
    BY DEF PushesInv, TypeOK
  <2> QED
    BY <1>2, <2>1, <2>2, <2>3 DEF PushesInv, TargetsKnown
<1> QED
  BY <1>8, <1>9, <1>10, <1>12, <1>13 DEF PushesInv

\* Every step keeps the invariant: that of a push, of the heartbeat, of the administration or of a reload.
LEMMA PushesInvKept ==
    ASSUME PushesInv, [Next]_vars
    PROVE  PushesInv'
<1>1. CASE UNCHANGED vars
  <2>1. UNCHANGED <<inConfig, managed, cycle, change, lastPushes, age, used, beat, pc, result, fallsBack, stopped, holder,
                    maintenance, silence, orphaned, converted, lost, stray>>
    BY <1>1 DEF vars, definition, memory, processing, observed
  <2> QED
    BY <2>1 DEF PushesInv, TypeOK, ResultsAre, UsedIsConverted, Pending, UndefinedIsForgotten, Undefined, TargetsKnown,
       Monitored, ChangesWhileRunning, TimesKept
<1>2. ASSUME NEW who \in Actors, Insert(who) \/ InsertFails(who) \/ Finish(who) PROVE PushesInv'
  BY <1>2, InsertKeeps, InsertFailsKeeps, FinishKeeps
<1>3. ASSUME NEW p \in Pushers, (\E kind \in Kinds : Push(p, kind)) \/ Reject(p) PROVE PushesInv'
  BY <1>3, RequestKeeps
<1>4. ASSUME NEW p \in Pushers, Process(p) PROVE PushesInv'
  BY <1>4, ActorsApart, RetryKeeps DEF Process
<1>5. ASSUME NEW who \in Actors, RecordMiss(who) PROVE PushesInv'
  BY <1>5, RetryKeeps DEF RecordMiss
<1> QED
  BY <1>1, <1>2, <1>3, <1>4, <1>5, HeartbeatKeeps, TimesOutKeeps, TimeKeeps, AdministrationKeeps, CycleKeeps DEF Next

\* The invariant holds from the start, with the keys that the configuration and the administration define.
LEMMA PushesInvHolds == Spec => []PushesInv
<1>1. Init => PushesInv
  <2> SUFFICES ASSUME Init PROVE PushesInv
    OBVIOUS
  <2>1. TypeOK
    <3>1. NoResult \in [kind : Kinds, failed : BOOLEAN, maintained : BOOLEAN]
      BY DEF NoResult, Kinds
    <3>2. beat.at \in {"off", "starting"} /\ beat.last = None
      BY DEF Init, NewBeat, NoBeat
    <3>3. beat \in [at : {"off", "starting", "waiting", "looking", "recording"}, last : Times \cup {None},
                    elapsed : 0..(Interval - 1), tick : BOOLEAN, cancelled : BOOLEAN]
      <4>1. 0 \in 0..(Interval - 1)
        BY PushesAssumption
      <4>2. NoBeat \in [at : {"off", "starting", "waiting", "looking", "recording"}, last : Times \cup {None},
                        elapsed : 0..(Interval - 1), tick : BOOLEAN, cancelled : BOOLEAN]
        BY <4>1 DEF NoBeat
      <4>3. NewBeat \in [at : {"off", "starting", "waiting", "looking", "recording"}, last : Times \cup {None},
                         elapsed : 0..(Interval - 1), tick : BOOLEAN, cancelled : BOOLEAN]
        BY <4>2 DEF NewBeat
      <4> QED
        BY <4>2, <4>3 DEF Init
    <3>4. age \in [Times -> 0..Interval] /\ 0 \in 0..Retries /\ 0 \in 0..(Retries + 1) /\ 0 \in 0..Interval
      BY PushesAssumption DEF Init
    <3>5. /\ pc \in [Actors -> {"idle", "locking", "inserting", "finishing"}]
          /\ result \in [Actors -> [kind : Kinds, failed : BOOLEAN, maintained : BOOLEAN]]
          /\ \A who \in Actors : pc[who] = "idle"
      BY <3>1 DEF Init
    <3>6. /\ inConfig \in BOOLEAN /\ managed \in BOOLEAN /\ maintenance = FALSE /\ cycle = "running" /\ change = "none"
          /\ lastPushes = None /\ used = 0 /\ fallsBack = {} /\ stopped = {} /\ holder = None /\ silence = 0
          /\ orphaned = FALSE /\ converted = 0 /\ lost = FALSE /\ stray = FALSE
      BY DEF Init
    <3>7. /\ beat.at \in {"waiting", "looking", "recording"} <=> beat.last # None
          /\ pc["heartbeat"] # "idle" <=> beat.at = "recording"
          /\ \A who \in Actors : pc[who] \in {"inserting", "finishing"} <=> holder = who
      BY <3>2, <3>5, <3>6, ActorsApart
    <3> QED
      BY <3>3, <3>4, <3>5, <3>6, <3>7 DEF TypeOK
  <2>2. ResultsAre /\ UsedIsConverted /\ UndefinedIsForgotten /\ TargetsKnown /\ ChangesWhileRunning /\ TimesKept
    <3>1. /\ \A who \in Actors : pc[who] = "idle" /\ result[who] = NoResult
          /\ fallsBack = {} /\ stopped = {} /\ \A p \in Pushers : p \in Actors
      BY ActorsApart DEF Init
    <3>2. UndefinedIsForgotten /\ TargetsKnown
      BY <3>1 DEF Init, UndefinedIsForgotten, Undefined, TargetsKnown, NoBeat
    <3> QED
      BY PushesAssumption, <3>1, <3>2 DEF Init, ResultsAre, UsedIsConverted, ChangesWhileRunning, TimesKept, NoResult, NewBeat, NoBeat
  <2> QED
    BY <2>1, <2>2 DEF PushesInv
<1> QED
  BY <1>1, PushesInvKept, PTL DEF Spec

(* Failures are hidden as pending results as often as the retries say, and then reach the alerts, unless the storage lost
   one of the results: applyRetries and processExternalEndpointResult of external.go. *)
THEOREM RetriesAlwaysHonoured == Spec => []RetriesHonoured
<1>1. PushesInv => RetriesHonoured
  <2> SUFFICES ASSUME PushesInv PROVE RetriesHonoured
    OBVIOUS
  <2>1. used \in 0..Retries /\ converted \in 0..(Retries + 1) /\ lost \in BOOLEAN /\ Retries \in Nat
    BY PushesAssumption DEF PushesInv, TypeOK
  <2>2. RetriesBounded
    BY DEF PushesInv, UsedIsConverted, RetriesBounded
  <2>3. AlertsAfterRetries
    <3> SUFFICES ASSUME NEW who \in Actors, Alerts(who), result[who].kind = "down" PROVE converted = Retries \/ lost
      BY DEF AlertsAfterRetries
    <3>1. used = Retries
      BY DEF PushesInv, UsedIsConverted, Alerts
    <3>2. \A twin \in Actors : pc[twin] # "inserting"
      BY DEF PushesInv, TypeOK, Alerts
    <3> QED
      BY <3>1, <3>2 DEF PushesInv, UsedIsConverted
  <2> QED
    BY <2>2, <2>3 DEF RetriesHonoured
<1> QED
  BY <1>1, PushesInvHolds, PTL

\* A heartbeat that looks at the time of the last push ends with the failure or without it.
LEMMA LooksOnce ==
    ASSUME PushesInv, Next, beat.at = "looking", beat'.at # "looking"
    PROVE  Miss \/ Skip
<1>1. beat.last # None /\ pc["heartbeat"] = "idle" /\ (inConfig \/ managed) /\ cycle # "loaded"
  BY DEF PushesInv, TypeOK, UndefinedIsForgotten, Undefined, ChangesWhileRunning
<1>2. beat \in [at : {"off", "starting", "waiting", "looking", "recording"}, last : Times \cup {None},
                elapsed : 0..(Interval - 1), tick : BOOLEAN, cancelled : BOOLEAN]
  BY DEF PushesInv, TypeOK
<1>3. ~(Elapse \/ ToggleMaintenance)
  <2>1. Ticked(beat).at = "looking"
    BY <1>2 DEF Ticked
  <2> QED
    BY <2>1 DEF Elapse, ToggleMaintenance
<1>4. ASSUME NEW who \in Actors, Insert(who) \/ InsertFails(who) \/ Finish(who) PROVE FALSE
  BY <1>1, <1>4 DEF Insert, InsertFails, Finish, Released
<1>5. ASSUME NEW p \in Pushers, (\E kind \in Kinds : Push(p, kind)) \/ Process(p) \/ Reject(p) PROVE FALSE
  BY <1>5 DEF Push, Process, Retry, Reject
<1>6. ASSUME NEW who \in Actors, RecordMiss(who) PROVE FALSE
  BY <1>6 DEF RecordMiss, Retry
<1>7. ~Administration
  <2>1. Cancelled(beat).at = "looking"
    BY <1>2 DEF Cancelled
  <2> QED
    BY <1>1, <2>1 DEF Administration, Create, BeginEdit, EndEdit, BeginDelete, EndDelete, DeleteInConflict, Stops
<1>8. ~(BeginReload \/ (\E config \in BOOLEAN : Load(config)) \/ EndReload)
  <2>1. Cancelled(beat).at = "looking"
    BY <1>2 DEF Cancelled
  <2> QED
    BY <1>1, <2>1 DEF BeginReload, Load, EndReload, Stops
<1>9. ~(BeginHeartbeat \/ NoConnectivity \/ Tick \/ EndHeartbeat \/ TimesOut)
  BY DEF BeginHeartbeat, NoConnectivity, Tick, EndHeartbeat, TimesOut
<1> QED
  BY <1>3, <1>4, <1>5, <1>6, <1>7, <1>8, <1>9 DEF Next, Heartbeat

(* The heartbeat finds a push missing only when none was accepted for a whole interval, unless the key was forgotten under
   it, and a check that has a connection finds nothing missing only when one was: monitorExternalEndpointHeartbeat and its
   pointer to the time of the push. *)
THEOREM HeartbeatIsRight == Spec => MissesAreReal /\ SilenceIsMissed
<1>1. ASSUME PushesInv, [Next]_vars, beat.at = "looking", beat'.at \in {"waiting", "recording"}
      PROVE  IF beat'.at = "recording" THEN silence = Interval \/ orphaned ELSE silence < Interval \/ beat.cancelled
  <2>1. Miss \/ Skip
    BY <1>1, LooksOnce DEF vars
  <2>2. /\ age \in [Times -> 0..Interval] /\ silence \in 0..Interval /\ Interval \in Nat
        /\ beat.last \in Times /\ silence <= age[beat.last]
        /\ beat.last = lastPushes \/ orphaned
        /\ lastPushes # None => age[lastPushes] = silence
        /\ None \notin Times
    BY <1>1, PushesAssumption, ActorsApart DEF PushesInv, TypeOK, TimesKept
  <2>3. CASE Miss
    <3>1. age[beat.last] = Interval /\ beat'.at = "recording"
      BY <2>3 DEF Miss, PushesInv, TypeOK
    <3> QED
      BY <2>2, <3>1
  <2>4. CASE Skip
    <3>1. (age[beat.last] < Interval \/ beat.cancelled) /\ beat'.at = "waiting"
      BY <1>1, <2>4 DEF Skip, PushesInv, TypeOK
    <3> QED
      BY <2>2, <3>1
  <2> QED
    BY <2>1, <2>3, <2>4
<1>2. PushesInv /\ [Next]_vars => [beat.at = "looking" /\ beat'.at = "recording" => silence = Interval \/ orphaned]_vars
  BY <1>1
<1>3. PushesInv /\ [Next]_vars => [beat.at = "looking" /\ beat'.at = "waiting" => silence < Interval \/ beat.cancelled]_vars
  BY <1>1
<1> QED
  BY <1>2, <1>3, PushesInvHolds, PTL DEF Spec, MissesAreReal, SilenceIsMissed

(* Nothing is kept for a key that is not defined any more, whoever was waiting for its lock, except by a heartbeat or a
   request that nobody waited for to the end: Delete and ForgetExternalEndpoint. *)
THEOREM NothingStaysBehind == Spec => [](TypeOK /\ NothingLeftBehind)
<1>1. PushesInv => TypeOK /\ NothingLeftBehind
  BY DEF PushesInv, UndefinedIsForgotten, NothingLeftBehind
<1> QED
  BY <1>1, PushesInvHolds, PTL

-----------------------------------------------------------------------------
(* The tokens *)

\* The key whose deletion, or insertion, is committed and not yet published
DeletedIs(n) == keyChange.stage = "publishing" /\ keyChange.token = Nobody /\ keyChange.what = n
StoredIs(n) == keyChange.stage = "publishing" /\ keyChange.token # Nobody /\ keyChange.what = n

\* Every row, and every key published, has a token of its own.  What is published of the keys is stored.
RowsAreUnique ==
    /\ Unique(keyRows) /\ Unique(keys)
    /\ \A n \in Names : keys[n] # Nobody => keyRows[n] = keys[n] \/ DeletedIs(n)

\* Unless the storage failed to list them, what is stored is published, but for the change in progress.
RowsArePublished ==
    ~unlisted =>
        /\ \A n \in Names : keyRows[n] # Nobody => keys[n] = keyRows[n] \/ StoredIs(n)
        /\ \A k \in Keys : rows[k] # Nobody => states[k] # Nobody
StatesAreRows == \A k \in Keys : states[k] # Nobody => states[k].token = rows[k]

\* The hashes are those of the keys published, and maybe of keys of the file.
Named(tokens, t) == \E n \in Names : tokens[n] = t
HashesAreKeys ==
    \A t \in Tokens :
        /\ Named(keys, t) => hashes[t] # Nobody
        /\ hashes[t] # Nobody => Named(keys, t) \/ Named(file.keys, t)

\* What a change of a key relies on
KeyChangeKnown ==
    /\ keyChange.stage = "none" => keyChange = NoTokenChange
    /\ keyChange.stage # "none" => keyMutex /\ keyChange.what \in Names
    /\ statesMutex = "key" => keyChange.stage # "none"
    /\ keyChange.stage \in {"creating", "restoring"} => keyChange.token # Nobody /\ keys[keyChange.what] = Nobody
    /\ keyChange.stage = "creating" => keyChange.token \in Generated /\ \A k \in Keys : rows[k] # keyChange.token
    /\ keyChange.stage = "restoring" =>
          statesMutex = "key" /\ (unlisted \/ \A k \in Keys : rows[k] # keyChange.token)
    /\ keyChange.stage = "deleting" => keys[keyChange.what] # Nobody /\ keyChange.token = Nobody
    /\ keyChange.stage = "publishing" =>
          IF keyChange.token = Nobody
          THEN keys[keyChange.what] # Nobody /\ keyRows[keyChange.what] = Nobody
          ELSE /\ keys[keyChange.what] = Nobody /\ keyRows[keyChange.what] = keyChange.token
               /\ statesMutex = "key" \/ keyChange.token \in Generated

\* What a change of an endpoint relies on
EndpointChangeKnown ==
    /\ endpointChange.stage = "none" => endpointChange = NoTokenChange
    /\ endpointChange.stage # "none" => statesMutex = "endpoint" /\ endpointChange.what \in Keys
    /\ statesMutex = "endpoint" => endpointChange.stage # "none"
    /\ endpointChange.stage = "saving" =>
          LET k == endpointChange.what t == endpointChange.token IN
          /\ t \in Chosen /\ ~InFile(file, k)
          /\ \A l \in Keys \ {k} : (Visible(l) => states[l].token # t) /\ (rows[l] = t => hidden)
          /\ unlisted \/ ~Named(keyRows, t)

\* What is published of the file is that of the configuration in use, and hides the managed endpoints with its keys.
PublishedOfFile == resolver = Resolver(file) /\ \A k \in Keys : Visible(k) => ~InFile(file, k)

RowsSharedIfHidden == \A k, l \in Keys : k # l /\ rows[k] = rows[l] => rows[k] = Nobody \/ hidden

TokensInv ==
    /\ TokensTypeOK /\ RowsAreUnique /\ RowsArePublished /\ StatesAreRows /\ HashesAreKeys
    /\ KeyChangeKnown /\ EndpointChangeKnown /\ PublishedOfFile /\ RowsSharedIfHidden

-----------------------------------------------------------------------------
(* Tokens, files and owners *)

\* Nobody is none of those there are.
LEMMA NobodyApart ==
    /\ Nobody \notin Keys /\ Nobody \notin Names /\ Nobody \notin Tokens /\ Nobody \notin Chosen /\ Nobody \notin Generated
    /\ Nobody # "endpoint" /\ Nobody # "key" /\ Nobody \notin [token : Tokens, hidden : BOOLEAN]
    /\ Chosen \subseteq Tokens /\ Generated \subseteq Tokens /\ \A t \in Chosen : t \notin Generated
  BY TokensAssumption DEF Tokens

\* What a configuration holds
LEMMA FilesHold ==
    ASSUME NEW f \in Files
    PROVE  /\ f.external \in [Keys -> Chosen \cup {Nobody}] /\ f.active \in [Keys -> Chosen \cup {Nobody}]
           /\ f.keys \in [Names -> Chosen \cup {Nobody}]
           /\ \A k \in Keys : /\ TokenInFile(f, k) \in Chosen \cup {Nobody}
                              /\ InFile(f, k) <=> TokenInFile(f, k) # Nobody
<1>1. f \in File
  BY TokensAssumption
<1>2. /\ f.external \in [Keys -> Chosen \cup {Nobody}] /\ f.active \in [Keys -> Chosen \cup {Nobody}]
      /\ f.keys \in [Names -> Chosen \cup {Nobody}]
  BY <1>1 DEF File
<1> QED
  BY <1>2 DEF InFile, TokenInFile

\* The owner of a token is one of the candidates, and has it.
LEMMA OwnerHasIt ==
    ASSUME NEW t, NEW candidates, NEW tokens
    PROVE  Owner(t, candidates, tokens) # Nobody =>
               Owner(t, candidates, tokens) \in candidates /\ tokens[Owner(t, candidates, tokens)] = t
<1> DEFINE owners == {k \in candidates : tokens[k] = t}
<1>1. Cardinality(owners) = 1 => owners # {}
  BY FS_EmptySet
<1>2. Cardinality(owners) = 1 => (CHOOSE k \in owners : TRUE) \in owners
  BY <1>1
<1> QED
  BY <1>2 DEF Owner

\* A candidate that is alone with its token is the owner.
LEMMA AloneOwnsIt ==
    ASSUME NEW candidates, NEW tokens, NEW k \in candidates, \A l \in candidates \ {k} : tokens[l] # tokens[k]
    PROVE  Owner(tokens[k], candidates, tokens) = k
<1> DEFINE owners == {l \in candidates : tokens[l] = tokens[k]}
<1>1. owners = {k}
  OBVIOUS
<1>2. Cardinality(owners) = 1
  BY <1>1, FS_Singleton
<1>3. (CHOOSE l \in owners : TRUE) = k
  BY <1>1
<1> QED
  BY <1>2, <1>3 DEF Owner

\* The name of a token is that of a key that has it.
LEMMA NameHasIt ==
    ASSUME NEW tokens, NEW t
    PROVE  /\ NameOf(tokens, t) \in Names \cup {Nobody}
           /\ NameOf(tokens, t) # Nobody <=> Named(tokens, t)
           /\ NameOf(tokens, t) # Nobody => tokens[NameOf(tokens, t)] = t
  BY NobodyApart DEF NameOf, Named

\* The types of what is published and stored
LEMMA TokenTypes ==
    ASSUME TokensTypeOK
    PROVE  /\ file \in Files /\ keyRows \in [Names -> Tokens \cup {Nobody}] /\ keys \in [Names -> Tokens \cup {Nobody}]
           /\ rows \in [Keys -> Tokens \cup {Nobody}] /\ hashes \in [Tokens -> Names \cup {Nobody}]
           /\ states \in [Keys -> {Nobody} \cup [token : Tokens, hidden : BOOLEAN]]
           /\ \A k \in Keys : states[k] # Nobody => states[k].token \in Tokens /\ states[k].hidden \in BOOLEAN
           /\ keyChange.what \in Names \cup {Nobody} /\ keyChange.token \in Tokens \cup {Nobody}
           /\ endpointChange.what \in Keys \cup {Nobody} /\ endpointChange.token \in Tokens \cup {Nobody}
           /\ unlisted \in BOOLEAN /\ hidden \in BOOLEAN /\ keyMutex \in BOOLEAN
           /\ statesMutex \in {Nobody, "endpoint", "key"}
  BY DEF TokensTypeOK

-----------------------------------------------------------------------------
(* The loads, at the start and at a reload or after a crash *)

\* What the resolver is of a configuration
LEMMA ResolverType ==
    ASSUME NEW f \in Files
    PROVE  Resolver(f) \in [byToken : [Tokens -> Keys \cup {Nobody}], byKey : [Keys -> Chosen \cup {Nobody}], keys : SUBSET Chosen]
<1> DEFINE tokens == [k \in Keys |-> TokenInFile(f, k)]
           byToken == [t \in Tokens |-> Owner(t, {k \in Keys : InFile(f, k)}, tokens)]
           names == {f.keys[n] : n \in Names} \ {Nobody}
<1>1. \A t \in Tokens : Owner(t, {k \in Keys : InFile(f, k)}, tokens) \in Keys \cup {Nobody}
  BY OwnerHasIt
<1>2. byToken \in [Tokens -> Keys \cup {Nobody}]
  BY <1>1
<1>3. tokens \in [Keys -> Chosen \cup {Nobody}]
  BY FilesHold
<1>4. names \subseteq Chosen
  BY FilesHold
<1>5. Resolver(f) = [byToken |-> byToken, byKey |-> tokens, keys |-> names]
  BY DEF Resolver
<1> HIDE DEF byToken, tokens, names
<1> QED
  BY <1>2, <1>3, <1>4, <1>5

\* What is loaded is the configuration and the rows.
LEMMA LoadKeeps ==
    ASSUME TokensInv, NEW f \in Files, NEW keysListed \in BOOLEAN, NEW rowsListed \in BOOLEAN, NEW invalid \in SUBSET Keys,
           LoadTokens(f, keysListed, rowsListed, invalid),
           keyChange' = NoTokenChange, endpointChange' = NoTokenChange, statesMutex' = Nobody,
           keyMutex' \in BOOLEAN, UNCHANGED hidden
    PROVE  TokensInv'
<1>1. /\ keyRows \in [Names -> Tokens \cup {Nobody}] /\ rows \in [Keys -> Tokens \cup {Nobody}] /\ hidden \in BOOLEAN
      /\ Unique(keyRows)
  BY TokenTypes DEF TokensInv, RowsAreUnique
<1>2. /\ file' = f /\ keyRows' = keyRows /\ rows' = rows /\ resolver' = Resolver(f)
      /\ keys' = (IF keysListed THEN keyRows ELSE NoKeyRows) /\ hashes' = Hashes(f, keys')
      /\ unlisted' = ~(keysListed /\ rowsListed)
      /\ \A k \in Keys : states'[k] = IF rowsListed /\ rows[k] # Nobody
                                      THEN [token |-> rows[k], hidden |-> InFile(f, k) \/ k \in invalid] ELSE Nobody
  <2>1. CASE rowsListed
    BY <2>1 DEF LoadTokens, storedRows
  <2>2. CASE ~rowsListed
    BY <2>2 DEF LoadTokens, storedRows, NoStates
  <2> QED
    BY <2>1, <2>2
<1>3. keys' \in [Names -> Tokens \cup {Nobody}] /\ \A n \in Names : keys'[n] \in {keyRows[n], Nobody}
  BY <1>1, <1>2 DEF NoKeyRows
<1>4. hashes' \in [Tokens -> Names \cup {Nobody}]
  BY <1>2, NameHasIt DEF Hashes
<1>5. states' \in [Keys -> {Nobody} \cup [token : Tokens, hidden : BOOLEAN]]
  <2>1. \A k \in Keys : rowsListed /\ rows[k] # Nobody =>
            [token |-> rows[k], hidden |-> InFile(f, k) \/ k \in invalid] \in [token : Tokens, hidden : BOOLEAN]
    BY <1>1 DEF InFile
  <2>2. \A k \in Keys : states'[k] \in {Nobody} \cup [token : Tokens, hidden : BOOLEAN]
    BY <1>2, <2>1
  <2>3. DOMAIN states' = Keys /\ states' = [k \in Keys |-> states'[k]]
    BY DEF LoadTokens, NoStates
  <2> QED
    BY <2>2, <2>3
<1>6. TokensTypeOK'
  <2>1. resolver' \in [byToken : [Tokens -> Keys \cup {Nobody}], byKey : [Keys -> Chosen \cup {Nobody}], keys : SUBSET Chosen]
    BY <1>2, ResolverType
  <2>2. NoTokenChange \in [stage : {"none", "creating", "restoring", "deleting", "publishing"}, what : Names \cup {Nobody},
                           token : Tokens \cup {Nobody}]
        /\ NoTokenChange \in [stage : {"none", "saving", "removing"}, what : Keys \cup {Nobody}, token : Tokens \cup {Nobody}]
    BY DEF NoTokenChange
  <2>3. unlisted' \in BOOLEAN
    BY <1>2
  <2> QED
    BY <1>1, <1>2, <1>3, <1>4, <1>5, <2>1, <2>2, <2>3 DEF TokensTypeOK
<1>7. NoTokenChange.stage = "none" /\ keyChange'.stage = "none" /\ endpointChange'.stage = "none"
  BY DEF NoTokenChange
<1>8. RowsAreUnique'
  <2>1. Unique(keys')
    BY <1>1, <1>2, <1>3 DEF Unique
  <2> QED
    BY <1>1, <1>2, <1>3, <2>1 DEF RowsAreUnique, Unique
<1>15. \A k \in Keys :
          /\ rowsListed /\ rows[k] # Nobody => states'[k] # Nobody
          /\ states'[k] # Nobody => states'[k].token = rows[k] /\ (InFile(f, k) => states'[k].hidden)
  <2> SUFFICES ASSUME NEW k \in Keys, rowsListed, rows[k] # Nobody
               PROVE  /\ states'[k] # Nobody
                      /\ states'[k].token = rows[k] /\ (InFile(f, k) => states'[k].hidden)
    BY <1>2
  <2> DEFINE twin == InFile(f, k) \/ k \in invalid
  <2>1. states'[k] = [token |-> rows[k], hidden |-> twin]
    BY <1>2
  <2>2. rows[k] \in Tokens /\ twin \in BOOLEAN
    BY <1>1
  <2>3. InFile(f, k) => twin
    OBVIOUS
  <2> HIDE DEF twin
  <2>4. states'[k] \in [token : Tokens, hidden : BOOLEAN]
    BY <2>1, <2>2
  <2>5. states'[k] # Nobody
    BY <2>4, NobodyApart
  <2>6. states'[k].token = rows[k] /\ states'[k].hidden = twin
    BY <2>1
  <2> QED
    BY <2>3, <2>5, <2>6
<1>9. RowsArePublished'
  <2>1. ASSUME ~unlisted'
        PROVE  (\A n \in Names : keys'[n] = keyRows'[n]) /\ \A k \in Keys : rows'[k] # Nobody => states'[k] # Nobody
    <3>1. keysListed /\ rowsListed
      BY <1>2, <2>1
    <3>2. \A k \in Keys : rows[k] # Nobody => states'[k] # Nobody
      BY <1>15, <3>1
    <3> QED
      BY <1>2, <3>1, <3>2
  <2> QED
    BY <2>1 DEF RowsArePublished
<1>10. StatesAreRows'
  BY <1>2, <1>15 DEF StatesAreRows
<1>11. HashesAreKeys'
  BY <1>2, NameHasIt DEF HashesAreKeys, Hashes, Named
<1>12. KeyChangeKnown' /\ EndpointChangeKnown'
  BY <1>7, NobodyApart DEF KeyChangeKnown, EndpointChangeKnown
<1>13. PublishedOfFile'
  BY <1>2, <1>15 DEF PublishedOfFile, Visible
<1>14. RowsSharedIfHidden'
  BY <1>2 DEF RowsSharedIfHidden, TokensInv
<1> QED
  BY <1>6, <1>8, <1>9, <1>10, <1>11, <1>12, <1>13, <1>14 DEF TokensInv

-----------------------------------------------------------------------------
(* The push keys: Create, Restore and Delete of pushkey *)

KeyChanges == [stage : {"none", "creating", "restoring", "deleting", "publishing"}, what : Names \cup {Nobody},
               token : Tokens \cup {Nobody}]

\* What a step of a key has to keep, when it leaves the endpoints alone
LEMMA KeyStepKeeps ==
    ASSUME TokensInv, KeyStep,
           keyRows' \in [Names -> Tokens \cup {Nobody}], keys' \in [Names -> Tokens \cup {Nobody}],
           hashes' \in [Tokens -> Names \cup {Nobody}], keyMutex' \in BOOLEAN, keyChange' \in KeyChanges,
           statesMutex' \in {Nobody, "endpoint", "key"}, statesMutex' = "endpoint" <=> statesMutex = "endpoint",
           RowsAreUnique', HashesAreKeys', KeyChangeKnown',
           ~unlisted => \A n \in Names : keyRows'[n] # Nobody => keys'[n] = keyRows'[n] \/ StoredIs(n)',
           endpointChange.stage = "saving" => unlisted \/ ~Named(keyRows', endpointChange.token)
    PROVE  TokensInv'
<1>1. UNCHANGED <<file, rows, states, resolver, endpointChange, unlisted, hidden>>
  BY DEF KeyStep
<1>2. TokensTypeOK'
  BY <1>1 DEF TokensInv, TokensTypeOK, KeyChanges
<1>3. RowsArePublished'
  BY <1>1 DEF TokensInv, RowsArePublished
<1>4. StatesAreRows' /\ RowsSharedIfHidden'
  BY <1>1 DEF TokensInv, StatesAreRows, RowsSharedIfHidden
<1>5. PublishedOfFile'
  BY <1>1 DEF TokensInv, PublishedOfFile, Visible
<1>6. EndpointChangeKnown'
  <2>1. statesMutex' = "endpoint" <=> statesMutex = "endpoint"
    OBVIOUS
  <2> QED
    BY <1>1, <2>1 DEF TokensInv, EndpointChangeKnown, Visible, Named
<1> QED
  BY <1>2, <1>3, <1>4, <1>5, <1>6 DEF TokensInv

\* The steps that begin a change of a key rely on what is published, which is what is stored.
LEMMA BeginKeyKeeps ==
    ASSUME TokensInv, NEW n \in Names,
           \/ \E t \in Tokens : BeginCreateKey(n, t) \/ BeginRestoreKey(n, t)
           \/ BeginDeleteKey(n)
    PROVE  TokensInv'
<1>1. /\ keyRows \in [Names -> Tokens \cup {Nobody}] /\ keys \in [Names -> Tokens \cup {Nobody}]
      /\ hashes \in [Tokens -> Names \cup {Nobody}] /\ statesMutex \in {Nobody, "endpoint", "key"}
      /\ \A k \in Keys : states[k] # Nobody => states[k].token = rows[k]
      /\ RowsAreUnique /\ HashesAreKeys /\ KeyChangeKnown /\ RowsArePublished /\ EndpointChangeKnown
  BY TokenTypes DEF TokensInv, StatesAreRows
<1>2. ~keyMutex /\ keyMutex' = TRUE /\ UNCHANGED <<keyRows, keys, hashes>> /\ KeyStep
  BY DEF BeginCreateKey, BeginRestoreKey, BeginDeleteKey
<1>3. keyChange.stage = "none" /\ statesMutex # "key"
  BY <1>1, <1>2 DEF KeyChangeKnown, TokensInv, TokensTypeOK
<1>4. UNCHANGED <<rows, states, unlisted, endpointChange>>
  BY <1>2 DEF KeyStep
<1>5. \A m \in Names : ~DeletedIs(m) /\ ~StoredIs(m)
  BY <1>3 DEF DeletedIs, StoredIs
<1>6. /\ Unique(keyRows') /\ Unique(keys') /\ \A m \in Names : keys'[m] # Nobody => keyRows'[m] = keys'[m]
      /\ ~unlisted => \A m \in Names : keyRows'[m] # Nobody => keys'[m] = keyRows'[m]
      /\ RowsAreUnique'
  BY <1>1, <1>2, <1>5 DEF RowsAreUnique, RowsArePublished, Unique
<1>7. HashesAreKeys'
  BY <1>1, <1>2 DEF HashesAreKeys, Named, KeyStep
<1>8. endpointChange.stage = "saving" => unlisted \/ ~Named(keyRows', endpointChange.token)
  BY <1>1, <1>2 DEF EndpointChangeKnown, Named
<1>9. ASSUME keyChange' \in KeyChanges, KeyChangeKnown', statesMutex' \in {statesMutex, "key"},
             statesMutex' # "endpoint" \/ statesMutex = "endpoint", statesMutex # "endpoint" \/ statesMutex' = "endpoint"
      PROVE  TokensInv'
  BY <1>1, <1>2, <1>6, <1>7, <1>8, <1>9, KeyStepKeeps
<1>10. ASSUME NEW t \in Tokens, BeginCreateKey(n, t) PROVE TokensInv'
  <2>1. keyChange' = [stage |-> "creating", what |-> n, token |-> t] /\ UNCHANGED statesMutex
        /\ keys[n] = Nobody /\ t \in Generated /\ \A k \in Keys : rows[k] # t
    BY <1>10 DEF BeginCreateKey, NameInUse
  <2>2. KeyChangeKnown'
    <3>1. /\ keyChange'.stage = "creating" /\ keyChange'.what = n /\ keyChange'.token = t
          /\ rows' = rows /\ keys' = keys /\ keyMutex' = TRUE
      BY <1>2, <1>4, <2>1
    <3> QED
      BY <1>3, <2>1, <3>1, NobodyApart DEF KeyChangeKnown
  <2> QED
    BY <1>9, <2>1, <2>2 DEF KeyChanges
<1>11. ASSUME NEW t \in Tokens, BeginRestoreKey(n, t) PROVE TokensInv'
  <2>1. keyChange' = [stage |-> "restoring", what |-> n, token |-> t] /\ statesMutex = Nobody /\ statesMutex' = "key"
        /\ keys[n] = Nobody /\ t \notin EndpointPushTokens
    BY <1>11 DEF BeginRestoreKey, Restorable, NameInUse
  <2>2. unlisted \/ \A k \in Keys : rows[k] # t
    BY <1>1, <2>1, NobodyApart DEF EndpointPushTokens, RowsArePublished
  <2>3. KeyChangeKnown'
    BY <1>2, <1>4, <2>1, <2>2, NobodyApart DEF KeyChangeKnown
  <2> QED
    BY <1>9, <2>1, <2>3, NobodyApart DEF KeyChanges
<1>12. CASE BeginDeleteKey(n)
  <2>1. keyChange' = [stage |-> "deleting", what |-> n, token |-> Nobody] /\ UNCHANGED statesMutex /\ keys[n] # Nobody
    BY <1>12 DEF BeginDeleteKey
  <2>2. KeyChangeKnown'
    BY <1>2, <1>3, <2>1 DEF KeyChangeKnown
  <2> QED
    BY <1>9, <2>1, <2>2 DEF KeyChanges
<1> QED
  BY <1>10, <1>11, <1>12

\* What the changes of a key in progress know
LEMMA KeyFacts ==
    ASSUME TokensInv
    PROVE  /\ keyRows \in [Names -> Tokens \cup {Nobody}] /\ keys \in [Names -> Tokens \cup {Nobody}]
           /\ hashes \in [Tokens -> Names \cup {Nobody}] /\ statesMutex \in {Nobody, "endpoint", "key"}
           /\ rows \in [Keys -> Tokens \cup {Nobody}]
           /\ keyChange \in KeyChanges /\ keyMutex \in BOOLEAN
           /\ RowsAreUnique /\ HashesAreKeys /\ KeyChangeKnown /\ RowsArePublished /\ EndpointChangeKnown
           /\ Nobody # "endpoint" /\ Nobody # "key"
  BY NobodyApart DEF TokensInv, TokensTypeOK, KeyChanges

\* The row of a new key: its token is that of no other key, and an endpoint cannot get it before it is published.
LEMMA InsertKeyKeeps ==
    ASSUME TokensInv, InsertKey
    PROVE  TokensInv'
<1> DEFINE n == keyChange.what
           t == keyChange.token
<1>1. /\ keyChange.stage \in {"creating", "restoring"} /\ keyRows[n] = Nobody /\ \A m \in Names : keyRows[m] # t
      /\ keyRows' = [keyRows EXCEPT ![n] = t] /\ keyChange' = [keyChange EXCEPT !.stage = "publishing"]
      /\ UNCHANGED <<keys, hashes, keyMutex, statesMutex>> /\ KeyStep
  BY DEF InsertKey
<1>2. /\ n \in Names /\ t \in Tokens /\ t # Nobody /\ keys[n] = Nobody
      /\ keyChange.stage = "creating" => t \in Generated
      /\ keyChange.stage = "restoring" => statesMutex = "key"
      /\ keyMutex
  BY <1>1, KeyFacts, NobodyApart DEF KeyChangeKnown, KeyChanges
<1>3. /\ keyChange'.stage = "publishing" /\ keyChange'.what = n /\ keyChange'.token = t /\ keyChange' \in KeyChanges
  BY <1>1, KeyFacts DEF KeyChanges
<1> HIDE DEF n, t
<1>4. \A m \in Names : ~DeletedIs(m) /\ ~StoredIs(m) /\ ~DeletedIs(m)' /\ (StoredIs(m)' <=> m = n)
  BY <1>1, <1>2, <1>3 DEF DeletedIs, StoredIs
<1>5. keyRows' \in [Names -> Tokens \cup {Nobody}] /\ keyRows'[n] = t /\ \A m \in Names \ {n} : keyRows'[m] = keyRows[m]
  BY <1>1, <1>2, KeyFacts
<1>6. Unique(keyRows')
  BY <1>1, <1>2, <1>5, KeyFacts DEF RowsAreUnique, Unique
<1>7. RowsAreUnique'
  BY <1>1, <1>2, <1>4, <1>5, <1>6, KeyFacts DEF RowsAreUnique
<1>8. HashesAreKeys'
  BY <1>1, KeyFacts DEF HashesAreKeys, Named, KeyStep
<1>9. KeyChangeKnown'
  BY <1>1, <1>2, <1>3, <1>5 DEF KeyChangeKnown
<1>10. ~unlisted => \A m \in Names : keyRows'[m] # Nobody => keys'[m] = keyRows'[m] \/ StoredIs(m)'
  BY <1>1, <1>4, <1>5, KeyFacts DEF RowsArePublished
<1>11. endpointChange.stage = "saving" => unlisted \/ ~Named(keyRows', endpointChange.token)
  <2> SUFFICES ASSUME endpointChange.stage = "saving", ~unlisted PROVE ~Named(keyRows', endpointChange.token)
    OBVIOUS
  <2>1. statesMutex = "endpoint" /\ endpointChange.token \in Chosen /\ ~Named(keyRows, endpointChange.token)
    BY KeyFacts DEF EndpointChangeKnown
  <2>2. t \in Generated
    BY <1>1, <1>2, <2>1
  <2> QED
    BY <1>2, <1>5, <2>1, <2>2, NobodyApart DEF Named
<1> QED
  BY <1>1, <1>3, <1>5, <1>7, <1>8, <1>9, <1>10, <1>11, KeyFacts, KeyStepKeeps

\* A change that fails leaves the rows and what is published as they are.
LEMMA KeyChangeFailsKeeps ==
    ASSUME TokensInv, KeyChangeFails
    PROVE  TokensInv'
<1>1. /\ keyChange.stage \in {"creating", "restoring", "deleting"} /\ keyMutex' = FALSE /\ keyChange' = NoTokenChange
      /\ statesMutex' = (IF statesMutex = "key" THEN Nobody ELSE statesMutex)
      /\ UNCHANGED <<keyRows, keys, hashes>> /\ KeyStep
  BY DEF KeyChangeFails, KeyReleased
<1>2. NoTokenChange \in KeyChanges /\ NoTokenChange.stage = "none"
  BY DEF NoTokenChange, KeyChanges
<1>3. \A m \in Names : ~DeletedIs(m) /\ ~StoredIs(m)
  BY <1>1 DEF DeletedIs, StoredIs
<1>4. RowsAreUnique'
  BY <1>1, <1>3, KeyFacts DEF RowsAreUnique, Unique
<1>5. HashesAreKeys'
  BY <1>1, KeyFacts DEF HashesAreKeys, Named, KeyStep
<1>6. KeyChangeKnown'
  BY <1>1, <1>2, KeyFacts DEF KeyChangeKnown
<1>7. ~unlisted => \A m \in Names : keyRows'[m] # Nobody => keys'[m] = keyRows'[m] \/ StoredIs(m)'
  BY <1>1, <1>3, KeyFacts DEF RowsArePublished
<1>8. endpointChange.stage = "saving" => unlisted \/ ~Named(keyRows', endpointChange.token)
  BY <1>1, KeyFacts DEF EndpointChangeKnown, Named
<1>9. statesMutex' \in {Nobody, "endpoint", "key"} /\ (statesMutex' = "endpoint" <=> statesMutex = "endpoint")
  BY <1>1, KeyFacts
<1> QED
  BY <1>1, <1>2, <1>4, <1>5, <1>6, <1>7, <1>8, <1>9, KeyFacts, KeyStepKeeps

\* The publication of a key that was stored
LEMMA PublishKeyKeeps ==
    ASSUME TokensInv, PublishKey
    PROVE  TokensInv'
<1> DEFINE n == keyChange.what
           t == keyChange.token
<1>1. /\ keyChange.stage = "publishing" /\ t # Nobody
      /\ keys' = [keys EXCEPT ![n] = t] /\ hashes' = [hashes EXCEPT ![t] = n]
      /\ keyMutex' = FALSE /\ keyChange' = NoTokenChange
      /\ statesMutex' = (IF statesMutex = "key" THEN Nobody ELSE statesMutex)
      /\ UNCHANGED keyRows /\ KeyStep
  BY DEF PublishKey, KeyReleased
<1>2. n \in Names /\ t \in Tokens /\ keys[n] = Nobody /\ keyRows[n] = t
  BY <1>1, KeyFacts DEF KeyChangeKnown, KeyChanges
<1>3. \A m \in Names : ~DeletedIs(m) /\ (StoredIs(m) => m = n)
  BY <1>1 DEF DeletedIs, StoredIs
<1> HIDE DEF n, t
<1>4. NoTokenChange \in KeyChanges /\ NoTokenChange.stage = "none"
  BY DEF NoTokenChange, KeyChanges
<1>5. keys' \in [Names -> Tokens \cup {Nobody}] /\ keys'[n] = t /\ \A m \in Names \ {n} : keys'[m] = keys[m]
  BY <1>1, <1>2, KeyFacts
<1>6. hashes' \in [Tokens -> Names \cup {Nobody}] /\ hashes'[t] = n /\ n # Nobody /\ \A u \in Tokens \ {t} : hashes'[u] = hashes[u]
  BY <1>1, <1>2, KeyFacts, NobodyApart
<1>7. \A m \in Names : keys'[m] # Nobody => keyRows[m] = keys'[m]
  BY <1>2, <1>3, <1>5, KeyFacts DEF RowsAreUnique
<1>8. Unique(keys')
  BY <1>5, <1>7, KeyFacts DEF RowsAreUnique, Unique
<1>9. RowsAreUnique'
  BY <1>1, <1>7, <1>8, KeyFacts DEF RowsAreUnique, Unique
<1>10. HashesAreKeys'
  BY <1>1, <1>2, <1>5, <1>6, KeyFacts, NobodyApart DEF HashesAreKeys, Named, KeyStep
<1>11. KeyChangeKnown'
  BY <1>1, <1>4, KeyFacts DEF KeyChangeKnown
<1>12. ~unlisted => \A m \in Names : keyRows'[m] # Nobody => keys'[m] = keyRows'[m] \/ StoredIs(m)'
  BY <1>1, <1>2, <1>3, <1>5, KeyFacts DEF RowsArePublished
<1>13. endpointChange.stage = "saving" => unlisted \/ ~Named(keyRows', endpointChange.token)
  BY <1>1, KeyFacts DEF EndpointChangeKnown, Named
<1>14. statesMutex' \in {Nobody, "endpoint", "key"} /\ (statesMutex' = "endpoint" <=> statesMutex = "endpoint")
  BY <1>1, KeyFacts
<1> QED
  BY <1>1, <1>4, <1>5, <1>6, <1>9, <1>10, <1>11, <1>12, <1>13, <1>14, KeyFacts, KeyStepKeeps

\* The row of a key is deleted.
LEMMA DeleteKeyRowKeeps ==
    ASSUME TokensInv, DeleteKeyRow
    PROVE  TokensInv'
<1> DEFINE n == keyChange.what
<1>1. /\ keyChange.stage = "deleting" /\ keyRows[n] # Nobody
      /\ keyRows' = [keyRows EXCEPT ![n] = Nobody] /\ keyChange' = [keyChange EXCEPT !.stage = "publishing"]
      /\ UNCHANGED <<keys, hashes, keyMutex, statesMutex>> /\ KeyStep
  BY DEF DeleteKeyRow
<1>2. n \in Names /\ keys[n] # Nobody /\ keyChange.token = Nobody /\ keyMutex
  BY <1>1, KeyFacts DEF KeyChangeKnown
<1>3. keyChange'.stage = "publishing" /\ keyChange'.what = n /\ keyChange'.token = Nobody /\ keyChange' \in KeyChanges
  BY <1>1, <1>2, KeyFacts DEF KeyChanges
<1> HIDE DEF n
<1>4. \A m \in Names : ~DeletedIs(m) /\ ~StoredIs(m) /\ ~StoredIs(m)' /\ (DeletedIs(m)' <=> m = n)
  BY <1>1, <1>2, <1>3 DEF DeletedIs, StoredIs
<1>5. keyRows' \in [Names -> Tokens \cup {Nobody}] /\ keyRows'[n] = Nobody /\ \A m \in Names \ {n} : keyRows'[m] = keyRows[m]
  BY <1>1, <1>2, KeyFacts
<1>6. Unique(keyRows')
  BY <1>5, KeyFacts DEF RowsAreUnique, Unique
<1>7. RowsAreUnique'
  BY <1>1, <1>4, <1>5, <1>6, KeyFacts DEF RowsAreUnique
<1>8. HashesAreKeys'
  BY <1>1, KeyFacts DEF HashesAreKeys, Named, KeyStep
<1>9. KeyChangeKnown'
  BY <1>1, <1>2, <1>3, <1>5 DEF KeyChangeKnown
<1>10. ~unlisted => \A m \in Names : keyRows'[m] # Nobody => keys'[m] = keyRows'[m] \/ StoredIs(m)'
  BY <1>1, <1>4, <1>5, KeyFacts DEF RowsArePublished
<1>11. endpointChange.stage = "saving" => unlisted \/ ~Named(keyRows', endpointChange.token)
  <2> SUFFICES ASSUME endpointChange.stage = "saving", ~unlisted PROVE ~Named(keyRows', endpointChange.token)
    OBVIOUS
  <2>1. endpointChange.token \in Chosen /\ ~Named(keyRows, endpointChange.token)
    BY KeyFacts DEF EndpointChangeKnown
  <2> QED
    BY <1>5, <2>1, NobodyApart DEF Named
<1> QED
  BY <1>1, <1>3, <1>5, <1>7, <1>8, <1>9, <1>10, <1>11, KeyFacts, KeyStepKeeps

\* The publication of a deletion takes the token of the key out of the hashes, and no other key had it.
LEMMA PublishDeletedKeeps ==
    ASSUME TokensInv, PublishDeleted
    PROVE  TokensInv'
<1> DEFINE n == keyChange.what
           t == keys[n]
<1>1. /\ keyChange.stage = "publishing" /\ keyChange.token = Nobody
      /\ keys' = [keys EXCEPT ![n] = Nobody] /\ hashes' = [hashes EXCEPT ![t] = Nobody]
      /\ keyMutex' = FALSE /\ keyChange' = NoTokenChange
      /\ statesMutex' = (IF statesMutex = "key" THEN Nobody ELSE statesMutex)
      /\ UNCHANGED keyRows /\ KeyStep
  BY DEF PublishDeleted, KeyReleased
<1>2. n \in Names /\ t \in Tokens /\ t # Nobody /\ keys[n] = t /\ keyRows[n] = Nobody
  BY <1>1, KeyFacts DEF KeyChangeKnown
<1>3. \A m \in Names : ~StoredIs(m) /\ (DeletedIs(m) => m = n)
  BY <1>1 DEF DeletedIs, StoredIs
<1> HIDE DEF n, t
<1>4. NoTokenChange \in KeyChanges /\ NoTokenChange.stage = "none"
  BY DEF NoTokenChange, KeyChanges
<1>5. keys' \in [Names -> Tokens \cup {Nobody}] /\ keys'[n] = Nobody /\ \A m \in Names \ {n} : keys'[m] = keys[m]
  BY <1>1, <1>2, KeyFacts
<1>6. hashes' \in [Tokens -> Names \cup {Nobody}] /\ hashes'[t] = Nobody /\ \A u \in Tokens \ {t} : hashes'[u] = hashes[u]
  BY <1>1, <1>2, KeyFacts
<1>7. \A m \in Names : keys'[m] # Nobody => keyRows[m] = keys'[m]
  BY <1>2, <1>3, <1>5, KeyFacts DEF RowsAreUnique
<1>8. Unique(keys')
  BY <1>5, <1>7, KeyFacts DEF RowsAreUnique, Unique
<1>9. RowsAreUnique'
  BY <1>1, <1>7, <1>8, KeyFacts DEF RowsAreUnique, Unique
<1>10. \A m \in Names \ {n} : keys[m] # t
  BY <1>2, KeyFacts DEF RowsAreUnique, Unique
<1>11. HashesAreKeys'
  BY <1>1, <1>2, <1>5, <1>6, <1>10, KeyFacts, NobodyApart DEF HashesAreKeys, Named, KeyStep
<1>12. KeyChangeKnown'
  BY <1>1, <1>4, KeyFacts DEF KeyChangeKnown
<1>13. ~unlisted => \A m \in Names : keyRows'[m] # Nobody => keys'[m] = keyRows'[m] \/ StoredIs(m)'
  BY <1>1, <1>2, <1>3, <1>5, KeyFacts DEF RowsArePublished
<1>14. endpointChange.stage = "saving" => unlisted \/ ~Named(keyRows', endpointChange.token)
  BY <1>1, KeyFacts DEF EndpointChangeKnown, Named
<1>15. statesMutex' \in {Nobody, "endpoint", "key"} /\ (statesMutex' = "endpoint" <=> statesMutex = "endpoint")
  BY <1>1, KeyFacts
<1> QED
  BY <1>1, <1>4, <1>5, <1>6, <1>9, <1>11, <1>12, <1>13, <1>14, <1>15, KeyFacts, KeyStepKeeps

-----------------------------------------------------------------------------
(* The managed endpoints: Create, Update and Delete of managedendpoint *)

EndpointChanges == [stage : {"none", "saving", "removing"}, what : Keys \cup {Nobody}, token : Tokens \cup {Nobody}]

\* What a step of an endpoint keeps, as it leaves the keys alone
LEMMA EndpointStepKeeps ==
    ASSUME TokensInv, EndpointStep,
           rows' \in [Keys -> Tokens \cup {Nobody}], states' \in [Keys -> {Nobody} \cup [token : Tokens, hidden : BOOLEAN]],
           hidden' \in BOOLEAN, endpointChange' \in EndpointChanges, statesMutex' \in {Nobody, "endpoint"}, statesMutex # "key",
           keyChange.stage # "creating" \/ \A k \in Keys : rows'[k] = rows[k] \/ rows'[k] \notin Generated,
           ~unlisted => \A k \in Keys : rows'[k] # Nobody => states'[k] # Nobody,
           StatesAreRows', EndpointChangeKnown', RowsSharedIfHidden', \A k \in Keys : Visible(k)' => ~InFile(file, k)
    PROVE  TokensInv'
<1>1. UNCHANGED <<file, keyRows, keys, hashes, resolver, keyMutex, keyChange, unlisted>>
  BY DEF EndpointStep
<1>2. TokensTypeOK'
  BY <1>1 DEF TokensInv, TokensTypeOK, EndpointChanges
<1>3. RowsAreUnique' /\ RowsArePublished'
  BY <1>1 DEF TokensInv, RowsAreUnique, RowsArePublished, DeletedIs, StoredIs, Unique
<1>4. HashesAreKeys' /\ PublishedOfFile'
  BY <1>1 DEF TokensInv, HashesAreKeys, PublishedOfFile, Named
<1>5. KeyChangeKnown'
  BY <1>1, KeyFacts DEF TokensInv, KeyChangeKnown
<1> QED
  BY <1>2, <1>3, <1>4, <1>5 DEF TokensInv

\* What the changes of an endpoint in progress know
LEMMA EndpointFacts ==
    ASSUME TokensInv
    PROVE  /\ file \in Files /\ keyRows \in [Names -> Tokens \cup {Nobody}] /\ rows \in [Keys -> Tokens \cup {Nobody}]
           /\ states \in [Keys -> {Nobody} \cup [token : Tokens, hidden : BOOLEAN]]
           /\ hashes \in [Tokens -> Names \cup {Nobody}]
           /\ endpointChange \in EndpointChanges /\ hidden \in BOOLEAN /\ unlisted \in BOOLEAN
           /\ statesMutex \in {Nobody, "endpoint", "key"}
           /\ HashesAreKeys /\ RowsArePublished /\ StatesAreRows /\ EndpointChangeKnown /\ RowsSharedIfHidden
           /\ \A k \in Keys : Visible(k) => ~InFile(file, k)
  BY DEF TokensInv, TokensTypeOK, EndpointChanges, PublishedOfFile

\* validatePushToken looks at the tokens that are monitored and at the hashes of the keys.
LEMMA BeginSaveKeeps ==
    ASSUME TokensInv, NEW k \in Keys, NEW t \in Tokens, BeginSave(k, t)
    PROVE  TokensInv'
<1>1. /\ statesMutex = Nobody /\ statesMutex' = "endpoint" /\ ~InFile(file, k) /\ Usable(k, t)
      /\ t \in Chosen \/ Named(keys, t)
      /\ endpointChange' = [stage |-> "saving", what |-> k, token |-> t]
      /\ hidden' = (hidden \/ unlisted \/ HiddenFrom(k, t))
      /\ UNCHANGED <<rows, states>> /\ EndpointStep
  BY DEF BeginSave, Named
<1>2. UNCHANGED <<file, keyRows, unlisted>>
  BY <1>1 DEF EndpointStep
<1>3. hidden' \in BOOLEAN /\ (hidden => hidden')
  BY <1>1, EndpointFacts DEF HiddenFrom
<1>4. endpointChange' \in EndpointChanges /\ endpointChange'.stage = "saving" /\ endpointChange'.what = k /\ endpointChange'.token = t
  BY <1>1 DEF EndpointChanges
<1>5. t \in Chosen
  BY <1>1, EndpointFacts DEF Usable, HashesAreKeys
<1>6. unlisted \/ ~Named(keyRows, t)
  <2> SUFFICES ASSUME ~unlisted, NEW n \in Names, keyRows[n] = t PROVE FALSE
    BY DEF Named
  <2>1. keys[n] # t
    BY <1>1, EndpointFacts, NobodyApart DEF Usable, HashesAreKeys, Named
  <2>2. StoredIs(n)
    BY <2>1, NobodyApart, EndpointFacts DEF RowsArePublished
  <2>3. t \in Generated
    BY <1>1, <2>2, KeyFacts DEF StoredIs, KeyChangeKnown
  <2> QED
    BY <1>5, <2>3, NobodyApart
<1>7. ASSUME NEW l \in Keys \ {k} PROVE (Visible(l) => states[l].token # t) /\ (rows[l] = t => hidden')
  <2>1. Visible(l) => states[l].token # t
    BY <1>1 DEF Usable, PushTokens, Visible
  <2>2. CASE states[l] # Nobody /\ ~Visible(l) /\ rows[l] = t
    <3>1. HiddenFrom(k, t)
      BY <2>2, EndpointFacts DEF HiddenFrom, Visible, StatesAreRows
    <3> QED
      BY <1>1, <2>1, <3>1
  <2>3. CASE states[l] = Nobody /\ rows[l] = t
    <3>1. unlisted
      BY <2>3, NobodyApart, EndpointFacts DEF RowsArePublished
    <3> QED
      BY <1>1, <2>1, <3>1
  <2> QED
    BY <2>1, <2>2, <2>3, EndpointFacts DEF StatesAreRows, Visible
<1>8. EndpointChangeKnown'
  BY <1>1, <1>2, <1>4, <1>5, <1>6, <1>7 DEF EndpointChangeKnown, Visible, Named
<1>9. StatesAreRows' /\ RowsSharedIfHidden' /\ \A l \in Keys : Visible(l)' => ~InFile(file, l)
  BY <1>1, <1>3, EndpointFacts DEF StatesAreRows, RowsSharedIfHidden, Visible
<1> QED
  BY <1>1, <1>3, <1>4, <1>8, <1>9, EndpointFacts, NobodyApart, EndpointStepKeeps DEF RowsArePublished

\* The row is written and the endpoint published.
LEMMA SaveKeeps ==
    ASSUME TokensInv, Save
    PROVE  TokensInv'
<1> DEFINE k == endpointChange.what
           t == endpointChange.token
<1>1. /\ endpointChange.stage = "saving" /\ rows' = [rows EXCEPT ![k] = t]
      /\ states' = [states EXCEPT ![k] = [token |-> t, hidden |-> FALSE]]
      /\ endpointChange' = NoTokenChange /\ statesMutex' = Nobody /\ UNCHANGED hidden /\ EndpointStep
  BY DEF Save
<1>2. /\ k \in Keys /\ t \in Chosen /\ t \in Tokens /\ t \notin Generated /\ ~InFile(file, k) /\ statesMutex = "endpoint"
      /\ \A l \in Keys \ {k} : rows[l] = t => hidden
  BY <1>1, EndpointFacts, NobodyApart DEF EndpointChangeKnown
<1> HIDE DEF k, t
<1>3. NoTokenChange \in EndpointChanges /\ NoTokenChange.stage = "none"
  BY DEF NoTokenChange, EndpointChanges
<1>4. rows' \in [Keys -> Tokens \cup {Nobody}] /\ rows'[k] = t /\ \A l \in Keys \ {k} : rows'[l] = rows[l]
  BY <1>1, <1>2, EndpointFacts
<1>5. /\ [token |-> t, hidden |-> FALSE] \in [token : Tokens, hidden : BOOLEAN]
      /\ [token |-> t, hidden |-> FALSE] # Nobody
  <2>1. [token |-> t, hidden |-> FALSE] \in [token : Tokens, hidden : BOOLEAN]
    BY <1>2
  <2> QED
    BY <2>1, NobodyApart
<1>6. /\ states' \in [Keys -> {Nobody} \cup [token : Tokens, hidden : BOOLEAN]]
      /\ states'[k] = [token |-> t, hidden |-> FALSE] /\ states'[k] # Nobody /\ states'[k].token = t
      /\ \A l \in Keys \ {k} : states'[l] = states[l]
  BY <1>1, <1>2, <1>5, EndpointFacts
<1>7. StatesAreRows'
  BY <1>4, <1>6, EndpointFacts DEF StatesAreRows
<1>8. RowsSharedIfHidden'
  BY <1>1, <1>2, <1>4, EndpointFacts DEF RowsSharedIfHidden
<1>9. \A l \in Keys : Visible(l)' => ~InFile(file, l)
  BY <1>2, <1>6, EndpointFacts DEF Visible
<1>10. EndpointChangeKnown'
  BY <1>1, <1>3, NobodyApart DEF EndpointChangeKnown
<1>11. ~unlisted => \A l \in Keys : rows'[l] # Nobody => states'[l] # Nobody
  BY <1>4, <1>6, EndpointFacts DEF RowsArePublished
<1>12. \A l \in Keys : rows'[l] = rows[l] \/ rows'[l] \notin Generated
  BY <1>2, <1>4
<1> QED
  BY <1>1, <1>2, <1>3, <1>4, <1>6, <1>7, <1>8, <1>9, <1>10, <1>11, <1>12, EndpointFacts, EndpointStepKeeps

\* The deletion of an endpoint, and a change that fails
LEMMA OtherEndpointStepKeeps ==
    ASSUME TokensInv, (\E k \in Keys : BeginRemove(k)) \/ Remove \/ EndpointChangeFails
    PROVE  TokensInv'
<1>1. NoTokenChange \in EndpointChanges /\ NoTokenChange.stage = "none"
  BY DEF NoTokenChange, EndpointChanges
<1>2. CASE Remove
  <2> DEFINE k == endpointChange.what
  <2>1. /\ endpointChange.stage = "removing" /\ rows' = [rows EXCEPT ![k] = Nobody] /\ states' = [states EXCEPT ![k] = Nobody]
        /\ endpointChange' = NoTokenChange /\ statesMutex' = Nobody /\ UNCHANGED hidden /\ EndpointStep
    BY <1>2 DEF Remove
  <2>2. k \in Keys /\ statesMutex = "endpoint"
    BY <2>1, EndpointFacts DEF EndpointChangeKnown
  <2> HIDE DEF k
  <2>3. rows' \in [Keys -> Tokens \cup {Nobody}] /\ rows'[k] = Nobody /\ \A l \in Keys \ {k} : rows'[l] = rows[l]
    BY <2>1, <2>2, EndpointFacts
  <2>4. states' \in [Keys -> {Nobody} \cup [token : Tokens, hidden : BOOLEAN]]
        /\ states'[k] = Nobody /\ \A l \in Keys \ {k} : states'[l] = states[l]
    BY <2>1, <2>2, EndpointFacts
  <2>5. StatesAreRows' /\ RowsSharedIfHidden' /\ \A l \in Keys : Visible(l)' => ~InFile(file, l)
    BY <2>1, <2>3, <2>4, EndpointFacts DEF StatesAreRows, RowsSharedIfHidden, Visible
  <2>6. EndpointChangeKnown'
    BY <1>1, <2>1, NobodyApart DEF EndpointChangeKnown
  <2>7. ~unlisted => \A l \in Keys : rows'[l] # Nobody => states'[l] # Nobody
    BY <2>3, <2>4, EndpointFacts DEF RowsArePublished
  <2>8. \A l \in Keys : rows'[l] = rows[l] \/ rows'[l] \notin Generated
    BY <2>3, NobodyApart
  <2> QED
    BY <1>1, <2>1, <2>2, <2>3, <2>4, <2>5, <2>6, <2>7, <2>8, EndpointFacts, EndpointStepKeeps
<1>3. CASE EndpointChangeFails
  <2>1. /\ endpointChange # NoTokenChange /\ endpointChange' = NoTokenChange /\ statesMutex' = Nobody
        /\ UNCHANGED <<rows, states, hidden>> /\ EndpointStep
    BY <1>3 DEF EndpointChangeFails
  <2>2. statesMutex = "endpoint"
    BY <2>1, EndpointFacts DEF EndpointChangeKnown
  <2>3. EndpointChangeKnown'
    BY <1>1, <2>1, NobodyApart DEF EndpointChangeKnown
  <2>4. StatesAreRows' /\ RowsSharedIfHidden' /\ \A l \in Keys : Visible(l)' => ~InFile(file, l)
    BY <2>1, EndpointFacts DEF StatesAreRows, RowsSharedIfHidden, Visible
  <2> QED
    BY <1>1, <2>1, <2>2, <2>3, <2>4, EndpointFacts, EndpointStepKeeps DEF RowsArePublished
<1>4. ASSUME NEW k \in Keys, BeginRemove(k) PROVE TokensInv'
  <2>1. /\ statesMutex = Nobody /\ statesMutex' = "endpoint"
        /\ endpointChange' = [stage |-> "removing", what |-> k, token |-> Nobody]
        /\ UNCHANGED <<rows, states, hidden>> /\ EndpointStep
    BY <1>4 DEF BeginRemove
  <2>2. endpointChange' \in EndpointChanges /\ endpointChange'.stage = "removing" /\ endpointChange'.what = k
    BY <2>1 DEF EndpointChanges
  <2>3. EndpointChangeKnown'
    BY <2>1, <2>2 DEF EndpointChangeKnown
  <2>4. StatesAreRows' /\ RowsSharedIfHidden' /\ \A l \in Keys : Visible(l)' => ~InFile(file, l)
    BY <2>1, EndpointFacts DEF StatesAreRows, RowsSharedIfHidden, Visible
  <2> QED
    BY <2>1, <2>2, <2>3, <2>4, EndpointFacts, NobodyApart, EndpointStepKeeps DEF RowsArePublished
<1> QED
  BY <1>2, <1>3, <1>4

-----------------------------------------------------------------------------
(* The owners of the tokens *)

\* Every step keeps the invariant: a reload, a crash, and the changes of the keys and of the endpoints.
LEMMA TokensInvKept ==
    ASSUME TokensInv, [TokensNext]_tokenVars
    PROVE  TokensInv'
<1>1. CASE UNCHANGED tokenVars
  <2>1. UNCHANGED <<file, keyRows, rows, keys, hashes, states, resolver, keyMutex, statesMutex, keyChange, endpointChange,
                    unlisted, hidden>>
    BY <1>1 DEF tokenVars, storedRows, published
  <2> QED
    BY <2>1 DEF TokensInv, TokensTypeOK, RowsAreUnique, Unique, DeletedIs, StoredIs, RowsArePublished, StatesAreRows, HashesAreKeys,
       Named, KeyChangeKnown, EndpointChangeKnown, Visible, PublishedOfFile, RowsSharedIfHidden
<1>2. ASSUME NEW f \in Files, ReloadTokens(f) PROVE TokensInv'
  <2>1. /\ keyChange = NoTokenChange /\ endpointChange = NoTokenChange /\ LoadsTokens(f)
        /\ UNCHANGED <<keyMutex, statesMutex, keyChange, endpointChange, hidden>>
    BY <1>2 DEF ReloadTokens
  <2>2. statesMutex = Nobody
    BY <2>1, KeyFacts DEF KeyChangeKnown, EndpointChangeKnown, NoTokenChange
  <2> QED
    BY <2>1, <2>2, KeyFacts, LoadKeeps DEF LoadsTokens
<1>3. CASE CrashTokens
  <2>1. file \in Files
    BY EndpointFacts
  <2> QED
    BY <1>3, <2>1, LoadKeeps DEF CrashTokens, LoadsTokens
<1> QED
  BY <1>1, <1>2, <1>3, BeginKeyKeeps, InsertKeyKeeps, KeyChangeFailsKeeps, PublishKeyKeeps, DeleteKeyRowKeeps,
     PublishDeletedKeeps, BeginSaveKeeps, SaveKeeps, OtherEndpointStepKeeps DEF TokensNext

\* At the start nothing is stored, and only the file is published.
LEMMA TokensInvHolds == TokensSpec => []TokensInv
<1>1. TokensInit => TokensInv
  <2> SUFFICES ASSUME TokensInit PROVE TokensInv
    OBVIOUS
  <2>1. /\ file \in Files /\ keyRows = NoKeyRows /\ rows = [k \in Keys |-> Nobody] /\ keys = NoKeyRows
        /\ hashes = Hashes(file, NoKeyRows) /\ states = NoStates /\ resolver = Resolver(file) /\ keyMutex = FALSE
        /\ statesMutex = Nobody /\ keyChange = NoTokenChange /\ endpointChange = NoTokenChange
        /\ unlisted = FALSE /\ hidden = FALSE
    BY DEF TokensInit
  <2>2. hashes \in [Tokens -> Names \cup {Nobody}]
    BY <2>1, NameHasIt DEF Hashes
  <2>3. NoTokenChange.stage = "none" /\ NoTokenChange \in KeyChanges /\ NoTokenChange \in EndpointChanges
    BY DEF NoTokenChange, KeyChanges, EndpointChanges
  <2>4. /\ keyRows \in [Names -> Tokens \cup {Nobody}] /\ rows \in [Keys -> Tokens \cup {Nobody}]
        /\ states \in [Keys -> {Nobody} \cup [token : Tokens, hidden : BOOLEAN]]
    BY <2>1 DEF NoKeyRows, NoStates
  <2>5. TokensTypeOK
    BY <2>1, <2>2, <2>3, <2>4, ResolverType DEF TokensTypeOK, KeyChanges, EndpointChanges
  <2>6. RowsAreUnique /\ RowsArePublished /\ StatesAreRows /\ RowsSharedIfHidden
    BY <2>1 DEF RowsAreUnique, RowsArePublished, StatesAreRows, RowsSharedIfHidden, Unique, NoKeyRows, NoStates
  <2>7. HashesAreKeys
    BY <2>1, NameHasIt DEF HashesAreKeys, Hashes, Named
  <2>8. KeyChangeKnown /\ EndpointChangeKnown
    BY <2>1, <2>3, NobodyApart DEF KeyChangeKnown, EndpointChangeKnown
  <2>9. PublishedOfFile
    BY <2>1 DEF PublishedOfFile, Visible, NoStates
  <2> QED
    BY <2>5, <2>6, <2>7, <2>8, <2>9 DEF TokensInv
<1> QED
  BY <1>1, TokensInvKept, PTL DEF TokensSpec

\* A token resolves to its owner when it resolves at all.
LEMMA InvResolves ==
    ASSUME TokensInv
    PROVE  TokensResolve
<1>1. resolver = Resolver(file) /\ file \in Files /\ \A k \in Keys : Visible(k) => ~InFile(file, k)
  BY EndpointFacts DEF TokensInv, PublishedOfFile
<1>2. /\ resolver.keys = {file.keys[n] : n \in Names} \ {Nobody}
      /\ \A t \in Tokens : resolver.byToken[t] = Owner(t, {k \in Keys : InFile(file, k)}, [k \in Keys |-> TokenInFile(file, k)])
      /\ \A k \in Keys : resolver.byKey[k] = TokenInFile(file, k)
  BY <1>1 DEF Resolver
<1>3. GlobalKeysAreRows
  <2> SUFFICES ASSUME ~keyMutex, ~unlisted, NEW t \in Tokens PROVE IsGlobal(t) <=> Named(keyRows, t) \/ Named(file.keys, t)
    BY NameHasIt DEF GlobalKeysAreRows
  <2>1. keyChange.stage = "none"
    BY KeyFacts DEF KeyChangeKnown, KeyChanges
  <2>2. Named(keys, t) <=> Named(keyRows, t)
    BY <2>1, KeyFacts, NobodyApart DEF RowsAreUnique, RowsArePublished, DeletedIs, StoredIs, Named
  <2>3. t \in resolver.keys <=> Named(file.keys, t)
    BY <1>2, NobodyApart DEF Named
  <2> QED
    BY <2>2, <2>3, KeyFacts DEF IsGlobal, HashesAreKeys
<1>4. TokenReachesItsOwner
  <2> SUFFICES ASSUME NEW t \in Tokens, Resolve(t) # Nobody PROVE TokenOf(Resolve(t)) = t
    BY DEF TokenReachesItsOwner
  <2>1. CASE resolver.byToken[t] # Nobody
    <3> DEFINE k == resolver.byToken[t]
               candidates == {l \in Keys : InFile(file, l)}
               tokens == [l \in Keys |-> TokenInFile(file, l)]
    <3>2. k = Owner(t, candidates, tokens) /\ k # Nobody
      BY <1>2, <2>1
    <3>3. \A l \in candidates : l \in Keys /\ InFile(file, l) /\ tokens[l] = TokenInFile(file, l)
      OBVIOUS
    <3> HIDE DEF k, candidates, tokens
    <3>4. k \in candidates /\ tokens[k] = t
      BY <3>2, OwnerHasIt
    <3>1. k \in Keys /\ InFile(file, k) /\ TokenInFile(file, k) = t
      BY <3>3, <3>4
    <3> USE DEF k
    <3> QED
      BY <1>2, <2>1, <3>1 DEF Resolve, TokenOf
  <2>2. CASE resolver.byToken[t] = Nobody
    <3> DEFINE k == ManagedByToken(t)
    <3>1. k # Nobody /\ Resolve(t) = k
      BY <2>2 DEF Resolve
    <3>2. k \in Keys /\ Visible(k) /\ states[k].token = t
      BY <3>1, OwnerHasIt DEF ManagedByToken
    <3> QED
      BY <1>1, <3>1, <3>2 DEF TokenOf
  <2> QED
    BY <2>1, <2>2
<1>5. FileKeepsItsTokens
  <2> SUFFICES ASSUME NEW k \in Keys, InFile(file, k), \A l \in Keys \ {k} : TokenInFile(file, l) # TokenInFile(file, k)
               PROVE  Resolve(TokenInFile(file, k)) = k
    BY DEF FileKeepsItsTokens
  <2> DEFINE candidates == {l \in Keys : InFile(file, l)}
             tokens == [l \in Keys |-> TokenInFile(file, l)]
  <2>1. TokenInFile(file, k) \in Tokens /\ k # Nobody
    BY <1>1, FilesHold, NobodyApart
  <2>2. k \in candidates /\ tokens[k] = TokenInFile(file, k) /\ \A l \in candidates \ {k} : tokens[l] # tokens[k]
    OBVIOUS
  <2>3. resolver.byToken[TokenInFile(file, k)] = Owner(tokens[k], candidates, tokens)
    BY <1>2, <2>1
  <2> HIDE DEF candidates, tokens
  <2>4. Owner(tokens[k], candidates, tokens) = k
    BY <2>2, AloneOwnsIt
  <2> QED
    BY <2>1, <2>3, <2>4 DEF Resolve
<1>6. SharedOnlyIfHidden
  <2> SUFFICES ASSUME NEW k \in Keys, NEW l \in Keys, k # l, Visible(k), Visible(l), states[k].token = states[l].token
               PROVE  hidden
    BY DEF SharedOnlyIfHidden
  <2>1. states[k].token = rows[k] /\ states[l].token = rows[l] /\ rows[k] # Nobody
    BY EndpointFacts, TokenTypes, NobodyApart DEF StatesAreRows, Visible, TokensInv
  <2> QED
    BY <2>1, EndpointFacts DEF RowsSharedIfHidden
<1> QED
  BY <1>3, <1>4, <1>5, <1>6 DEF TokensResolve

\* No change gives the token of a push key to an endpoint, nor the other way round.
LEMMA StaysApart ==
    ASSUME TokensInv, TokensNext, ~unlisted, Disjoint(rows, keyRows)
    PROVE  Disjoint(rows', keyRows')
<1>1. /\ rows \in [Keys -> Tokens \cup {Nobody}] /\ keyRows \in [Names -> Tokens \cup {Nobody}]
      /\ \A k \in Keys, n \in Names : rows[k] = keyRows[n] => rows[k] = Nobody
  BY EndpointFacts DEF Disjoint
<1>2. CASE UNCHANGED <<rows, keyRows>>
  BY <1>1, <1>2 DEF Disjoint
<1>3. CASE InsertKey
  <2> DEFINE n == keyChange.what
             t == keyChange.token
  <2>1. keyChange.stage \in {"creating", "restoring"} /\ keyRows' = [keyRows EXCEPT ![n] = t] /\ rows' = rows
    BY <1>3 DEF InsertKey, KeyStep
  <2>2. \A k \in Keys : rows[k] # t
    BY <2>1, KeyFacts DEF KeyChangeKnown
  <2> HIDE DEF n, t
  <2> QED
    BY <1>1, <2>1, <2>2 DEF Disjoint
<1>4. CASE DeleteKeyRow
  <2>1. \E n : keyRows' = [keyRows EXCEPT ![n] = Nobody] /\ rows' = rows
    BY <1>4 DEF DeleteKeyRow, KeyStep
  <2> QED
    BY <1>1, <2>1 DEF Disjoint
<1>5. CASE Save
  <2> DEFINE k == endpointChange.what
             t == endpointChange.token
  <2>1. endpointChange.stage = "saving" /\ rows' = [rows EXCEPT ![k] = t] /\ keyRows' = keyRows
    BY <1>5 DEF Save, EndpointStep
  <2>2. ~Named(keyRows, t)
    BY <2>1, EndpointFacts DEF EndpointChangeKnown
  <2> HIDE DEF k, t
  <2> QED
    BY <1>1, <2>1, <2>2 DEF Disjoint, Named
<1>6. CASE Remove
  <2>1. \E k : rows' = [rows EXCEPT ![k] = Nobody] /\ keyRows' = keyRows
    BY <1>6 DEF Remove, EndpointStep
  <2> QED
    BY <1>1, <2>1 DEF Disjoint
<1> QED
  BY <1>2, <1>3, <1>4, <1>5, <1>6
     DEF TokensNext, ReloadTokens, CrashTokens, LoadsTokens, LoadTokens, storedRows, BeginCreateKey, BeginRestoreKey, BeginDeleteKey,
         KeyChangeFails, PublishKey, PublishDeleted, KeyStep, BeginSave, BeginRemove, EndpointChangeFails, EndpointStep

(* A token has one owner at any time: it resolves to it, and no change gives it to a second one (resolver of push.go,
   pushkey.go Create, Rename and Restore, managedendpoint/service.go pushTokens). *)
THEOREM TokensAlwaysHaveOneOwner == TokensSpec => TokensHaveOneOwner
<1>1. TokensInv => TokensResolve
  BY InvResolves
<1>2. TokensInv /\ [TokensNext]_tokenVars =>
          [rows # rows' \/ keyRows # keyRows' => Disjoint(rows', keyRows') \/ ~Disjoint(rows, keyRows) \/ unlisted]_tokenVars
  BY StaysApart
<1> QED
  BY <1>1, <1>2, TokensInvHolds, PTL DEF TokensSpec, TokensHaveOneOwner, KeysAndEndpointsApart

-----------------------------------------------------------------------------
(* Both, as MCPushes composes them *)

\* A behaviour of the composition is one of the pushes, and one of the tokens.
LEMMA BothAreBehaviours == MCSpec => Spec /\ TokensSpec
<1>1. MCInit => Init /\ TokensInit
  BY DEF MCInit
<1>2. [MCNext]_<<part, vars, tokenVars>> => [Next]_vars /\ [TokensNext]_tokenVars
  BY DEF MCNext, PushesStep, TokensStep
<1> QED
  BY <1>1, <1>2, PTL DEF MCSpec, Spec, TokensSpec

(* The types of both, and nothing kept of a key that is not defined any more, neither its time nor its retries, whatever
   pushes were waiting for its lock when it was stopped, and except by a heartbeat past its timer or a request past the
   deadline of the server (Delete of service.go, ForgetExternalEndpoint of push.go and the timers of registry.go). *)
THEOREM BothStayConsistent == MCSpec => []Consistent
<1>1. TokensInv => TokensTypeOK
  BY DEF TokensInv
<1>2. TypeOK /\ NothingLeftBehind /\ TokensTypeOK => Consistent
  BY DEF Consistent
<1> QED
  BY <1>1, <1>2, BothAreBehaviours, NothingStaysBehind, TokensInvHolds, PTL

(* What the composition promises of the retries and of the tokens follows as well. *)
THEOREM BothKeepTheirPromises == MCSpec => []RetriesHonoured /\ TokensHaveOneOwner
<1> QED
  BY BothAreBehaviours, RetriesAlwaysHonoured, TokensAlwaysHaveOneOwner, PTL
=============================================================================
