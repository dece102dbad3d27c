---------------------------- MODULE SuitesProofs ----------------------------
(***************************************************************************)
(* For a suite of any length, any number of reloads that its executions    *)
(* overlap and any weight of the semaphores: the semaphores have no more   *)
(* holders than their weight, but for one slot at most that each goroutine *)
(* of a former cycle gave back to the wrong one, a stored result tells     *)
(* what the execution was, and the alerts of the endpoints follow their    *)
(* own results as far as the execution skipped nothing.                    *)
(***************************************************************************)
EXTENDS Suites, FiniteSetTheorems, FunctionTheorems, TLAPS

-----------------------------------------------------------------------------
(* The results of an execution *)

\* The endpoints come in their order, those before the position, and none later than its place among the results.
InOrder(r, p) ==
    /\ Len(r) < p
    /\ \A i \in 1..Len(r) : r[i].of >= i /\ r[i].of < p
    /\ \A i, j \in 1..Len(r) : i < j => r[i].of < r[j].of

Executes(r, e) == \E i \in 1..Len(r) : r[i].of = e
FailedBefore(r, e) == \E i \in 1..Len(r) : ~r[i].ok /\ r[i].of < e

\* The endpoints before the position were executed, but for those that come after a failure and are not always run.
SkippedAfterFailure(r, p) ==
    \A e \in Members : e < p => (Executes(r, e) <=> (e \in AlwaysRun \/ ~FailedBefore(r, e)))

\* The alerts of the endpoints before the position are those of the results at their positions.
AlertsFollow(g) ==
    \A i \in 1..Len(results[g]) : i < position[g] /\ i \notin muted[g]
        => (flags[g][i] <=> ~results[g][i].ok /\ i \notin unsent[g])

\* No notification was due for the endpoints that come next.
UnsentSoFar(g) == \A i \in unsent[g] : i < position[g]

\* What an execution knows: nothing before it begins, the results so far, and what is stored of them.
ExecutionInv(g) ==
    /\ suitePc[g] \notin {"executing", "alerting"} => results[g] = <<>> /\ position[g] = 1 /\ muted[g] = {} /\ unsent[g] = {}
    /\ suitePc[g] = "executing" =>
          InOrder(results[g], position[g]) /\ SkippedAfterFailure(results[g], position[g]) /\ muted[g] = {} /\ unsent[g] = {}
    /\ suitePc[g] = "alerting" =>
          /\ InOrder(results[g], Length + 1) /\ SkippedAfterFailure(results[g], Length + 1)
          /\ (success[g] <=> (~HasFailed(g) /\ ~suiteError[g]))
          /\ AlertsFollow(g) /\ UnsentSoFar(g)

\* The goroutines that give, or will give, a slot of a former semaphore to the one of s
Straying(s) ==
    {g \in Cycles : /\ suitePc[g] \in Holding /\ semaphore[g] < s
                    /\ IF suitePc[g] = "acquired" THEN s = cycle ELSE releases[g] = s}

\* What the semaphores know: the types; nobody uses one that Monitor has not made; Release is deferred after Acquire; what
\* is taken and what was given account for the holders; and each goroutine of a former cycle gives one slot at most.
SlotsInv ==
    /\ suitePc \in [Cycles -> SuiteStages] /\ semaphore \in [Cycles -> Cycles] /\ releases \in [Cycles -> Cycles]
    /\ used \in [Cycles -> 0..Concurrency] /\ others \in [Cycles -> Nat] /\ stray \in [Cycles -> Nat]
    /\ cycle \in Cycles /\ \A s \in Cycles : s < cycle => s \in cancelled
    /\ \A g \in Cycles : g > cycle => suitePc[g] = "unborn"
    /\ \A g \in Cycles : suitePc[g] \in Holding \cup {"acquiring"} => semaphore[g] <= cycle
    /\ \A g \in Cycles : suitePc[g] \in Deferred => semaphore[g] <= releases[g] /\ releases[g] <= cycle
    /\ \A s \in Cycles : s > cycle => used[s] = 0 /\ others[s] = 0 /\ stray[s] = 0
    /\ \A s \in Cycles : Cardinality(Holders(s)) + others[s] <= used[s] + stray[s]
    /\ used[cycle] + stray[cycle] = Cardinality(Holders(cycle)) + others[cycle]
    /\ \A s \in Cycles : stray[s] + Cardinality(Straying(s)) < s

SuitesInv ==
    /\ SuitesTypeOK /\ SlotsInv
    /\ \A g \in Cycles : ExecutionInv(g)
    /\ restored => cycle < MaxCycles /\ cycle \in cancelled

-----------------------------------------------------------------------------
(* Lists of results *)

\* What the type of the results says.
LEMMA AtMostIs ==
    ASSUME NEW S, NEW n \in Nat, NEW r
    PROVE  r \in AtMost(S, n) <=> (r \in Seq(S) /\ Len(r) <= n)
<1>1. ASSUME r \in AtMost(S, n) PROVE r \in Seq(S) /\ Len(r) <= n
  <2>1. PICK k \in 0..n : r \in [1..k -> S]
    BY <1>1 DEF AtMost
  <2> QED
    BY <2>1
<1>2. ASSUME r \in Seq(S), Len(r) <= n PROVE r \in AtMost(S, n)
  <2>1. Len(r) \in 0..n /\ r \in [1..Len(r) -> S]
    BY <1>2
  <2> QED
    BY <2>1 DEF AtMost
<1> QED
  BY <1>1, <1>2

\* The lists of results
Results == Seq(EndpointResult)

\* The types of what a list of results has.
LEMMA ResultsAre ==
    ASSUME NEW r \in Results
    PROVE  /\ Len(r) \in Nat
           /\ \A i \in 1..Len(r) : r[i].of \in Members /\ r[i].of \in Nat /\ r[i].ok \in BOOLEAN
           /\ Length \in Nat \ {0} /\ \A e \in Members : e \in Nat /\ 1 <= e /\ e <= Length /\ e < Length + 1
<1>1. Len(r) \in Nat /\ \A i \in 1..Len(r) : r[i] \in EndpointResult
  BY DEF Results
<1>2. Length \in Nat \ {0} /\ \A e \in Members : e \in Nat /\ 1 <= e /\ e <= Length /\ e < Length + 1
  BY SuitesAssumption DEF Members
<1>3. \A i \in 1..Len(r) : r[i].of \in Members /\ r[i].ok \in BOOLEAN
  BY <1>1 DEF EndpointResult
<1> QED
  BY <1>1, <1>2, <1>3

\* Nothing was executed or skipped before the first endpoint.
LEMMA NothingExecuted == InOrder(<<>>, 1) /\ SkippedAfterFailure(<<>>, 1)
<1>1. InOrder(<<>>, 1)
  BY DEF InOrder
<1>2. \A e \in Members : ~(e < 1)
  BY SuitesAssumption DEF Members
<1> QED
  BY <1>1, <1>2 DEF SkippedAfterFailure

\* An endpoint is skipped.
LEMMA SkipExtends ==
    ASSUME NEW r \in Results, NEW p \in Members, InOrder(r, p), SkippedAfterFailure(r, p),
           \E i \in 1..Len(r) : ~r[i].ok, p \notin AlwaysRun
    PROVE  InOrder(r, p + 1) /\ SkippedAfterFailure(r, p + 1)
<1>1. p \in Nat /\ Len(r) \in Nat /\ \A i \in 1..Len(r) : r[i].of \in Nat
  BY ResultsAre
<1>2. InOrder(r, p + 1)
  <2>1. Len(r) < p + 1
    BY <1>1 DEF InOrder
  <2>2. \A i \in 1..Len(r) : r[i].of >= i /\ r[i].of < p + 1
    BY <1>1 DEF InOrder
  <2> QED
    BY <2>1, <2>2 DEF InOrder
<1>3. ASSUME NEW e \in Members, e < p + 1
      PROVE  Executes(r, e) <=> (e \in AlwaysRun \/ ~FailedBefore(r, e))
  <2>1. CASE e < p
    BY <2>1 DEF SkippedAfterFailure
  <2>2. CASE e = p
    <3>1. ~Executes(r, e)
      BY <1>1, <2>2 DEF Executes, InOrder
    <3>2. FailedBefore(r, e)
      BY <2>2 DEF FailedBefore, InOrder
    <3> QED
      BY <2>2, <3>1, <3>2
  <2>3. e \in Nat
    BY SuitesAssumption DEF Members
  <2> QED
    BY <1>1, <1>3, <2>1, <2>2, <2>3
<1> QED
  BY <1>2, <1>3 DEF SkippedAfterFailure

\* An endpoint is executed.
LEMMA EvaluateExtends ==
    ASSUME NEW r \in Results, NEW p \in Members, InOrder(r, p), SkippedAfterFailure(r, p), NEW ok \in BOOLEAN,
           (\A i \in 1..Len(r) : r[i].ok) \/ p \in AlwaysRun,
           NEW s, s = Append(r, [of |-> p, ok |-> ok])
    PROVE  s \in Results /\ Len(s) = Len(r) + 1 /\ InOrder(s, p + 1) /\ SkippedAfterFailure(s, p + 1)
<1>1. /\ p \in Nat /\ Len(r) \in Nat /\ \A i \in 1..Len(r) : r[i].of \in Nat
      /\ [of |-> p, ok |-> ok] \in EndpointResult
  BY ResultsAre DEF EndpointResult
<1>2. /\ s \in Results /\ Len(s) = Len(r) + 1
      /\ \A i \in 1..Len(r) : s[i] = r[i]
      /\ s[Len(r) + 1].of = p /\ s[Len(r) + 1].ok = ok
  BY <1>1 DEF Results
<1>3. \A i \in 1..Len(s) : i \in 1..Len(r) \/ i = Len(r) + 1
  BY <1>1, <1>2
<1>4. InOrder(s, p + 1)
  <2>1. Len(s) < p + 1
    BY <1>1, <1>2 DEF InOrder
  <2>2. \A i \in 1..Len(s) : s[i].of >= i /\ s[i].of < p + 1
    <3> SUFFICES ASSUME NEW i \in 1..Len(s) PROVE s[i].of >= i /\ s[i].of < p + 1
      OBVIOUS
    <3>1. CASE i \in 1..Len(r)
      BY <1>1, <1>2, <3>1 DEF InOrder
    <3>2. CASE i = Len(r) + 1
      BY <1>1, <1>2, <3>2 DEF InOrder
    <3> QED
      BY <1>3, <3>1, <3>2
  <2>3. \A i, j \in 1..Len(s) : i < j => s[i].of < s[j].of
    <3> SUFFICES ASSUME NEW i \in 1..Len(s), NEW j \in 1..Len(s), i < j PROVE s[i].of < s[j].of
      OBVIOUS
    <3>1. i \in 1..Len(r) /\ s[i] = r[i]
      BY <1>1, <1>2
    <3>2. CASE j \in 1..Len(r)
      BY <1>2, <3>1, <3>2 DEF InOrder
    <3>3. CASE j = Len(r) + 1
      BY <1>2, <3>1, <3>3 DEF InOrder
    <3> QED
      BY <1>3, <3>2, <3>3
  <2> QED
    BY <2>1, <2>2, <2>3 DEF InOrder
<1>5. ASSUME NEW e \in Members, e < p + 1
      PROVE  Executes(s, e) <=> (e \in AlwaysRun \/ ~FailedBefore(s, e))
  <2>0. e \in Nat
    BY SuitesAssumption DEF Members
  <2>1. FailedBefore(s, e) <=> FailedBefore(r, e)
    <3>1. FailedBefore(r, e) => FailedBefore(s, e)
      BY <1>1, <1>2 DEF FailedBefore
    <3>2. ASSUME FailedBefore(s, e) PROVE FailedBefore(r, e)
      <4>1. PICK i \in 1..Len(s) : ~s[i].ok /\ s[i].of < e
        BY <3>2 DEF FailedBefore
      <4>2. i # Len(r) + 1
        BY <1>1, <1>2, <1>5, <2>0, <4>1
      <4> QED
        BY <1>2, <1>3, <4>1, <4>2 DEF FailedBefore
    <3> QED
      BY <3>1, <3>2
  <2>2. CASE e < p
    <3>1. Executes(s, e) <=> Executes(r, e)
      <4>1. Executes(r, e) => Executes(s, e)
        BY <1>1, <1>2 DEF Executes
      <4>2. ASSUME Executes(s, e) PROVE Executes(r, e)
        <5>1. PICK i \in 1..Len(s) : s[i].of = e
          BY <4>2 DEF Executes
        <5>2. i # Len(r) + 1
          BY <1>1, <1>2, <2>0, <2>2, <5>1
        <5> QED
          BY <1>2, <1>3, <5>1, <5>2 DEF Executes
      <4> QED
        BY <4>1, <4>2
    <3> QED
      BY <2>1, <2>2, <3>1 DEF SkippedAfterFailure
  <2>3. CASE e = p
    <3>1. Executes(s, e)
      BY <1>1, <1>2, <2>3 DEF Executes
    <3>2. e \in AlwaysRun \/ ~FailedBefore(r, e)
      BY <2>3 DEF FailedBefore
    <3> QED
      BY <2>1, <3>1, <3>2
  <2> QED
    BY <1>1, <1>5, <2>0, <2>2, <2>3
<1> QED
  BY <1>2, <1>4, <1>5 DEF SkippedAfterFailure

\* Every endpoint was executed with success if and only if no result is a failure.
LEMMA AllSucceeded ==
    ASSUME NEW r \in Results, InOrder(r, Length + 1), SkippedAfterFailure(r, Length + 1)
    PROVE  (\A i \in 1..Len(r) : r[i].ok) <=> \A e \in Members : \E i \in 1..Len(r) : r[i].of = e /\ r[i].ok
<1>1. /\ Len(r) \in Nat /\ Length \in Nat /\ \A i \in 1..Len(r) : r[i].of \in Members
      /\ \A e \in Members : e \in Nat /\ e < Length + 1
  BY ResultsAre
<1>2. ASSUME \A i \in 1..Len(r) : r[i].ok, NEW e \in Members PROVE \E i \in 1..Len(r) : r[i].of = e /\ r[i].ok
  <2>1. Executes(r, e)
    BY <1>1, <1>2 DEF SkippedAfterFailure, FailedBefore
  <2> QED
    BY <1>2, <2>1 DEF Executes
<1>3. ASSUME \A e \in Members : \E i \in 1..Len(r) : r[i].of = e /\ r[i].ok, NEW i \in 1..Len(r) PROVE r[i].ok
  <2>1. PICK j \in 1..Len(r) : r[j].of = r[i].of /\ r[j].ok
    BY <1>1, <1>3
  <2>2. ~(i < j) /\ ~(j < i)
    <3>1. r[i].of \in Nat /\ r[j].of \in Nat
      BY <1>1
    <3> QED
      BY <2>1, <3>1 DEF InOrder
  <2>3. i = j
    BY <1>1, <2>2
  <2> QED
    BY <2>1, <2>3
<1> QED
  BY <1>2, <1>3

\* As long as nothing was skipped, a result is at the position of its endpoint.
LEMMA AtItsPosition ==
    ASSUME NEW r \in Results, NEW p, InOrder(r, p), NEW i \in 1..Len(r), \A j \in 1..i : Executes(r, j)
    PROVE  r[i].of = i
<1>1. Len(r) \in Nat /\ i \in Nat /\ r[i].of \in Nat /\ r[i].of >= i /\ \A j \in 1..Len(r) : r[j].of \in Nat
  BY ResultsAre DEF InOrder
<1>2. ASSUME r[i].of # i PROVE FALSE
  <2> DEFINE at == [j \in 1..i |-> CHOOSE k \in 1..Len(r) : r[k].of = j]
  <2>1. \A j \in 1..i : at[j] \in 1..Len(r) /\ r[at[j]].of = j
    BY DEF Executes
  <2> HIDE DEF at
  <2>2. ASSUME NEW j \in 1..i PROVE at[j] \in 1..(i - 1)
    <3>1. r[at[j]].of < r[i].of
      BY <1>1, <1>2, <2>1
    <3>2. at[j] # i /\ ~(i < at[j])
      BY <1>1, <2>1, <3>1 DEF InOrder
    <3> QED
      BY <1>1, <2>1, <3>2
  <2>3. \A j, k \in 1..i : at[j] = at[k] => j = k
    BY <2>1
  <2>4. PICK f \in Injection(1..i, 1..(i - 1)) : TRUE
    <3> DEFINE f == [j \in 1..i |-> at[j]]
    <3>1. f \in [1..i -> 1..(i - 1)] /\ \A j, k \in 1..i : f[j] = f[k] => j = k
      BY <2>2, <2>3
    <3> HIDE DEF f
    <3>2. f \in Injection(1..i, 1..(i - 1))
      BY <3>1, Fun_IsInj
    <3> QED
      BY <3>2
  <2>5. /\ IsFiniteSet(1..(i - 1)) /\ Cardinality(1..(i - 1)) = i - 1 /\ Cardinality(1..i) = i
    <3>1. 1 \in Int /\ i \in Int /\ i - 1 \in Int /\ i >= 1
      BY <1>1
    <3>2. Cardinality(1..(i - 1)) = IF 1 > i - 1 THEN 0 ELSE (i - 1) - 1 + 1
      BY <3>1, FS_Interval
    <3>3. Cardinality(1..i) = IF 1 > i THEN 0 ELSE i - 1 + 1
      BY <3>1, FS_Interval
    <3>4. IsFiniteSet(1..(i - 1))
      BY <3>1, FS_Interval
    <3> QED
      BY <3>1, <3>2, <3>3, <3>4
  <2>6. Cardinality(1..i) <= Cardinality(1..(i - 1))
    BY <2>4, <2>5, FS_Injection
  <2> QED
    BY <1>1, <2>5, <2>6
<1> QED
  BY <1>2

-----------------------------------------------------------------------------
(* Steps of one goroutine *)

\* What belongs to the execution of a goroutine stays as it is.
SameExecution(h) ==
    /\ suitePc'[h] = suitePc[h] /\ results'[h] = results[h] /\ position'[h] = position[h] /\ muted'[h] = muted[h]
    /\ unsent'[h] = unsent[h] /\ success'[h] = success[h] /\ suiteError'[h] = suiteError[h]
    /\ suitePc[h] = "alerting" => flags'[h] = flags[h]

\* An execution that stays as it is knows what it knew.
LEMMA SameKeeps ==
    ASSUME NEW h \in Cycles, ExecutionInv(h), SameExecution(h)
    PROVE  ExecutionInv(h)'
BY DEF ExecutionInv, SameExecution, AlertsFollow, UnsentSoFar, HasFailed

\* An execution that has not begun knows nothing.
LEMMA IdleKnows ==
    ASSUME NEW h \in Cycles, suitePc'[h] \notin {"executing", "alerting"},
           results'[h] = <<>>, position'[h] = 1, muted'[h] = {}, unsent'[h] = {}
    PROVE  ExecutionInv(h)'
BY DEF ExecutionInv

\* A step of the goroutine g, which was born, within its execution
LEMMA StepKeeps ==
    ASSUME SuitesInv, NEW g \in Cycles, suitePc[g] # "unborn", cycle' = cycle, restored' = restored, cancelled' = cancelled,
           \A h \in Cycles \ {g} : SameExecution(h), SuitesTypeOK', SlotsInv', ExecutionInv(g)'
    PROVE  SuitesInv'
<1>1. \A h \in Cycles : ExecutionInv(h)'
  <2> SUFFICES ASSUME NEW h \in Cycles PROVE ExecutionInv(h)'
    OBVIOUS
  <2>1. CASE h = g
    BY <2>1 DEF ExecutionInv, AlertsFollow, UnsentSoFar, HasFailed
  <2>2. CASE h # g
    BY <2>2, SameKeeps DEF SuitesInv
  <2> QED
    BY <2>1, <2>2
<1> QED
  BY <1>1 DEF SuitesInv

-----------------------------------------------------------------------------
(* The slots of the semaphores *)

\* What the semaphores know of a goroutine stays as it is.
SameSlot(h) ==
    /\ suitePc'[h] \in Holding <=> suitePc[h] \in Holding
    /\ suitePc'[h] = "acquired" <=> suitePc[h] = "acquired"
    /\ suitePc[h] \in Holding => semaphore'[h] = semaphore[h]
    /\ suitePc'[h] = "acquiring" => semaphore'[h] <= cycle

\* The goroutines are finite sets.
LEMMA GoroutinesAre ==
    ASSUME NEW S, S \subseteq Cycles
    PROVE  /\ IsFiniteSet(S) /\ Cardinality(S) \in Nat
           /\ \A T \in SUBSET S : Cardinality(T) <= Cardinality(S) /\ Cardinality(T) \in Nat
           /\ \A g \in Cycles \ S : Cardinality(S \cup {g}) = Cardinality(S) + 1
           /\ \A g \in S : Cardinality(S \ {g}) = Cardinality(S) - 1
<1>1. IsFiniteSet(Cycles)
  BY SuitesAssumption, FS_Interval DEF Cycles
<1>2. IsFiniteSet(S)
  BY <1>1, FS_Subset
<1>3. Cardinality(S) \in Nat
  BY <1>2, FS_CardinalityType
<1>4. \A T \in SUBSET S : Cardinality(T) <= Cardinality(S) /\ Cardinality(T) \in Nat
  <2> SUFFICES ASSUME NEW T, T \subseteq S PROVE Cardinality(T) <= Cardinality(S) /\ Cardinality(T) \in Nat
    OBVIOUS
  <2>1. IsFiniteSet(T)
    BY <1>2, FS_Subset
  <2> QED
    BY <1>2, <2>1, FS_Subset, FS_CardinalityType
<1>5. \A g \in Cycles \ S : Cardinality(S \cup {g}) = Cardinality(S) + 1
  BY <1>2, FS_AddElement
<1>6. \A g \in S : Cardinality(S \ {g}) = Cardinality(S) - 1
  BY <1>2, FS_RemoveElement
<1> QED
  BY <1>2, <1>3, <1>4, <1>5, <1>6

\* The numbers of the cycles and the accounts of the semaphores are numbers.
LEMMA AccountsAre ==
    ASSUME SlotsInv
    PROVE  /\ Concurrency \in Nat \ {0} /\ MaxCycles \in Nat \ {0} /\ cycle \in Nat
           /\ \A s \in Cycles : /\ s \in Nat /\ s >= 1 /\ s <= MaxCycles /\ used[s] \in Nat /\ used[s] <= Concurrency
                                /\ others[s] \in Nat /\ stray[s] \in Nat /\ semaphore[s] \in Cycles /\ releases[s] \in Cycles
                                /\ semaphore[s] \in Nat /\ releases[s] \in Nat
                                /\ Holders(s) \subseteq Cycles /\ Straying(s) \subseteq Cycles
                                /\ Cardinality(Holders(s)) \in Nat /\ Cardinality(Straying(s)) \in Nat
<1>1. Concurrency \in Nat \ {0} /\ MaxCycles \in Nat \ {0} /\ cycle \in Nat /\ \A s \in Cycles : s \in Nat /\ s >= 1 /\ s <= MaxCycles
  BY SuitesAssumption DEF SlotsInv, Cycles
<1>2. \A s \in Cycles : Holders(s) \subseteq Cycles /\ Straying(s) \subseteq Cycles
  BY DEF Holders, Straying
<1>3. \A s \in Cycles : Cardinality(Holders(s)) \in Nat /\ Cardinality(Straying(s)) \in Nat
  BY <1>2, GoroutinesAre
<1>4. \A s \in Cycles : /\ used[s] \in Nat /\ used[s] <= Concurrency /\ others[s] \in Nat /\ stray[s] \in Nat
                        /\ semaphore[s] \in Cycles /\ releases[s] \in Cycles
  BY <1>1 DEF SlotsInv
<1> QED
  BY <1>1, <1>2, <1>3, <1>4

\* A step that no semaphore notices.
LEMMA SlotsSame ==
    ASSUME SlotsInv, UNCHANGED slots, cycle' = cycle, cancelled \subseteq cancelled',
           suitePc' \in [Cycles -> SuiteStages], semaphore' \in [Cycles -> Cycles],
           \A h \in Cycles : SameSlot(h), \A h \in Cycles : h > cycle => suitePc'[h] = "unborn"
    PROVE  SlotsInv'
<1>1. releases' = releases /\ used' = used /\ others' = others /\ stray' = stray
  BY DEF slots
<1>2. ASSUME NEW s \in Cycles PROVE Holders(s)' = Holders(s)
  BY DEF Holders, SameSlot
<1>3. ASSUME NEW s \in Cycles PROVE Straying(s)' = Straying(s)
  BY <1>1 DEF Straying, SameSlot
<1>4. \A g \in Cycles : suitePc'[g] \in Holding \cup {"acquiring"} => semaphore'[g] <= cycle
  BY DEF SlotsInv, SameSlot
<1>5. \A g \in Cycles : suitePc'[g] \in Deferred => semaphore'[g] <= releases'[g] /\ releases'[g] <= cycle
  <2> SUFFICES ASSUME NEW g \in Cycles, suitePc'[g] \in Deferred
               PROVE  semaphore'[g] <= releases'[g] /\ releases'[g] <= cycle
    OBVIOUS
  <2>1. suitePc[g] \in Deferred /\ semaphore'[g] = semaphore[g]
    BY DEF SameSlot, Holding, Deferred
  <2> QED
    BY <1>1, <2>1 DEF SlotsInv
<1>6. cycle' \in Cycles
  BY DEF SlotsInv
<1> QED
  BY <1>1, <1>2, <1>3, <1>4, <1>5, <1>6 DEF SlotsInv

\* A goroutine goes to another stage without a step of its execution.
LEMMA WaitingKeeps ==
    ASSUME SuitesInv, NEW g \in Cycles, NEW stage, stage \in SuiteStages \ {"executing", "alerting"},
           suitePc[g] \notin {"unborn", "executing", "alerting"},
           Goes(g, stage), executions' \in 0..MaxExecutions, SlotsInv',
           UNCHANGED <<cycle, restored, cancelled, execution, flags>>
    PROVE  SuitesInv'
<1>1. /\ suitePc' = [suitePc EXCEPT ![g] = stage] /\ cycle' = cycle /\ restored' = restored /\ cancelled' = cancelled
      /\ position' = position /\ results' = results /\ suiteError' = suiteError /\ success' = success
      /\ muted' = muted /\ unsent' = unsent /\ flags' = flags
  BY DEF Goes, execution
<1>2. SuitesTypeOK'
  BY <1>1 DEF SuitesInv, SuitesTypeOK, SlotsInv
<1>3. \A h \in Cycles \ {g} : SameExecution(h)
  BY <1>1 DEF SameExecution, SuitesInv, SuitesTypeOK
<1>4. ExecutionInv(g)'
  <2>1. results[g] = <<>> /\ position[g] = 1 /\ muted[g] = {} /\ unsent[g] = {}
    BY DEF SuitesInv, ExecutionInv
  <2>2. suitePc'[g] = stage
    BY <1>1 DEF SuitesInv, SuitesTypeOK
  <2> QED
    BY <1>1, <2>1, <2>2, IdleKnows
<1> QED
  BY <1>1, <1>2, <1>3, <1>4, StepKeeps

\* An execution begins or waits no more: no slot is taken or given back.
LEMMA OutsideKeeps ==
    ASSUME SuitesInv, NEW g \in Cycles, CallAcquire(g) \/ GiveUpSlot(g) \/ SuiteCancelled(g)
    PROVE  SuitesInv'
<1>1. /\ suitePc \in [Cycles -> SuiteStages] /\ semaphore \in [Cycles -> Cycles]
      /\ executions \in 0..MaxExecutions /\ cycle \in Cycles /\ MaxExecutions \in Nat
  BY SuitesAssumption DEF SuitesInv, SuitesTypeOK
<1>2. PICK stage, s : /\ stage \in {"waiting", "acquiring", "ended"} /\ suitePc[g] \in {"started", "acquiring", "waiting"}
                      /\ s \in Cycles /\ (stage = "acquiring" => s = cycle)
                      /\ Goes(g, stage) /\ UNCHANGED slots
                      /\ UNCHANGED <<cycle, restored, cancelled, execution, flags>>
                      /\ semaphore' = [semaphore EXCEPT ![g] = s]
                      /\ \/ executions' = executions
                         \/ executions < MaxExecutions /\ executions' = executions + 1
  <2>1. CASE CallAcquire(g)
    BY <1>1, <2>1 DEF CallAcquire
  <2>2. CASE GiveUpSlot(g)
    BY <1>1, <2>2 DEF GiveUpSlot
  <2>3. CASE SuiteCancelled(g)
    <3>1. semaphore' = [semaphore EXCEPT ![g] = semaphore[g]] /\ semaphore[g] \in Cycles
      BY <1>1, <2>3 DEF SuiteCancelled
    <3> QED
      BY <2>3, <3>1 DEF SuiteCancelled
  <2> QED
    BY <2>1, <2>2, <2>3
<1>3. /\ semaphore' \in [Cycles -> Cycles] /\ executions' \in 0..MaxExecutions /\ suitePc' \in [Cycles -> SuiteStages]
      /\ \A h \in Cycles : suitePc'[h] = IF h = g THEN stage ELSE suitePc[h]
      /\ \A h \in Cycles : semaphore'[h] = IF h = g THEN s ELSE semaphore[h]
  BY <1>1, <1>2 DEF Goes, SuiteStages
<1>4. SlotsInv'
  <2>0. cycle \in Nat /\ \A h \in Cycles : suitePc[h] = "acquiring" => semaphore[h] <= cycle
    BY AccountsAre DEF SuitesInv, SlotsInv
  <2>1. \A h \in Cycles : SameSlot(h)
    <3> SUFFICES ASSUME NEW h \in Cycles PROVE SameSlot(h)
      OBVIOUS
    <3>1. CASE h = g
      BY <1>2, <1>3, <2>0, <3>1 DEF SameSlot, Holding, Deferred
    <3>2. CASE h # g
      BY <1>3, <2>0, <3>2 DEF SameSlot
    <3> QED
      BY <3>1, <3>2
  <2>2. \A h \in Cycles : h > cycle => suitePc'[h] = "unborn"
    <3> SUFFICES ASSUME NEW h \in Cycles, h > cycle PROVE suitePc'[h] = "unborn"
      OBVIOUS
    <3>1. suitePc[h] = "unborn"
      BY DEF SuitesInv, SlotsInv
    <3> QED
      BY <1>2, <1>3, <3>1
  <2> QED
    BY <1>2, <1>3, <2>1, <2>2, SlotsSame DEF SuitesInv
<1> QED
  BY <1>2, <1>3, <1>4, WaitingKeeps DEF SuiteStages

\* A slot that is free is taken: of the semaphore in use, as the context of a former cycle is cancelled.
LEMMA TakeSlotKeeps ==
    ASSUME SuitesInv, NEW g \in Cycles, TakeSlot(g)
    PROVE  SuitesInv'
<1>1. /\ suitePc[g] = "acquiring" /\ semaphore[g] \notin cancelled /\ used[semaphore[g]] < Concurrency /\ Goes(g, "acquired")
      /\ used' = [used EXCEPT ![semaphore[g]] = used[semaphore[g]] + 1]
      /\ UNCHANGED <<cycle, restored, cancelled, execution, flags>>
      /\ cycle' = cycle /\ cancelled' = cancelled /\ semaphore' = semaphore /\ executions' = executions
      /\ releases' = releases /\ others' = others /\ stray' = stray
  BY DEF TakeSlot, SlotFree
<1>2. SlotsInv /\ executions \in 0..MaxExecutions
  BY DEF SuitesInv, SuitesTypeOK
<1>3. semaphore[g] = cycle
  <2>1. semaphore[g] <= cycle /\ semaphore[g] \in Cycles /\ ~(semaphore[g] < cycle)
    BY <1>1, <1>2 DEF SlotsInv
  <2> QED
    BY <1>2, <2>1, AccountsAre
<1>4. SlotsInv'
  <2>1. /\ suitePc' \in [Cycles -> SuiteStages] /\ used' \in [Cycles -> 0..Concurrency] /\ cycle \in Cycles
        /\ \A h \in Cycles : suitePc'[h] = IF h = g THEN "acquired" ELSE suitePc[h]
        /\ \A s \in Cycles : used'[s] = IF s = cycle THEN used[s] + 1 ELSE used[s]
    <3>1. used[cycle] + 1 \in 0..Concurrency /\ cycle \in Cycles
      BY <1>1, <1>2, <1>3, AccountsAre DEF SlotsInv
    <3> QED
      BY <1>1, <1>2, <1>3, <3>1 DEF Goes, SlotsInv, SuiteStages
  <2>2. ASSUME NEW s \in Cycles
        PROVE  Cardinality(Holders(s)') = IF s = cycle THEN Cardinality(Holders(s)) + 1 ELSE Cardinality(Holders(s))
    <3>1. CASE s = cycle
      <4>1. Holders(s)' = Holders(s) \cup {g} /\ g \notin Holders(s) /\ Holders(s) \subseteq Cycles
        BY <1>1, <1>3, <2>1, <3>1 DEF Holders, Holding, Deferred
      <4> QED
        BY <3>1, <4>1, GoroutinesAre
    <3>2. CASE s # cycle
      <4>1. Holders(s)' = Holders(s)
        BY <1>1, <1>3, <2>1, <3>2 DEF Holders, Holding, Deferred
      <4> QED
        BY <3>2, <4>1
    <3> QED
      BY <3>1, <3>2
  <2>3. ASSUME NEW s \in Cycles PROVE Straying(s)' = Straying(s)
    <3>1. ~(cycle < cycle)
      BY <1>2, AccountsAre
    <3>2. \A h \in Cycles : h \in Straying(s)' <=> h \in Straying(s)
      BY <1>1, <1>3, <2>1, <3>1 DEF Straying, Holding, Deferred
    <3> QED
      BY <3>2 DEF Straying
  <2>4. \A h \in Cycles : h > cycle => suitePc'[h] = "unborn"
    BY <1>1, <1>2, <2>1 DEF SlotsInv
  <2>5. /\ \A h \in Cycles : suitePc'[h] \in Holding \cup {"acquiring"} => semaphore[h] <= cycle
        /\ \A h \in Cycles : suitePc'[h] \in Deferred => semaphore[h] <= releases[h] /\ releases[h] <= cycle
    BY <1>1, <1>2, <2>1 DEF SlotsInv, Holding, Deferred
  <2>6. \A s \in Cycles : s > cycle => used'[s] = 0 /\ others[s] = 0 /\ stray[s] = 0
    BY <1>2, <2>1, AccountsAre DEF SlotsInv
  <2>7. ASSUME NEW s \in Cycles PROVE Cardinality(Holders(s)') + others[s] <= used'[s] + stray[s]
    <3>1. Cardinality(Holders(s)) + others[s] <= used[s] + stray[s]
      BY <1>2 DEF SlotsInv
    <3> QED
      BY <1>2, <2>1, <2>2, <3>1, AccountsAre
  <2>8. used'[cycle] + stray[cycle] = Cardinality(Holders(cycle)') + others[cycle]
    <3>1. used[cycle] + stray[cycle] = Cardinality(Holders(cycle)) + others[cycle] /\ cycle \in Cycles
      BY <1>2 DEF SlotsInv
    <3>2. used'[cycle] = used[cycle] + 1 /\ Cardinality(Holders(cycle)') = Cardinality(Holders(cycle)) + 1
      BY <1>1, <2>1, <2>2, <3>1
    <3>3. /\ used[cycle] \in Nat /\ stray[cycle] \in Nat /\ others[cycle] \in Nat
          /\ Cardinality(Holders(cycle)) \in Nat
      BY <1>2, <3>1, AccountsAre
    <3> QED
      BY <3>1, <3>2, <3>3
  <2>9. \A s \in Cycles : stray[s] + Cardinality(Straying(s)') < s
    BY <1>2, <2>3 DEF SlotsInv
  <2> QED
    BY <1>1, <1>2, <2>1, <2>4, <2>5, <2>6, <2>7, <2>8, <2>9 DEF SlotsInv
<1> QED
  BY <1>1, <1>2, <1>4, WaitingKeeps DEF SuiteStages

\* The Release is deferred, on the semaphore in use.
LEMMA DeferReleaseKeeps ==
    ASSUME SuitesInv, NEW g \in Cycles, DeferRelease(g)
    PROVE  SuitesInv'
<1>1. /\ suitePc[g] = "acquired" /\ Goes(g, "checking") /\ releases' = [releases EXCEPT ![g] = cycle]
      /\ UNCHANGED <<cycle, restored, cancelled, execution, flags>>
      /\ cycle' = cycle /\ cancelled' = cancelled /\ semaphore' = semaphore /\ executions' = executions
      /\ used' = used /\ others' = others /\ stray' = stray
  BY DEF DeferRelease, Deferring
<1>2. SlotsInv /\ executions \in 0..MaxExecutions /\ cycle \in Cycles
  BY DEF SuitesInv, SuitesTypeOK
<1>3. SlotsInv'
  <2>1. /\ suitePc' \in [Cycles -> SuiteStages] /\ releases' \in [Cycles -> Cycles]
        /\ \A h \in Cycles : suitePc'[h] = IF h = g THEN "checking" ELSE suitePc[h]
        /\ \A h \in Cycles : releases'[h] = IF h = g THEN cycle ELSE releases[h]
    BY <1>1, <1>2 DEF Goes, SlotsInv, SuiteStages
  <2>2. ASSUME NEW s \in Cycles PROVE Holders(s)' = Holders(s)
    BY <1>1, <2>1 DEF Holders, Holding, Deferred
  <2>3. ASSUME NEW s \in Cycles PROVE Straying(s)' = Straying(s)
    <3>1. \A h \in Cycles : h \in Straying(s)' <=> h \in Straying(s)
      BY <1>1, <2>1 DEF Straying, Holding, Deferred
    <3> QED
      BY <3>1 DEF Straying
  <2>4. \A h \in Cycles : h > cycle => suitePc'[h] = "unborn"
    BY <1>1, <1>2, <2>1 DEF SlotsInv
  <2>5. \A h \in Cycles : suitePc'[h] \in Holding \cup {"acquiring"} => semaphore[h] <= cycle
    BY <1>1, <1>2, <2>1 DEF SlotsInv, Holding
  <2>6. ASSUME NEW h \in Cycles, suitePc'[h] \in Deferred PROVE semaphore[h] <= releases'[h] /\ releases'[h] <= cycle
    <3>1. CASE h = g
      <4>1. semaphore[g] <= cycle /\ cycle <= cycle
        BY <1>1, <1>2, AccountsAre DEF SlotsInv, Holding
      <4> QED
        BY <2>1, <3>1, <4>1
    <3>2. CASE h # g
      BY <1>2, <2>1, <2>6, <3>2 DEF SlotsInv
    <3> QED
      BY <3>1, <3>2
  <2> QED
    BY <1>1, <1>2, <2>1, <2>2, <2>3, <2>4, <2>5, <2>6 DEF SlotsInv
<1> QED
  BY <1>1, <1>2, <1>3, WaitingKeeps DEF SuiteStages

\* A slot is given back, to the semaphore it was taken from or to another one.
LEMMA GivingKeeps ==
    ASSUME SlotsInv, NEW g \in Cycles, suitePc[g] \in Deferred, Goes(g, "waiting"), GiveSlotBack(g),
           cycle' = cycle, cancelled' = cancelled
    PROVE  SlotsInv'
<1> DEFINE s == releases[g]
<1>1. /\ suitePc' = [suitePc EXCEPT ![g] = "waiting"] /\ used[s] > 0 /\ used' = [used EXCEPT ![s] = used[s] - 1]
      /\ stray' = [stray EXCEPT ![s] = IF s = semaphore[g] THEN stray[s] ELSE stray[s] + 1]
      /\ releases' = [releases EXCEPT ![g] = g] /\ semaphore' = [semaphore EXCEPT ![g] = g] /\ others' = others
  BY DEF Goes, GiveSlotBack
<1>2. s \in Cycles /\ semaphore[g] <= s /\ s <= cycle /\ semaphore[g] \in Cycles /\ cycle \in Cycles
  BY DEF SlotsInv
<1>3. /\ \A h \in Cycles : suitePc'[h] = IF h = g THEN "waiting" ELSE suitePc[h]
      /\ \A h \in Cycles \ {g} : semaphore'[h] = semaphore[h] /\ releases'[h] = releases[h]
      /\ suitePc' \in [Cycles -> SuiteStages] /\ semaphore' \in [Cycles -> Cycles] /\ releases' \in [Cycles -> Cycles]
  BY <1>1 DEF SlotsInv, SuiteStages
<1>4. /\ used' \in [Cycles -> 0..Concurrency] /\ stray' \in [Cycles -> Nat]
      /\ \A r \in Cycles : used'[r] = IF r = s THEN used[r] - 1 ELSE used[r]
      /\ \A r \in Cycles : stray'[r] = IF r = s /\ r # semaphore[g] THEN stray[r] + 1 ELSE stray[r]
  <2>1. used[s] - 1 \in 0..Concurrency /\ stray[s] + 1 \in Nat /\ stray[s] \in Nat
    BY <1>1, <1>2, AccountsAre
  <2>2. used \in [Cycles -> 0..Concurrency] /\ stray \in [Cycles -> Nat]
    BY DEF SlotsInv
  <2> HIDE DEF s
  <2> QED
    BY <1>1, <1>2, <2>1, <2>2
<1> HIDE DEF s
<1>5. ASSUME NEW r \in Cycles
      PROVE  Cardinality(Holders(r)') = IF r = semaphore[g] THEN Cardinality(Holders(r)) - 1 ELSE Cardinality(Holders(r))
  <2>1. CASE r = semaphore[g]
    <3>1. Holders(r)' = Holders(r) \ {g} /\ g \in Holders(r) /\ Holders(r) \subseteq Cycles
      BY <1>3, <2>1 DEF Holders, Holding, Deferred
    <3> QED
      BY <2>1, <3>1, GoroutinesAre
  <2>2. CASE r # semaphore[g]
    <3>1. Holders(r)' = Holders(r)
      BY <1>3, <2>2 DEF Holders, Holding, Deferred
    <3> QED
      BY <2>2, <3>1
  <2> QED
    BY <2>1, <2>2
<1>6. ASSUME NEW r \in Cycles
      PROVE  Cardinality(Straying(r)') =
                 IF r = s /\ r # semaphore[g] THEN Cardinality(Straying(r)) - 1 ELSE Cardinality(Straying(r))
  <2>1. /\ \A h \in Cycles \ {g} : h \in Straying(r)' <=> h \in Straying(r)
        /\ g \notin Straying(r)' /\ Straying(r)' \subseteq Cycles /\ Straying(r) \subseteq Cycles
    BY <1>3 DEF Straying, Holding, Deferred
  <2>2. g \in Straying(r) <=> (r = s /\ semaphore[g] < r)
    BY DEF Straying, Holding, Deferred, s
  <2>3. (r = s /\ semaphore[g] < r) <=> (r = s /\ r # semaphore[g])
    BY <1>2, AccountsAre
  <2>4. CASE r = s /\ r # semaphore[g]
    <3>1. Straying(r)' = Straying(r) \ {g} /\ g \in Straying(r)
      BY <2>1, <2>2, <2>3, <2>4
    <3> QED
      BY <2>1, <2>4, <3>1, GoroutinesAre
  <2>5. CASE ~(r = s /\ r # semaphore[g])
    <3>1. Straying(r)' = Straying(r)
      BY <2>1, <2>2, <2>3, <2>5
    <3> QED
      BY <2>5, <3>1
  <2> QED
    BY <2>4, <2>5
<1>7. ASSUME NEW r \in Cycles PROVE Cardinality(Holders(r)') + others'[r] <= used'[r] + stray'[r]
  <2>1. Cardinality(Holders(r)) + others[r] <= used[r] + stray[r]
    BY DEF SlotsInv
  <2>2. used[s] > 0
    BY <1>1
  <2> QED
    BY <1>1, <1>2, <1>4, <1>5, <2>1, <2>2, AccountsAre
<1>8. used'[cycle] + stray'[cycle] = Cardinality(Holders(cycle)') + others'[cycle]
  <2>1. used[cycle] + stray[cycle] = Cardinality(Holders(cycle)) + others[cycle]
    BY DEF SlotsInv
  <2>2. semaphore[g] = cycle => s = cycle
    BY <1>2, AccountsAre
  <2> QED
    BY <1>1, <1>2, <1>4, <1>5, <2>1, <2>2, AccountsAre
<1>9. ASSUME NEW r \in Cycles PROVE stray'[r] + Cardinality(Straying(r)') < r
  <2>1. stray[r] + Cardinality(Straying(r)) < r
    BY DEF SlotsInv
  <2> QED
    BY <1>4, <1>6, <2>1, AccountsAre
<1>10. \A h \in Cycles : h > cycle => suitePc'[h] = "unborn"
  <2>1. suitePc[g] # "unborn"
    BY DEF Deferred
  <2> QED
    BY <1>3, <2>1 DEF SlotsInv
<1>11. /\ \A h \in Cycles : suitePc'[h] \in Holding \cup {"acquiring"} => semaphore'[h] <= cycle
       /\ \A h \in Cycles : suitePc'[h] \in Deferred => semaphore'[h] <= releases'[h] /\ releases'[h] <= cycle
  BY <1>3 DEF SlotsInv, Holding, Deferred
<1>12. \A r \in Cycles : r > cycle => used'[r] = 0 /\ others'[r] = 0 /\ stray'[r] = 0
  <2>1. \A r \in Cycles : r > cycle => r # s
    BY <1>2, AccountsAre
  <2> QED
    BY <1>1, <1>4, <2>1 DEF SlotsInv
<1> QED
  BY <1>1, <1>2, <1>3, <1>4, <1>7, <1>8, <1>9, <1>10, <1>11, <1>12 DEF SlotsInv

\* There is no connection.
LEMMA NoConnectivityKeeps ==
    ASSUME SuitesInv, NEW g \in Cycles, NoConnectivity(g)
    PROVE  SuitesInv'
<1>1. /\ suitePc[g] = "checking" /\ Goes(g, "waiting") /\ GiveSlotBack(g)
      /\ UNCHANGED <<cycle, restored, cancelled, execution, flags>>
      /\ cycle' = cycle /\ cancelled' = cancelled /\ executions' = executions
  BY DEF NoConnectivity
<1>2. SlotsInv'
  BY <1>1, GivingKeeps DEF SuitesInv, Deferred
<1>3. executions \in 0..MaxExecutions
  BY DEF SuitesInv, SuitesTypeOK
<1> QED
  BY <1>1, <1>2, <1>3, WaitingKeeps DEF SuiteStages

-----------------------------------------------------------------------------
(* A step of an execution *)

\* A step within an execution
LEMMA ExecutionKeeps ==
    ASSUME SuitesInv, NEW g \in Cycles, NEW stage \in {"executing", "alerting"},
           suitePc[g] \in Deferred, suitePc' = [suitePc EXCEPT ![g] = stage],
           UNCHANGED <<cycle, restored, cancelled, semaphore, slots, executions>>,
           \A h \in Cycles \ {g} : SameExecution(h), ExecutionInv(g)',
           position' \in [Cycles -> 1..Length + 1], results' \in [Cycles -> AtMost(EndpointResult, Length)],
           suiteError' \in [Cycles -> BOOLEAN], success' \in [Cycles -> BOOLEAN], muted' \in [Cycles -> SUBSET Members],
           unsent' \in [Cycles -> SUBSET Members], flags' \in [Cycles -> [Members -> BOOLEAN]]
    PROVE  SuitesInv'
<1>1. /\ suitePc \in [Cycles -> SuiteStages] /\ UNCHANGED <<cycle, cancelled, slots>> /\ semaphore' = semaphore
      /\ cycle' = cycle /\ restored' = restored /\ cancelled' = cancelled /\ executions' = executions
  BY DEF SuitesInv, SuitesTypeOK
<1>2. suitePc' \in [Cycles -> SuiteStages] /\ \A h \in Cycles : suitePc'[h] = IF h = g THEN stage ELSE suitePc[h]
  BY <1>1 DEF SuiteStages
<1>3. SuitesTypeOK'
  BY <1>1, <1>2 DEF SuitesInv, SuitesTypeOK, slots
<1>4. SlotsInv'
  <2>0. \A h \in Cycles : suitePc[h] = "acquiring" => semaphore[h] <= cycle
    BY DEF SuitesInv, SlotsInv
  <2>1. \A h \in Cycles : SameSlot(h)
    <3> SUFFICES ASSUME NEW h \in Cycles PROVE SameSlot(h)
      OBVIOUS
    <3>1. CASE h = g
      BY <1>1, <1>2, <3>1 DEF SameSlot, Holding, Deferred
    <3>2. CASE h # g
      BY <1>1, <1>2, <2>0, <3>2 DEF SameSlot
    <3> QED
      BY <3>1, <3>2
  <2>2. \A h \in Cycles : h > cycle => suitePc'[h] = "unborn"
    <3> SUFFICES ASSUME NEW h \in Cycles, h > cycle PROVE suitePc'[h] = "unborn"
      OBVIOUS
    <3>1. suitePc[h] = "unborn"
      BY DEF SuitesInv, SlotsInv
    <3>2. h # g
      BY <3>1 DEF Deferred
    <3> QED
      BY <1>2, <3>1, <3>2
  <2> QED
    BY <1>1, <1>2, <2>1, <2>2, SlotsSame DEF SuitesInv, SlotsInv
<1>5. suitePc[g] # "unborn"
  BY DEF Deferred
<1> QED
  BY <1>1, <1>3, <1>4, <1>5, StepKeeps

-----------------------------------------------------------------------------
(* The steps of an execution *)

\* The types, for the execution of a goroutine
LEMMA ExecutionTyped ==
    ASSUME SuitesInv, NEW g \in Cycles
    PROVE  /\ suitePc \in [Cycles -> SuiteStages]
           /\ position \in [Cycles -> 1..Length + 1] /\ results \in [Cycles -> AtMost(EndpointResult, Length)]
           /\ suiteError \in [Cycles -> BOOLEAN] /\ success \in [Cycles -> BOOLEAN] /\ muted \in [Cycles -> SUBSET Members]
           /\ flags \in [Cycles -> [Members -> BOOLEAN]] /\ unsent \in [Cycles -> SUBSET Members]
           /\ results[g] \in Results /\ Len(results[g]) \in Nat /\ Len(results[g]) <= Length
           /\ DOMAIN results[g] = 1..Len(results[g])
           /\ \A i \in 1..Len(results[g]) : i \in Members /\ results[g][i].ok \in BOOLEAN
           /\ position[g] \in Nat /\ position[g] >= 1 /\ position[g] <= Length + 1 /\ Length \in Nat \ {0}
           /\ (position[g] <= Length => position[g] \in Members)
           /\ (HasFailed(g) <=> \E i \in 1..Len(results[g]) : ~results[g][i].ok)
<1>1. /\ suitePc \in [Cycles -> SuiteStages]
      /\ position \in [Cycles -> 1..Length + 1] /\ results \in [Cycles -> AtMost(EndpointResult, Length)]
      /\ suiteError \in [Cycles -> BOOLEAN] /\ success \in [Cycles -> BOOLEAN] /\ muted \in [Cycles -> SUBSET Members]
      /\ flags \in [Cycles -> [Members -> BOOLEAN]] /\ unsent \in [Cycles -> SUBSET Members]
  BY DEF SuitesInv, SuitesTypeOK
<1>2. results[g] \in Results /\ Len(results[g]) \in Nat /\ Len(results[g]) <= Length
  <2>1. results[g] \in AtMost(EndpointResult, Length)
    BY <1>1
  <2> QED
    BY <2>1, AtMostIs, SuitesAssumption DEF Results
<1>3. DOMAIN results[g] = 1..Len(results[g])
  BY <1>2 DEF Results
<1>4. \A i \in 1..Len(results[g]) : i \in Members /\ results[g][i].ok \in BOOLEAN
  <2>1. \A i \in 1..Len(results[g]) : i \in 1..Length
    BY <1>2, SuitesAssumption
  <2> QED
    BY <1>2, <2>1, ResultsAre DEF Members
<1>5. /\ position[g] \in Nat /\ position[g] >= 1 /\ position[g] <= Length + 1 /\ Length \in Nat \ {0}
      /\ (position[g] <= Length => position[g] \in Members)
  BY <1>1, SuitesAssumption DEF Members
<1>6. HasFailed(g) <=> \E i \in 1..Len(results[g]) : ~results[g][i].ok
  BY <1>3 DEF HasFailed
<1> QED
  BY <1>1, <1>2, <1>3, <1>4, <1>5, <1>6

\* There is a connection: the first endpoint is next.
LEMMA BeginExecutionKeeps ==
    ASSUME SuitesInv, NEW g \in Cycles, BeginExecution(g)
    PROVE  SuitesInv'
<1>1. /\ suitePc[g] = "checking" /\ suitePc' = [suitePc EXCEPT ![g] = "executing"]
      /\ UNCHANGED <<cycle, restored, cancelled, semaphore, slots, executions>>
      /\ position' = position /\ results' = results /\ suiteError' = suiteError /\ success' = success /\ muted' = muted /\ unsent' = unsent
      /\ flags' = flags
  BY DEF BeginExecution, Goes, execution
<1>2. suitePc'[g] = "executing" /\ \A h \in Cycles \ {g} : SameExecution(h)
  BY <1>1, ExecutionTyped DEF SameExecution
<1>3. results[g] = <<>> /\ position[g] = 1 /\ muted[g] = {} /\ unsent[g] = {}
  BY <1>1 DEF SuitesInv, ExecutionInv
<1>4. ExecutionInv(g)'
  BY <1>1, <1>2, <1>3, NothingExecuted DEF ExecutionInv
<1> QED
  BY <1>1, <1>2, <1>4, ExecutionTyped, ExecutionKeeps DEF Deferred

\* An endpoint after a failure is skipped.
LEMMA SkipKeeps ==
    ASSUME SuitesInv, NEW g \in Cycles, Skip(g)
    PROVE  SuitesInv'
<1>1. /\ suitePc[g] = "executing" /\ position[g] <= Length /\ Skipped(g, position[g])
      /\ position' = [position EXCEPT ![g] = position[g] + 1]
      /\ UNCHANGED <<cycle, restored, cancelled, semaphore, slots, executions>>
      /\ suitePc' = suitePc /\ results' = results /\ suiteError' = suiteError /\ success' = success /\ muted' = muted /\ unsent' = unsent
      /\ flags' = flags
  BY DEF Skip
<1>2. /\ position'[g] = position[g] + 1 /\ position[g] \in Members /\ position' \in [Cycles -> 1..Length + 1]
      /\ suitePc' = [suitePc EXCEPT ![g] = "executing"] /\ suitePc'[g] = "executing"
      /\ \A h \in Cycles \ {g} : SameExecution(h)
  BY <1>1, ExecutionTyped DEF SameExecution
<1>3. InOrder(results[g], position[g] + 1) /\ SkippedAfterFailure(results[g], position[g] + 1) /\ muted[g] = {} /\ unsent[g] = {}
  <2>1. InOrder(results[g], position[g]) /\ SkippedAfterFailure(results[g], position[g]) /\ muted[g] = {} /\ unsent[g] = {}
    BY <1>1 DEF SuitesInv, ExecutionInv
  <2>2. position[g] \notin AlwaysRun /\ \E i \in 1..Len(results[g]) : ~results[g][i].ok
    BY <1>1, ExecutionTyped DEF Skipped
  <2>3. results[g] \in Results
    BY ExecutionTyped
  <2> QED
    BY <1>2, <2>1, <2>2, <2>3, SkipExtends
<1>4. ExecutionInv(g)'
  BY <1>1, <1>2, <1>3 DEF ExecutionInv
<1> QED
  BY <1>1, <1>2, <1>4, ExecutionTyped, ExecutionKeeps DEF Deferred

\* An endpoint is evaluated, in time or late.
LEMMA EvaluateKeeps ==
    ASSUME SuitesInv, NEW g \in Cycles, Evaluate(g)
    PROVE  SuitesInv'
<1>0. PICK ok \in BOOLEAN : results' = [results EXCEPT ![g] = Append(results[g], [of |-> position[g], ok |-> ok])]
  BY DEF Evaluate
<1>1. /\ suitePc[g] = "executing" /\ position[g] <= Length /\ ~Skipped(g, position[g])
      /\ position' = [position EXCEPT ![g] = position[g] + 1]
      /\ suiteError' = suiteError \/ suiteError' = [suiteError EXCEPT ![g] = TRUE]
      /\ UNCHANGED <<cycle, restored, cancelled, semaphore, slots, executions>>
      /\ suitePc' = suitePc /\ success' = success /\ muted' = muted /\ unsent' = unsent /\ flags' = flags
  BY DEF Evaluate
<1>2. PICK r : r = Append(results[g], [of |-> position[g], ok |-> ok])
  OBVIOUS
<1>3. /\ position'[g] = position[g] + 1 /\ position[g] \in Members /\ position' \in [Cycles -> 1..Length + 1]
      /\ suitePc' = [suitePc EXCEPT ![g] = "executing"] /\ suitePc'[g] = "executing"
      /\ suiteError' \in [Cycles -> BOOLEAN] /\ results' = [results EXCEPT ![g] = r] /\ results'[g] = r
      /\ \A h \in Cycles \ {g} : /\ position'[h] = position[h] /\ results'[h] = results[h] /\ suiteError'[h] = suiteError[h]
  <2>1. position'[g] = position[g] + 1 /\ position[g] \in Members /\ position' \in [Cycles -> 1..Length + 1]
    BY <1>1, ExecutionTyped
  <2>2. suitePc' = [suitePc EXCEPT ![g] = "executing"] /\ suitePc'[g] = "executing"
    BY <1>1, ExecutionTyped
  <2>3. results' = [results EXCEPT ![g] = r] /\ results'[g] = r
    BY <1>0, <1>2, ExecutionTyped
  <2>4. suiteError' \in [Cycles -> BOOLEAN] /\ \A h \in Cycles \ {g} : suiteError'[h] = suiteError[h]
    BY <1>1, ExecutionTyped
  <2>5. \A h \in Cycles \ {g} : position'[h] = position[h] /\ results'[h] = results[h]
    BY <1>1, <2>3, ExecutionTyped
  <2> QED
    BY <2>1, <2>2, <2>3, <2>4, <2>5
<1>4. \A h \in Cycles \ {g} : SameExecution(h)
  BY <1>1, <1>3 DEF SameExecution
<1>5. InOrder(results[g], position[g]) /\ SkippedAfterFailure(results[g], position[g]) /\ muted[g] = {} /\ unsent[g] = {}
  BY <1>1 DEF SuitesInv, ExecutionInv
<1>6. r \in Results /\ Len(r) = Len(results[g]) + 1 /\ InOrder(r, position[g] + 1) /\ SkippedAfterFailure(r, position[g] + 1)
  <2>1. (\A i \in 1..Len(results[g]) : results[g][i].ok) \/ position[g] \in AlwaysRun
    BY <1>1, ExecutionTyped DEF Skipped
  <2>2. results[g] \in Results
    BY ExecutionTyped
  <2> QED
    BY <1>2, <1>3, <1>5, <2>1, <2>2, EvaluateExtends
<1>7. results' \in [Cycles -> AtMost(EndpointResult, Length)]
  <2>1. Len(r) <= Length
    <3>1. Len(results[g]) < position[g] /\ Len(results[g]) \in Nat /\ position[g] \in Nat /\ position[g] <= Length
      BY <1>1, <1>5, ExecutionTyped DEF InOrder
    <3> QED
      BY <1>6, <3>1, SuitesAssumption
  <2>2. r \in AtMost(EndpointResult, Length)
    BY <1>6, <2>1, AtMostIs, SuitesAssumption DEF Results
  <2> QED
    BY <1>3, <2>2, ExecutionTyped
<1>8. ExecutionInv(g)'
  BY <1>1, <1>3, <1>5, <1>6 DEF ExecutionInv
<1> QED
  BY <1>1, <1>3, <1>4, <1>7, <1>8, ExecutionTyped, ExecutionKeeps DEF Deferred

\* The result is stored, and the alerts of its endpoints are looked at from the first one on.
LEMMA StoreSuiteResultKeeps ==
    ASSUME SuitesInv, NEW g \in Cycles, StoreSuiteResult(g)
    PROVE  SuitesInv'
<1>1. /\ suitePc[g] = "executing" /\ position[g] > Length /\ suitePc' = [suitePc EXCEPT ![g] = "alerting"]
      /\ success' = [success EXCEPT ![g] = CalculateSuccess(g)] /\ position' = [position EXCEPT ![g] = 1]
      /\ UNCHANGED <<cycle, restored, cancelled, semaphore, slots, executions>>
      /\ results' = results /\ suiteError' = suiteError /\ muted' = muted /\ unsent' = unsent /\ flags' = flags
  BY DEF StoreSuiteResult, Goes
<1>2. /\ position'[g] = 1 /\ position' \in [Cycles -> 1..Length + 1] /\ suitePc'[g] = "alerting"
      /\ success' \in [Cycles -> BOOLEAN] /\ (success'[g] <=> (~HasFailed(g) /\ ~suiteError[g])) /\ position[g] = Length + 1
  <2>1. CalculateSuccess(g) \in BOOLEAN /\ (CalculateSuccess(g) <=> (~HasFailed(g) /\ ~suiteError[g]))
    BY DEF CalculateSuccess
  <2>2. success' \in [Cycles -> BOOLEAN] /\ success'[g] = CalculateSuccess(g)
    BY <1>1, <2>1, ExecutionTyped
  <2>3. /\ position'[g] = 1 /\ position' \in [Cycles -> 1..Length + 1] /\ suitePc'[g] = "alerting"
        /\ position[g] = Length + 1
    BY <1>1, ExecutionTyped
  <2> QED
    BY <2>1, <2>2, <2>3
<1>3. \A h \in Cycles \ {g} : SameExecution(h)
  BY <1>1, ExecutionTyped DEF SameExecution
<1>4. InOrder(results[g], Length + 1) /\ SkippedAfterFailure(results[g], Length + 1)
  BY <1>1, <1>2 DEF SuitesInv, ExecutionInv
<1>5. AlertsFollow(g)'
  <2>1. \A i \in 1..Len(results[g]) : ~(i < 1)
    BY ExecutionTyped
  <2> QED
    BY <1>1, <1>2, <2>1 DEF AlertsFollow
<1>6. UnsentSoFar(g)'
  BY <1>1 DEF SuitesInv, ExecutionInv, UnsentSoFar
<1>7. ExecutionInv(g)'
  BY <1>1, <1>2, <1>4, <1>5, <1>6 DEF ExecutionInv, HasFailed
<1> QED
  BY <1>1, <1>2, <1>3, <1>7, ExecutionTyped, ExecutionKeeps DEF Deferred

\* The alert of an endpoint follows the result at its position, unless its notification was not sent.
LEMMA AlertMemberKeeps ==
    ASSUME SuitesInv, NEW g \in Cycles, AlertMember(g)
    PROVE  SuitesInv'
<1> DEFINE e == position[g]
           ok == results[g][e].ok
<1>1. e \in 1..Len(results[g]) /\ e \in Members /\ ok \in BOOLEAN /\ e \in Nat
  BY ExecutionTyped DEF AlertMember
<1>2. PICK flag \in BOOLEAN, more \in SUBSET {e} :
      /\ suitePc[g] = "alerting" /\ e <= Len(results[g])
      /\ position' = [position EXCEPT ![g] = e + 1]
      /\ flags' = [flags EXCEPT ![g] = [flags[g] EXCEPT ![e] = flag]]
      /\ unsent' = [unsent EXCEPT ![g] = unsent[g] \cup more]
      /\ (flag <=> ~ok /\ e \notin more)
      /\ UNCHANGED <<cycle, restored, cancelled, semaphore, slots, executions>>
      /\ suitePc' = suitePc /\ results' = results /\ suiteError' = suiteError /\ success' = success /\ muted' = muted
  <2>1. /\ suitePc[g] = "alerting" /\ e <= Len(results[g])
        /\ position' = [position EXCEPT ![g] = e + 1]
        /\ Resolve(g, e) \/ Trigger(g, e) \/ FailToTrigger(g, e)
        /\ UNCHANGED <<cycle, restored, cancelled, semaphore, slots, executions>>
        /\ suitePc' = suitePc /\ results' = results /\ suiteError' = suiteError /\ success' = success /\ muted' = muted
    BY DEF AlertMember
  <2>2. /\ flags \in [Cycles -> [Members -> BOOLEAN]] /\ unsent \in [Cycles -> SUBSET Members]
        /\ flags[g] \in [Members -> BOOLEAN] /\ unsent[g] \cup {} = unsent[g]
    BY ExecutionTyped
  <2> HIDE DEF e
  <2>3. unsent = [unsent EXCEPT ![g] = unsent[g]] /\ flags = [flags EXCEPT ![g] = [flags[g] EXCEPT ![e] = flags[g][e]]]
    BY <1>1, <2>2
  <2>4. CASE Resolve(g, e)
    <3>1. ok /\ FALSE \in BOOLEAN /\ {} \in SUBSET {e} /\ flags' = [flags EXCEPT ![g] = [flags[g] EXCEPT ![e] = FALSE]] /\ unsent' = [unsent EXCEPT ![g] = unsent[g] \cup {}]
      BY <2>2, <2>3, <2>4 DEF Resolve, ResultFor
    <3> HIDE DEF ok
    <3> QED
      BY <2>1, <3>1
  <2>5. CASE Trigger(g, e)
    <3>1. ~ok /\ TRUE \in BOOLEAN /\ {} \in SUBSET {e} /\ flags' = [flags EXCEPT ![g] = [flags[g] EXCEPT ![e] = TRUE]] /\ unsent' = [unsent EXCEPT ![g] = unsent[g] \cup {}]
      BY <2>2, <2>3, <2>5 DEF Trigger, ResultFor
    <3> HIDE DEF ok
    <3> QED
      BY <2>1, <3>1
  <2>6. CASE FailToTrigger(g, e)
    <3>1. /\ FALSE \in BOOLEAN /\ {e} \in SUBSET {e} /\ e \in {e}
          /\ flags' = [flags EXCEPT ![g] = [flags[g] EXCEPT ![e] = FALSE]] /\ unsent' = [unsent EXCEPT ![g] = unsent[g] \cup {e}]
      <4>1. flags[g][e] = FALSE /\ flags' = flags /\ unsent' = [unsent EXCEPT ![g] = unsent[g] \cup {e}]
        BY <1>1, <2>2, <2>6 DEF FailToTrigger
      <4> QED
        BY <2>3, <4>1
    <3> HIDE DEF ok
    <3> QED
      BY <2>1, <3>1
  <2> QED
    BY <2>1, <2>4, <2>5, <2>6
<1> HIDE DEF e, ok
<1>3. /\ position'[g] = e + 1 /\ position' \in [Cycles -> 1..Length + 1]
      /\ suitePc' = [suitePc EXCEPT ![g] = "alerting"] /\ suitePc'[g] = "alerting"
      /\ unsent' \in [Cycles -> SUBSET Members] /\ unsent'[g] = unsent[g] \cup more
  <2>1. e + 1 \in 1..Length + 1
    BY <1>1, ExecutionTyped
  <2> QED
    BY <1>1, <1>2, <2>1, ExecutionTyped
<1>4. flags' \in [Cycles -> [Members -> BOOLEAN]] /\ flags'[g] = [flags[g] EXCEPT ![e] = flag]
  BY <1>1, <1>2, ExecutionTyped, ZenonT(60)
<1>5. \A h \in Cycles \ {g} : SameExecution(h)
  BY <1>2, ExecutionTyped DEF SameExecution
<1>6. /\ InOrder(results[g], Length + 1) /\ SkippedAfterFailure(results[g], Length + 1)
      /\ (success[g] <=> (~HasFailed(g) /\ ~suiteError[g])) /\ AlertsFollow(g) /\ UnsentSoFar(g)
  BY <1>2 DEF SuitesInv, ExecutionInv
<1>7. \A i \in unsent[g] : i < e /\ i \in Nat
  BY <1>1, <1>6, ExecutionTyped DEF UnsentSoFar, e, Members
<1>8. AlertsFollow(g)'
  <2> SUFFICES ASSUME NEW i \in 1..Len(results[g]), i < e + 1, i \notin muted[g]
               PROVE  flags'[g][i] <=> ~results[g][i].ok /\ i \notin unsent'[g]
    BY <1>2, <1>3 DEF AlertsFollow
  <2>1. i \in Members /\ flags[g] \in [Members -> BOOLEAN] /\ i \in Nat
    BY ExecutionTyped
  <2>2. CASE i = e
    <3>1. flags'[g][i] = flag /\ (i \in unsent'[g] <=> i \in more)
      BY <1>1, <1>3, <1>4, <1>7, <2>1, <2>2
    <3> QED
      BY <1>2, <2>2, <3>1 DEF ok
  <2>3. CASE i # e
    <3>1. i < e /\ flags'[g][i] = flags[g][i] /\ (i \in unsent'[g] <=> i \in unsent[g])
      BY <1>1, <1>3, <1>4, <2>1, <2>3
    <3> QED
      BY <1>6, <3>1 DEF AlertsFollow, e
  <2> QED
    BY <2>2, <2>3
<1>9. UnsentSoFar(g)'
  BY <1>1, <1>3, <1>7 DEF UnsentSoFar
<1>10. ExecutionInv(g)'
  BY <1>2, <1>3, <1>6, <1>8, <1>9 DEF ExecutionInv, HasFailed
<1> QED
  BY <1>2, <1>3, <1>4, <1>5, <1>10, ExecutionTyped, ExecutionKeeps DEF Deferred

\* The alert of an endpoint under maintenance is left as it is.
LEMMA UnderMaintenanceKeeps ==
    ASSUME SuitesInv, NEW g \in Cycles, UnderMaintenance(g)
    PROVE  SuitesInv'
<1>1. /\ suitePc[g] = "alerting" /\ position[g] <= Len(results[g])
      /\ position' = [position EXCEPT ![g] = position[g] + 1] /\ muted' = [muted EXCEPT ![g] = muted[g] \cup {position[g]}]
      /\ UNCHANGED <<cycle, restored, cancelled, semaphore, slots, executions>>
      /\ suitePc' = suitePc /\ results' = results /\ suiteError' = suiteError /\ success' = success
      /\ flags' = flags /\ unsent' = unsent
  BY DEF UnderMaintenance
<1>2. position[g] \in Members /\ position[g] + 1 \in 1..Length + 1 /\ position[g] \in Nat
  BY <1>1, ExecutionTyped
<1>3. /\ position'[g] = position[g] + 1 /\ position' \in [Cycles -> 1..Length + 1]
      /\ suitePc' = [suitePc EXCEPT ![g] = "alerting"] /\ suitePc'[g] = "alerting"
      /\ muted' \in [Cycles -> SUBSET Members] /\ muted'[g] = muted[g] \cup {position[g]}
  BY <1>1, <1>2, ExecutionTyped
<1>4. \A h \in Cycles \ {g} : SameExecution(h)
  BY <1>1, ExecutionTyped DEF SameExecution
<1>5. /\ InOrder(results[g], Length + 1) /\ SkippedAfterFailure(results[g], Length + 1)
      /\ (success[g] <=> (~HasFailed(g) /\ ~suiteError[g])) /\ AlertsFollow(g) /\ UnsentSoFar(g)
  BY <1>1 DEF SuitesInv, ExecutionInv
<1>6. AlertsFollow(g)'
  <2> SUFFICES ASSUME NEW i \in 1..Len(results[g]), i < position[g] + 1, i \notin muted[g], i # position[g]
               PROVE  flags[g][i] <=> ~results[g][i].ok /\ i \notin unsent[g]
    BY <1>1, <1>3 DEF AlertsFollow
  <2>1. i < position[g]
    BY <1>2
  <2> QED
    BY <1>5, <2>1 DEF AlertsFollow
<1>7. UnsentSoFar(g)'
  <2>1. \A i \in unsent[g] : i \in Nat /\ i < position[g]
    BY <1>5, ExecutionTyped DEF UnsentSoFar, Members
  <2> QED
    BY <1>1, <1>2, <1>3, <2>1 DEF UnsentSoFar
<1>8. ExecutionInv(g)'
  BY <1>1, <1>3, <1>5, <1>6, <1>7 DEF ExecutionInv, HasFailed
<1> QED
  BY <1>1, <1>3, <1>4, <1>8, ExecutionTyped, ExecutionKeeps DEF Deferred

\* The execution ends.
LEMMA ReleaseSlotKeeps ==
    ASSUME SuitesInv, NEW g \in Cycles, ReleaseSlot(g)
    PROVE  SuitesInv'
<1>1. /\ suitePc[g] = "alerting" /\ Goes(g, "waiting") /\ suitePc' = [suitePc EXCEPT ![g] = "waiting"] /\ GiveSlotBack(g)
      /\ position' = [position EXCEPT ![g] = 1] /\ results' = [results EXCEPT ![g] = <<>>]
      /\ suiteError' = [suiteError EXCEPT ![g] = FALSE] /\ success' = [success EXCEPT ![g] = TRUE]
      /\ muted' = [muted EXCEPT ![g] = {}] /\ unsent' = [unsent EXCEPT ![g] = {}]
      /\ cycle' = cycle /\ restored' = restored /\ cancelled' = cancelled /\ executions' = executions /\ flags' = flags
  BY DEF ReleaseSlot, Handled, Goes, NewExecution
<1>2. 1 \in 1..Length + 1 /\ <<>> \in AtMost(EndpointResult, Length)
  <2>1. <<>> \in Seq(EndpointResult) /\ Len(<<>>) = 0
    OBVIOUS
  <2>2. Length \in Nat /\ Len(<<>>) <= Length /\ 1 \in 1..Length + 1
    BY <2>1, SuitesAssumption
  <2>3. <<>> \in AtMost(EndpointResult, Length)
    BY <2>1, <2>2, AtMostIs
  <2> QED
    BY <2>2, <2>3
<1>3. /\ position' \in [Cycles -> 1..Length + 1] /\ results' \in [Cycles -> AtMost(EndpointResult, Length)]
      /\ suiteError' \in [Cycles -> BOOLEAN] /\ success' \in [Cycles -> BOOLEAN] /\ muted' \in [Cycles -> SUBSET Members]
      /\ unsent' \in [Cycles -> SUBSET Members]
      /\ suitePc'[g] = "waiting" /\ results'[g] = <<>> /\ position'[g] = 1 /\ muted'[g] = {} /\ unsent'[g] = {}
  BY <1>1, <1>2, ExecutionTyped
<1>4. \A h \in Cycles \ {g} : SameExecution(h)
  BY <1>1, ExecutionTyped DEF SameExecution
<1>5. ExecutionInv(g)'
  BY <1>3, IdleKnows
<1>6. SlotsInv'
  BY <1>1, GivingKeeps DEF SuitesInv, Deferred
<1>7. SuitesTypeOK'
  BY <1>1, <1>3, <1>6 DEF SuitesInv, SuitesTypeOK, SlotsInv
<1> QED
  BY <1>1, <1>4, <1>5, <1>6, <1>7, StepKeeps

-----------------------------------------------------------------------------
(* The rest of the application *)

\* A step that the executions do not notice: a context may be cancelled, the next object may have its alerts.
LEMMA ApplicationKeeps ==
    ASSUME SuitesInv, UNCHANGED <<cycle, suitePc, slots, execution>>, semaphore' = semaphore, executions' = executions,
           cancelled \subseteq cancelled', cancelled' \subseteq Cycles, restored' \in BOOLEAN,
           flags' \in [Cycles -> [Members -> BOOLEAN]],
           \A g \in Cycles : suitePc[g] = "alerting" => flags'[g] = flags[g],
           restored' => cycle < MaxCycles /\ cycle \in cancelled'
    PROVE  SuitesInv'
<1>1. /\ cycle' = cycle /\ suitePc' = suitePc /\ position' = position /\ results' = results
      /\ suiteError' = suiteError /\ success' = success /\ muted' = muted /\ unsent' = unsent
  BY DEF execution
<1>2. SuitesTypeOK'
  BY <1>1 DEF SuitesInv, SuitesTypeOK, slots
<1>3. SlotsInv'
  <2>0. SlotsInv
    BY DEF SuitesInv
  <2>1. \A h \in Cycles : SameSlot(h)
    BY <1>1, <2>0 DEF SameSlot, SlotsInv
  <2>2. /\ suitePc' \in [Cycles -> SuiteStages] /\ semaphore' \in [Cycles -> Cycles]
        /\ \A h \in Cycles : h > cycle => suitePc'[h] = "unborn"
    BY <1>1, <2>0 DEF SlotsInv
  <2> QED
    BY <1>1, <2>0, <2>1, <2>2, SlotsSame
<1>4. \A g \in Cycles : ExecutionInv(g)'
  BY <1>1, SameKeeps DEF SuitesInv, SameExecution
<1> QED
  BY <1>1, <1>2, <1>3, <1>4 DEF SuitesInv

\* A context is cancelled, which no execution looks at before it waits.
LEMMA CancelCycleKeeps ==
    ASSUME SuitesInv, CancelCycle
    PROVE  SuitesInv'
<1>1. /\ UNCHANGED <<cycle, suitePc, slots, execution>> /\ semaphore' = semaphore /\ executions' = executions
      /\ cancelled' = cancelled \cup {cycle} /\ restored' = restored /\ flags' = flags
  BY DEF CancelCycle
<1>2. /\ cycle \in Cycles /\ cancelled \subseteq Cycles /\ restored \in BOOLEAN /\ flags \in [Cycles -> [Members -> BOOLEAN]]
      /\ (restored => cycle < MaxCycles /\ cycle \in cancelled)
  BY DEF SuitesInv, SuitesTypeOK
<1> QED
  BY <1>1, <1>2, ApplicationKeeps

\* The alerts are restored into the object of the next cycle, whose goroutine does not exist yet.
LEMMA RestoreSuiteAlertsKeeps ==
    ASSUME SuitesInv, RestoreSuiteAlerts
    PROVE  SuitesInv'
<1>1. PICK rows \in RestoredRows :
      /\ UNCHANGED <<cycle, suitePc, slots, execution>> /\ semaphore' = semaphore /\ executions' = executions
      /\ cycle < MaxCycles /\ cycle \in cancelled /\ cancelled' = cancelled /\ restored' = TRUE
      /\ flags' = [flags EXCEPT ![cycle + 1] = [e \in Members |-> e \in rows]]
  BY DEF RestoreSuiteAlerts
<1>2. /\ flags \in [Cycles -> [Members -> BOOLEAN]] /\ cycle \in Cycles /\ cancelled \subseteq Cycles /\ cycle \in Nat
  <2>1. flags \in [Cycles -> [Members -> BOOLEAN]] /\ cycle \in Cycles /\ cancelled \subseteq Cycles
    BY DEF SuitesInv, SuitesTypeOK
  <2> QED
    BY <2>1, SuitesAssumption DEF Cycles
<1>3. flags' \in [Cycles -> [Members -> BOOLEAN]] /\ \A g \in Cycles : g # cycle + 1 => flags'[g] = flags[g]
  <2>1. PICK restoredFlags \in [Members -> BOOLEAN] : restoredFlags = [e \in Members |-> e \in rows]
    <3>1. \A e \in Members : (e \in rows) \in BOOLEAN
      OBVIOUS
    <3>2. [e \in Members |-> e \in rows] \in [Members -> BOOLEAN]
      BY <3>1, Zenon
    <3> QED
      BY <3>2, Zenon
  <2>2. flags' = [flags EXCEPT ![cycle + 1] = restoredFlags]
    BY <1>1, <2>1
  <2> QED
    BY <1>2, <2>2
<1>4. ASSUME NEW g \in Cycles, suitePc[g] = "alerting" PROVE flags'[g] = flags[g]
  <2>1. ~(g > cycle)
    BY <1>4 DEF SuitesInv, SlotsInv
  <2>2. g # cycle + 1
    BY <1>2, <2>1, SuitesAssumption DEF Cycles
  <2> QED
    BY <1>3, <2>2
<1> QED
  BY <1>1, <1>2, <1>3, <1>4, ApplicationKeeps

\* The next cycle has a goroutine, and a semaphore that nobody uses.
LEMMA MonitorSuitesKeeps ==
    ASSUME SuitesInv, MonitorSuites
    PROVE  SuitesInv'
<1>1. /\ restored /\ restored' = FALSE /\ cycle' = cycle + 1 /\ suitePc' = [suitePc EXCEPT ![cycle + 1] = "started"]
      /\ cancelled' = cancelled /\ flags' = flags /\ semaphore' = semaphore /\ executions' = executions
      /\ position' = position /\ results' = results /\ suiteError' = suiteError /\ success' = success
      /\ muted' = muted /\ unsent' = unsent
      /\ releases' = releases /\ used' = used /\ others' = others /\ stray' = stray
  BY DEF MonitorSuites, execution, slots
<1>2. SlotsInv /\ suitePc \in [Cycles -> SuiteStages]
  BY DEF SuitesInv, SuitesTypeOK
<1>3. /\ cycle \in Nat /\ cycle + 1 \in Cycles /\ cycle \in Cycles /\ cycle < cycle + 1 /\ MaxCycles \in Nat
      /\ cycle \in cancelled
  <2>1. cycle \in Cycles /\ cycle < MaxCycles /\ cycle \in cancelled
    BY <1>1 DEF SuitesInv, SuitesTypeOK
  <2> QED
    BY <2>1, SuitesAssumption DEF Cycles
<1>4. \A g \in Cycles : g \in Nat /\ (g > cycle + 1 => g > cycle) /\ (g < cycle + 1 <=> g <= cycle)
  BY <1>3 DEF Cycles
<1>5. /\ suitePc[cycle + 1] = "unborn" /\ suitePc' \in [Cycles -> SuiteStages]
      /\ \A g \in Cycles : suitePc'[g] = IF g = cycle + 1 THEN "started" ELSE suitePc[g]
  <2>1. suitePc[cycle + 1] = "unborn"
    BY <1>2, <1>3 DEF SlotsInv
  <2> QED
    BY <1>1, <1>2, <1>3, <2>1 DEF SuiteStages
<1>6. SuitesTypeOK'
  BY <1>1, <1>3, <1>5 DEF SuitesInv, SuitesTypeOK
<1>7. SlotsInv'
  <2>1. ASSUME NEW s \in Cycles PROVE Holders(s)' = Holders(s)
    BY <1>1, <1>5 DEF Holders, Holding, Deferred
  <2>2. ASSUME NEW g \in Cycles, suitePc[g] \in Holding PROVE semaphore[g] <= cycle /\ g <= cycle
    <3>1. semaphore[g] <= cycle /\ ~(g > cycle)
      BY <1>2, <2>2 DEF SlotsInv, Holding, Deferred
    <3> QED
      BY <1>3, <1>4, <3>1
  <2>3. ASSUME NEW s \in Cycles PROVE stray[s] + Cardinality(Straying(s)') < s
    <3>1. CASE s = cycle + 1
      <4>1. stray[s] = 0
        BY <1>2, <1>3, <3>1 DEF SlotsInv
      <4>2. Straying(s)' \subseteq 1..cycle
        BY <1>1, <1>3, <1>4, <1>5, <2>2 DEF Straying, Holding, Deferred, Cycles
      <4>3. Cardinality(1..cycle) = cycle /\ IsFiniteSet(1..cycle)
        <5>1. 1 \in Int /\ cycle \in Int /\ cycle >= 1
          BY <1>3 DEF Cycles
        <5>2. Cardinality(1..cycle) = IF 1 > cycle THEN 0 ELSE cycle - 1 + 1
          BY <5>1, FS_Interval
        <5>3. IsFiniteSet(1..cycle)
          BY <5>1, FS_Interval
        <5> QED
          BY <5>1, <5>2, <5>3
      <4>4. Cardinality(Straying(s)') <= cycle /\ Cardinality(Straying(s)') \in Nat
        BY <4>2, <4>3, FS_Subset, FS_CardinalityType
      <4> QED
        BY <1>3, <3>1, <4>1, <4>4
    <3>2. CASE s # cycle + 1
      <4>1. Straying(s)' \subseteq Straying(s) /\ Straying(s) \subseteq Cycles
        BY <1>1, <1>5, <3>2 DEF Straying, Holding, Deferred
      <4>2. Cardinality(Straying(s)') <= Cardinality(Straying(s)) /\ Cardinality(Straying(s)') \in Nat
        BY <4>1, GoroutinesAre
      <4>3. stray[s] + Cardinality(Straying(s)) < s
        BY <1>2 DEF SlotsInv
      <4> QED
        BY <1>2, <4>2, <4>3, AccountsAre
    <3> QED
      BY <3>1, <3>2
  <2>4. used'[cycle'] + stray'[cycle'] = Cardinality(Holders(cycle)') + others'[cycle']
    <3>1. PICK next \in Cycles : next = cycle + 1 /\ cycle' = next
      BY <1>1, <1>3
    <3>2. used[next] = 0 /\ stray[next] = 0 /\ others[next] = 0
      BY <1>2, <1>3, <3>1 DEF SlotsInv
    <3>3. Holders(cycle)' = {}
      <4>1. \A g \in Cycles : suitePc[g] \in Holding => semaphore[g] # next
        BY <1>3, <2>2, <3>1
      <4>2. \A g \in Cycles : ~(suitePc'[g] \in Holding /\ semaphore'[g] = next)
        BY <1>1, <1>5, <3>1, <4>1 DEF Holding, Deferred
      <4> QED
        BY <3>1, <4>2 DEF Holders
    <3>4. Cardinality({}) = 0
      BY FS_EmptySet
    <3> QED
      BY <1>1, <3>1, <3>2, <3>3, <3>4
  <2>5. /\ \A s \in Cycles : s < cycle + 1 => s \in cancelled
        /\ \A g \in Cycles : g > cycle + 1 => suitePc'[g] = "unborn"
        /\ \A s \in Cycles : s > cycle + 1 => used[s] = 0 /\ others[s] = 0 /\ stray[s] = 0
    <3>1. \A s \in Cycles : s < cycle + 1 => s < cycle \/ s = cycle
      BY <1>3, <1>4
    <3>2. \A g \in Cycles : g > cycle + 1 => g > cycle /\ g # cycle + 1
      BY <1>3, <1>4
    <3> QED
      BY <1>2, <1>3, <1>5, <3>1, <3>2 DEF SlotsInv
  <2>6. ASSUME NEW g \in Cycles, suitePc'[g] \in Holding \cup {"acquiring"} PROVE semaphore[g] <= cycle + 1
    <3>1. semaphore[g] <= cycle /\ semaphore[g] \in Nat
      BY <1>2, <1>5, <2>6, AccountsAre DEF SlotsInv, Holding, Deferred
    <3> QED
      BY <1>3, <3>1
  <2>7. ASSUME NEW g \in Cycles, suitePc'[g] \in Deferred PROVE semaphore[g] <= releases[g] /\ releases[g] <= cycle + 1
    <3>1. semaphore[g] <= releases[g] /\ releases[g] <= cycle /\ releases[g] \in Nat
      BY <1>2, <1>5, <2>7, AccountsAre DEF SlotsInv, Deferred
    <3> QED
      BY <1>3, <3>1
  <2>8. \A s \in Cycles : Cardinality(Holders(s)') + others[s] <= used[s] + stray[s]
    BY <1>2, <2>1 DEF SlotsInv
  <2>9. /\ suitePc' \in [Cycles -> SuiteStages] /\ semaphore' \in [Cycles -> Cycles] /\ releases' \in [Cycles -> Cycles]
        /\ used' \in [Cycles -> 0..Concurrency] /\ others' \in [Cycles -> Nat] /\ stray' \in [Cycles -> Nat]
        /\ cycle' \in Cycles
    BY <1>1, <1>2, <1>3, <1>5 DEF SlotsInv
  <2>10. \A s \in Cycles : Cardinality(Holders(s)') + others'[s] <= used'[s] + stray'[s]
    BY <1>1, <2>8
  <2>11. /\ \A s \in Cycles : s < cycle' => s \in cancelled'
         /\ \A g \in Cycles : g > cycle' => suitePc'[g] = "unborn"
         /\ \A s \in Cycles : s > cycle' => used'[s] = 0 /\ others'[s] = 0 /\ stray'[s] = 0
    BY <1>1, <2>5
  <2>12. /\ \A g \in Cycles : suitePc'[g] \in Holding \cup {"acquiring"} => semaphore'[g] <= cycle'
         /\ \A g \in Cycles : suitePc'[g] \in Deferred => semaphore'[g] <= releases'[g] /\ releases'[g] <= cycle'
    BY <1>1, <2>6, <2>7
  <2>13. \A s \in Cycles : stray'[s] + Cardinality(Straying(s)') < s
    BY <1>1, <2>3
  <2> QED
    BY <2>4, <2>9, <2>10, <2>11, <2>12, <2>13 DEF SlotsInv
<1>8. ASSUME NEW g \in Cycles PROVE ExecutionInv(g)'
  <2>1. CASE g = cycle + 1
    <3>1. results[g] = <<>> /\ position[g] = 1 /\ muted[g] = {} /\ unsent[g] = {}
      BY <1>5, <2>1 DEF SuitesInv, ExecutionInv
    <3>2. suitePc'[g] = "started"
      BY <1>5, <2>1
    <3> QED
      BY <1>1, <3>1, <3>2, IdleKnows
  <2>2. CASE g # cycle + 1
    <3>1. SameExecution(g)
      BY <1>1, <1>5, <2>2 DEF SameExecution
    <3> QED
      BY <3>1, SameKeeps DEF SuitesInv
  <2> QED
    BY <2>1, <2>2
<1> QED
  BY <1>1, <1>6, <1>7, <1>8 DEF SuitesInv

\* The endpoints take a slot of the semaphore in use, or give theirs back.
LEMMA EndpointSlotsKeep ==
    ASSUME SuitesInv, EndpointTakesSlot \/ \E s \in Cycles : EndpointReleasesSlot(s)
    PROVE  SuitesInv'
<1>1. /\ UNCHANGED <<cycle, restored, cancelled, suitePc, semaphore, releases, stray, execution, flags, executions>>
      /\ cycle' = cycle /\ restored' = restored /\ cancelled' = cancelled /\ suitePc' = suitePc
      /\ semaphore' = semaphore /\ releases' = releases /\ stray' = stray /\ flags' = flags /\ executions' = executions
      /\ position' = position /\ results' = results /\ suiteError' = suiteError /\ success' = success
      /\ muted' = muted /\ unsent' = unsent
  BY DEF EndpointTakesSlot, EndpointReleasesSlot, execution
<1>2. SlotsInv
  BY DEF SuitesInv
<1>3. PICK s \in Cycles : /\ s <= cycle
                          /\ \/ /\ used[s] < Concurrency /\ used' = [used EXCEPT ![s] = used[s] + 1]
                                /\ others' = [others EXCEPT ![s] = others[s] + 1]
                             \/ /\ others[s] > 0 /\ used[s] > 0 /\ used' = [used EXCEPT ![s] = used[s] - 1]
                                /\ others' = [others EXCEPT ![s] = others[s] - 1]
  <2>1. CASE EndpointTakesSlot
    <3>1. cycle \in Cycles /\ cycle <= cycle
      BY <1>2, AccountsAre DEF SlotsInv
    <3> QED
      BY <2>1, <3>1 DEF EndpointTakesSlot, SlotFree
  <2>2. CASE \E s \in Cycles : EndpointReleasesSlot(s)
    <3>1. PICK s \in Cycles : EndpointReleasesSlot(s)
      BY <2>2
    <3>2. others[s] > 0
      BY <3>1 DEF EndpointReleasesSlot
    <3>3. s <= cycle
      <4>1. ~(s > cycle)
        BY <1>2, <3>2, AccountsAre DEF SlotsInv
      <4> QED
        BY <1>2, <4>1, AccountsAre
    <3> QED
      BY <3>1, <3>3 DEF EndpointReleasesSlot
  <2> QED
    BY <2>1, <2>2
<1>4. /\ used' \in [Cycles -> 0..Concurrency] /\ others' \in [Cycles -> Nat]
      /\ \A r \in Cycles : r # s => used'[r] = used[r] /\ others'[r] = others[r]
      /\ \/ used'[s] = used[s] + 1 /\ others'[s] = others[s] + 1
         \/ used'[s] = used[s] - 1 /\ others'[s] = others[s] - 1
  <2>1. used \in [Cycles -> 0..Concurrency] /\ others \in [Cycles -> Nat]
    BY <1>2 DEF SlotsInv
  <2>2. used[s] \in Nat /\ used[s] <= Concurrency /\ others[s] \in Nat /\ Concurrency \in Nat
    BY <1>2, AccountsAre
  <2>3. CASE used[s] < Concurrency /\ used' = [used EXCEPT ![s] = used[s] + 1] /\ others' = [others EXCEPT ![s] = others[s] + 1]
    <3>1. used[s] + 1 \in 0..Concurrency /\ others[s] + 1 \in Nat
      BY <2>2, <2>3
    <3> QED
      BY <2>1, <2>3, <3>1
  <2>4. CASE /\ others[s] > 0 /\ used[s] > 0 /\ used' = [used EXCEPT ![s] = used[s] - 1]
             /\ others' = [others EXCEPT ![s] = others[s] - 1]
    <3>1. used[s] - 1 \in 0..Concurrency /\ others[s] - 1 \in Nat
      BY <2>2, <2>4
    <3> QED
      BY <2>1, <2>4, <3>1
  <2> QED
    BY <1>3, <2>3, <2>4
<1>5. SuitesTypeOK'
  BY <1>1, <1>4 DEF SuitesInv, SuitesTypeOK
<1>6. SlotsInv'
  <2>1. \A r \in Cycles : Holders(r)' = Holders(r) /\ Straying(r)' = Straying(r)
    BY <1>1 DEF Holders, Straying
  <2>2. ASSUME NEW r \in Cycles PROVE Cardinality(Holders(r)') + others'[r] <= used'[r] + stray[r]
    <3>1. Cardinality(Holders(r)) + others[r] <= used[r] + stray[r] /\ Holders(r)' = Holders(r)
      BY <1>2, <2>1 DEF SlotsInv
    <3>2. /\ used[r] \in Nat /\ stray[r] \in Nat /\ others[r] \in Nat /\ Cardinality(Holders(r)) \in Nat
      BY <1>2, AccountsAre
    <3>3. \/ used'[r] = used[r] /\ others'[r] = others[r]
          \/ used'[r] = used[r] + 1 /\ others'[r] = others[r] + 1
          \/ used'[r] = used[r] - 1 /\ others'[r] = others[r] - 1
      BY <1>4
    <3> QED
      BY <3>1, <3>2, <3>3
  <2>3. used'[cycle] + stray[cycle] = Cardinality(Holders(cycle)') + others'[cycle]
    <3>1. used[cycle] + stray[cycle] = Cardinality(Holders(cycle)) + others[cycle] /\ cycle \in Cycles
      BY <1>2 DEF SlotsInv
    <3>2. /\ used[cycle] \in Nat /\ stray[cycle] \in Nat /\ others[cycle] \in Nat
          /\ Cardinality(Holders(cycle)) \in Nat /\ Holders(cycle)' = Holders(cycle)
      BY <1>1, <1>2, <2>1, <3>1, AccountsAre
    <3>3. \/ used'[cycle] = used[cycle] /\ others'[cycle] = others[cycle]
          \/ used'[cycle] = used[cycle] + 1 /\ others'[cycle] = others[cycle] + 1
          \/ used'[cycle] = used[cycle] - 1 /\ others'[cycle] = others[cycle] - 1
      BY <1>4, <3>1
    <3> QED
      BY <3>1, <3>2, <3>3
  <2>4. \A r \in Cycles : r > cycle => used'[r] = 0 /\ others'[r] = 0 /\ stray[r] = 0
    <3>1. \A r \in Cycles : r > cycle => r # s
      BY <1>2, <1>3, AccountsAre
    <3> QED
      BY <1>2, <1>4, <3>1 DEF SlotsInv
  <2>5. \A r \in Cycles : stray[r] + Cardinality(Straying(r)') < r
    BY <1>2, <2>1 DEF SlotsInv
  <2> QED
    BY <1>1, <1>2, <1>4, <2>2, <2>3, <2>4, <2>5 DEF SlotsInv
<1>7. \A g \in Cycles : ExecutionInv(g)'
  BY <1>1, SameKeeps DEF SuitesInv, SameExecution
<1> QED
  BY <1>1, <1>5, <1>6, <1>7 DEF SuitesInv

\* After a panic nothing runs, and nobody holds a slot.
LEMMA PanicKeeps ==
    ASSUME SuitesInv, Panic
    PROVE  SuitesInv'
<1>1. /\ suitePc' = [g \in Cycles |-> IF g <= cycle THEN "ended" ELSE "unborn"]
      /\ cancelled' = cancelled \cup {cycle} /\ restored' = FALSE
      /\ used' = [s \in Cycles |-> 0] /\ others' = [s \in Cycles |-> 0] /\ stray' = [s \in Cycles |-> 0]
      /\ position' = [g \in Cycles |-> 1] /\ results' = [g \in Cycles |-> <<>>]
      /\ suiteError' = [g \in Cycles |-> FALSE] /\ success' = [g \in Cycles |-> TRUE]
      /\ muted' = [g \in Cycles |-> {}] /\ unsent' = [g \in Cycles |-> {}]
      /\ semaphore' = [g \in Cycles |-> g] /\ releases' = [g \in Cycles |-> g]
      /\ cycle' = cycle /\ flags' = flags /\ executions' = executions
  BY DEF Panic
<1>2. /\ cycle \in Cycles /\ cycle \in Nat /\ Concurrency \in Nat /\ Length \in Nat /\ cancelled \subseteq Cycles
      /\ \A s \in Cycles : s \in Nat /\ 0 < s
  <2>1. cycle \in Cycles /\ cancelled \subseteq Cycles
    BY DEF SuitesInv, SuitesTypeOK
  <2>2. \A s \in Cycles : s \in Nat /\ 0 < s
    BY SuitesAssumption DEF Cycles
  <2> QED
    BY <2>1, <2>2, SuitesAssumption
<1>3. <<>> \in AtMost(EndpointResult, Length) /\ 1 \in 1..Length + 1 /\ 0 \in 0..Concurrency
  <2>1. <<>> \in Seq(EndpointResult) /\ Len(<<>>) = 0
    OBVIOUS
  <2>2. Len(<<>>) <= Length /\ 1 \in 1..Length + 1 /\ 0 \in 0..Concurrency
    BY <1>2, <2>1
  <2> QED
    BY <1>2, <2>1, <2>2, AtMostIs
<1>4. \A g \in Cycles : suitePc'[g] \in {"ended", "unborn"} /\ (g > cycle => suitePc'[g] = "unborn")
  BY <1>1, <1>2
<1>5. SuitesTypeOK'
  <2>1. /\ suitePc' \in [Cycles -> SuiteStages] /\ semaphore' \in [Cycles -> Cycles] /\ releases' \in [Cycles -> Cycles]
        /\ used' \in [Cycles -> 0..Concurrency] /\ others' \in [Cycles -> Nat] /\ stray' \in [Cycles -> Nat]
    BY <1>1, <1>3 DEF SuiteStages
  <2>2. /\ position' \in [Cycles -> 1..Length + 1] /\ results' \in [Cycles -> AtMost(EndpointResult, Length)]
        /\ suiteError' \in [Cycles -> BOOLEAN] /\ success' \in [Cycles -> BOOLEAN]
        /\ muted' \in [Cycles -> SUBSET Members] /\ unsent' \in [Cycles -> SUBSET Members]
    BY <1>1, <1>3
  <2> QED
    BY <1>1, <1>2, <2>1, <2>2 DEF SuitesInv, SuitesTypeOK
<1>6. SlotsInv'
  <2>1. \A s \in Cycles : Holders(s)' = {} /\ Straying(s)' = {}
    BY <1>4 DEF Holders, Straying, Holding, Deferred
  <2>2. Cardinality({}) = 0
    BY FS_EmptySet
  <2>3. \A s \in Cycles : Cardinality(Holders(s)') = 0 /\ Cardinality(Straying(s)') = 0
    BY <2>1, <2>2
  <2>4. \A s \in Cycles : used'[s] = 0 /\ others'[s] = 0 /\ stray'[s] = 0
    BY <1>1
  <2>5. /\ \A s \in Cycles : Cardinality(Holders(s)') + others'[s] <= used'[s] + stray'[s]
        /\ used'[cycle] + stray'[cycle] = Cardinality(Holders(cycle)') + others'[cycle]
        /\ \A s \in Cycles : stray'[s] + Cardinality(Straying(s)') < s
    <3>1. \A s \in Cycles : Cardinality(Holders(s)') + others'[s] <= used'[s] + stray'[s]
      BY <2>3, <2>4
    <3>2. used'[cycle] + stray'[cycle] = Cardinality(Holders(cycle)') + others'[cycle]
      BY <1>1, <1>2, <2>3, <2>4
    <3>3. \A s \in Cycles : stray'[s] + Cardinality(Straying(s)') < s
      BY <1>2, <2>3, <2>4
    <3> QED
      BY <3>1, <3>2, <3>3
  <2>6. \A s \in Cycles : s < cycle => s \in cancelled'
    BY <1>1 DEF SuitesInv, SlotsInv
  <2>7. \A g \in Cycles : suitePc'[g] \notin Holding \cup {"acquiring"}
    BY <1>4 DEF Holding, Deferred
  <2> QED
    BY <1>1, <1>2, <1>4, <1>5, <2>4, <2>5, <2>6, <2>7 DEF SlotsInv, SuitesTypeOK, Holding
<1>7. ASSUME NEW g \in Cycles PROVE ExecutionInv(g)'
  <2>1. suitePc'[g] \notin {"executing", "alerting"}
    BY <1>4
  <2>2. results'[g] = <<>> /\ position'[g] = 1 /\ muted'[g] = {} /\ unsent'[g] = {}
    BY <1>1
  <2> QED
    BY <2>1, <2>2, IdleKnows
<1> QED
  BY <1>1, <1>5, <1>6, <1>7 DEF SuitesInv

-----------------------------------------------------------------------------

\* At first the goroutine of the first cycle has not read its semaphore.
LEMMA InitSuites == SuitesInit => SuitesInv
<1> SUFFICES ASSUME SuitesInit PROVE SuitesInv
  OBVIOUS
<1>1. /\ cycle = 1 /\ restored = FALSE /\ cancelled = {}
      /\ suitePc = [c \in Cycles |-> IF c = 1 THEN "started" ELSE "unborn"]
      /\ semaphore = [c \in Cycles |-> c] /\ releases = [c \in Cycles |-> c]
      /\ used = [c \in Cycles |-> 0] /\ others = [c \in Cycles |-> 0] /\ stray = [c \in Cycles |-> 0]
      /\ position = [c \in Cycles |-> 1]
      /\ results = [c \in Cycles |-> <<>>] /\ suiteError = [c \in Cycles |-> FALSE] /\ success = [c \in Cycles |-> TRUE]
      /\ flags = [c \in Cycles |-> [e \in Members |-> FALSE]]
      /\ executions = 0 /\ muted = [c \in Cycles |-> {}] /\ unsent = [c \in Cycles |-> {}]
  BY DEF SuitesInit
<1>2. /\ MaxCycles \in Nat \ {0} /\ Length \in Nat \ {0} /\ MaxExecutions \in Nat /\ Concurrency \in Nat \ {0}
      /\ 1 \in Cycles /\ 1 \in 1..Length + 1 /\ 0 \in 0..Concurrency /\ 0 \in 0..MaxExecutions
  BY SuitesAssumption DEF Cycles
<1>3. <<>> \in AtMost(EndpointResult, Length)
  <2>1. <<>> \in Seq(EndpointResult) /\ Len(<<>>) = 0
    OBVIOUS
  <2>2. Len(<<>>) <= Length
    BY <1>2, <2>1
  <2> QED
    BY <1>2, <2>1, <2>2, AtMostIs
<1>4. SuitesTypeOK
  BY <1>1, <1>2, <1>3 DEF SuitesTypeOK, SuiteStages
<1>5. SlotsInv
  <2>1. \A s \in Cycles : Holders(s) = {} /\ Straying(s) = {}
    BY <1>1 DEF Holders, Straying, Holding, Deferred
  <2>2. Cardinality({}) = 0
    BY FS_EmptySet
  <2>3. \A s \in Cycles : /\ Cardinality(Holders(s)) = 0 /\ Cardinality(Straying(s)) = 0
                          /\ used[s] = 0 /\ others[s] = 0 /\ stray[s] = 0 /\ s \in Nat /\ ~(s < 1) /\ 0 < s
    <3>1. \A s \in Cycles : s \in Nat /\ ~(s < 1) /\ 0 < s
      BY <1>2 DEF Cycles
    <3>2. \A s \in Cycles : used[s] = 0 /\ others[s] = 0 /\ stray[s] = 0
      BY <1>1
    <3> QED
      BY <2>1, <2>2, <3>1, <3>2
  <2>4. /\ \A s \in Cycles : Cardinality(Holders(s)) + others[s] <= used[s] + stray[s]
        /\ used[cycle] + stray[cycle] = Cardinality(Holders(cycle)) + others[cycle]
        /\ \A s \in Cycles : stray[s] + Cardinality(Straying(s)) < s
    BY <1>1, <1>2, <2>3
  <2>5. /\ suitePc \in [Cycles -> SuiteStages] /\ semaphore \in [Cycles -> Cycles] /\ releases \in [Cycles -> Cycles]
        /\ used \in [Cycles -> 0..Concurrency] /\ others \in [Cycles -> Nat] /\ stray \in [Cycles -> Nat]
        /\ cycle \in Cycles
    BY <1>1, <1>2 DEF SuiteStages
  <2>6. \A g \in Cycles : (g > cycle => suitePc[g] = "unborn") /\ suitePc[g] \notin Holding \cup {"acquiring"}
    BY <1>1, <1>2, <2>3 DEF Holding, Deferred
  <2> QED
    BY <1>1, <2>3, <2>4, <2>5, <2>6 DEF SlotsInv, Holding
<1>6. \A g \in Cycles : ExecutionInv(g)
  BY <1>1 DEF ExecutionInv
<1> QED
  BY <1>1, <1>4, <1>5, <1>6 DEF SuitesInv

\* The invariant is inductive.
LEMMA NextKeepsSuites == SuitesInv /\ [SuitesNext]_suiteVars => SuitesInv'
<1> SUFFICES ASSUME SuitesInv, [SuitesNext]_suiteVars PROVE SuitesInv'
  OBVIOUS
<1>1. ASSUME NEW g \in Cycles, SuiteStep(g) PROVE SuitesInv'
  BY <1>1, OutsideKeeps, TakeSlotKeeps, DeferReleaseKeeps, NoConnectivityKeeps, BeginExecutionKeeps, SkipKeeps, EvaluateKeeps, StoreSuiteResultKeeps,
     AlertMemberKeeps, UnderMaintenanceKeeps, ReleaseSlotKeeps DEF SuiteStep
<1>2. CASE CancelCycle
  BY <1>2, CancelCycleKeeps
<1>3. CASE RestoreSuiteAlerts
  BY <1>3, RestoreSuiteAlertsKeeps
<1>4. CASE MonitorSuites
  BY <1>4, MonitorSuitesKeeps
<1>5. CASE EndpointTakesSlot \/ \E s \in Cycles : EndpointReleasesSlot(s)
  BY <1>5, EndpointSlotsKeep
<1>6. CASE Panic
  BY <1>6, PanicKeeps
<1>7. CASE UNCHANGED suiteVars
  <2>1. /\ cancelled' = cancelled /\ restored' = restored /\ flags' = flags /\ semaphore' = semaphore /\ executions' = executions
        /\ UNCHANGED <<cycle, suitePc, slots, execution>>
    BY <1>7 DEF suiteVars
  <2> QED
    BY <2>1, ApplicationKeeps DEF SuitesInv, SuitesTypeOK
<1> QED
  BY <1>1, <1>2, <1>3, <1>4, <1>5, <1>6, <1>7 DEF SuitesNext

\* The invariant holds in every state.
LEMMA SuitesInvariance == SuitesSpec => []SuitesInv
<1> QED
  BY InitSuites, NextKeepsSuites, PTL DEF SuitesSpec

\* The invariant implies what a stored result tells.
LEMMA ResultsToldByInv ==
    ASSUME SuitesInv
    PROVE  ResultsTell
<1> SUFFICES ASSUME NEW g \in Cycles, suitePc[g] = "alerting"
             PROVE  LET Failed(i) == ~results[g][i].ok
                        Executed(e) == \E i \in DOMAIN results[g] : results[g][i].of = e
                    IN
                    /\ \A i, j \in DOMAIN results[g] : i < j => results[g][i].of < results[g][j].of
                    /\ \A e \in Members :
                          Executed(e) <=> e \in AlwaysRun \/ ~\E i \in DOMAIN results[g] : Failed(i) /\ results[g][i].of < e
                    /\ success[g] <=>
                          ~suiteError[g] /\ \A e \in Members : \E i \in DOMAIN results[g] : results[g][i].of = e /\ ~Failed(i)
  BY DEF ResultsTell
<1>1. PICK r : r = results[g]
  OBVIOUS
<1>2. r \in Results /\ DOMAIN r = 1..Len(r) /\ (HasFailed(g) <=> \E i \in 1..Len(r) : ~r[i].ok)
  BY <1>1, ExecutionTyped
<1>3. /\ InOrder(r, Length + 1) /\ SkippedAfterFailure(r, Length + 1)
      /\ (success[g] <=> (~HasFailed(g) /\ ~suiteError[g]))
  BY <1>1 DEF SuitesInv, ExecutionInv
<1>4. \A i, j \in 1..Len(r) : i < j => r[i].of < r[j].of
  BY <1>3 DEF InOrder
<1>5. ASSUME NEW e \in Members
      PROVE  (\E i \in 1..Len(r) : r[i].of = e)
                 <=> (e \in AlwaysRun \/ ~\E i \in 1..Len(r) : ~r[i].ok /\ r[i].of < e)
  <2>1. e < Length + 1
    BY <1>2, ResultsAre
  <2> QED
    BY <1>3, <2>1 DEF SkippedAfterFailure, Executes, FailedBefore
<1>6. success[g] <=> (~suiteError[g] /\ \A e \in Members : \E i \in 1..Len(r) : r[i].of = e /\ r[i].ok)
  BY <1>2, <1>3, AllSucceeded
<1> QED
  BY <1>1, <1>2, <1>4, <1>5, <1>6

\* It implies whose results the alerts follow.
LEMMA AlertedByInv ==
    ASSUME SuitesInv
    PROVE  AlertedUntilSkipped
<1> SUFFICES ASSUME NEW g \in Cycles, Handled(g), NEW i \in DOMAIN results[g] \ muted[g],
                    \A j \in 1..i : \E k \in DOMAIN results[g] : results[g][k].of = j
             PROVE  \E k \in DOMAIN results[g] :
                        results[g][k].of = i /\ (flags[g][i] <=> ~results[g][k].ok /\ i \notin unsent[g])
  BY DEF AlertedUntilSkipped
<1>1. /\ results[g] \in Results /\ DOMAIN results[g] = 1..Len(results[g]) /\ Len(results[g]) \in Nat
      /\ position[g] \in Nat
  BY ExecutionTyped
<1>2. InOrder(results[g], Length + 1) /\ AlertsFollow(g) /\ position[g] > Len(results[g])
  BY DEF Handled, SuitesInv, ExecutionInv
<1>3. i \in 1..Len(results[g]) /\ i < position[g] /\ i \notin muted[g]
  BY <1>1, <1>2
<1>4. results[g][i].of = i
  <2>1. \A j \in 1..i : Executes(results[g], j)
    BY <1>1 DEF Executes
  <2> QED
    BY <1>1, <1>2, <1>3, <2>1, AtItsPosition
<1>5. flags[g][i] <=> ~results[g][i].ok /\ i \notin unsent[g]
  BY <1>2, <1>3 DEF AlertsFollow
<1> QED
  BY <1>1, <1>3, <1>4, <1>5

\* The invariant implies the accounts of the semaphores.
LEMMA SlotsByInv ==
    ASSUME SuitesInv
    PROVE  SlotsBounded /\ SlotsKept /\ StrayBounded
<1>1. SlotsInv
  BY DEF SuitesInv
<1>2. SlotsBounded
  <2> SUFFICES ASSUME NEW s \in Cycles PROVE Cardinality(Holders(s)) + others[s] <= Concurrency + stray[s]
    BY DEF SlotsBounded
  <2>1. Cardinality(Holders(s)) + others[s] <= used[s] + stray[s]
    BY <1>1 DEF SlotsInv
  <2> QED
    BY <1>1, <2>1, AccountsAre
<1>3. SlotsKept
  BY <1>1 DEF SlotsKept, SlotsInv
<1>4. StrayBounded
  <2> SUFFICES ASSUME NEW s \in Cycles PROVE stray[s] < s
    BY DEF StrayBounded
  <2>1. stray[s] + Cardinality(Straying(s)) < s
    BY <1>1 DEF SlotsInv
  <2> QED
    BY <1>1, <2>1, AccountsAre
<1> QED
  BY <1>2, <1>3, <1>4

\* No semaphore has more holders than its weight, but for one slot at most that each goroutine of a former cycle gave it
\* (executeSuite reads monitoringSemaphore for Acquire and again for the deferred Release, Monitor replaces it in between),
\* and the one in use loses none; a stored result has the endpoints in their order, without those that come after a failure
\* and are not always run, and succeeds exactly if they all did in time (Execute, CalculateSuccess); and the alert of an
\* endpoint follows its own result, unless the notification failed, as far as nothing was skipped before it (the loop over
\* the results in executeSuite).
THEOREM SuitesAlwaysConsistent == SuitesSpec => []SuitesConsistent
<1>1. SuitesInv => SuitesTypeOK /\ SlotsBounded /\ SlotsKept /\ StrayBounded
  BY SlotsByInv DEF SuitesInv
<1>2. SuitesInv => ResultsTell /\ AlertedUntilSkipped
  BY ResultsToldByInv, AlertedByInv
<1>3. SuitesInv => SuitesConsistent
  BY <1>1, <1>2 DEF SuitesConsistent
<1> QED
  BY <1>3, SuitesInvariance, PTL
=============================================================================
