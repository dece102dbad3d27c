--------------------------- MODULE AlertIncidents ---------------------------
(***************************************************************************)
(* What the alerting of an endpoint promises whoever relies on it: each    *)
(* enabled alert has at most one incident at a time, opened while the      *)
(* endpoint fails and closed while it succeeds, that outlives the process. *)
(* Nothing is promised any more once the storage has failed.               *)
(***************************************************************************)
EXTENDS Naturals

CONSTANTS AlertCount, Configurations

VARIABLES
    incidents, \* the alerts with an ongoing incident
    health,    \* the last handled result: unknown, ok or bad
    reliable   \* whether every write and read of the storage has succeeded so far

Init == incidents = {} /\ health = "unknown" /\ reliable = TRUE

Observe(result) == health' = result /\ UNCHANGED incidents

Open(a) ==
    /\ health = "bad" /\ a \notin incidents
    /\ incidents' = incidents \cup {a}
    /\ UNCHANGED health

Close(a) ==
    /\ health = "ok" /\ a \in incidents
    /\ incidents' = incidents \ {a}
    /\ UNCHANGED health

\* The process ends before the incident it just opened is persisted
Lose(a) ==
    /\ health = "bad" /\ a \in incidents
    /\ incidents' = incidents \ {a}
    /\ UNCHANGED health

\* The endpoint starts again with a configuration that no longer has some of the alerts
Withdraw(configured) ==
    /\ incidents' = incidents \cap configured
    /\ UNCHANGED health

Promised ==
    \/ \E result \in {"ok", "bad"} : Observe(result)
    \/ \E a \in 1..AlertCount : Open(a) \/ Close(a) \/ Lose(a)
    \/ \E configured \in Configurations : Withdraw(configured)

\* The storage fails, or has failed before: incidents may be lost and may come back
Unreliable == reliable' = FALSE

Next == (Promised /\ UNCHANGED reliable) \/ Unreliable

Spec == Init /\ [][Next]_<<incidents, health, reliable>>

=============================================================================
