------------------------------ MODULE MCAlerting ------------------------------
(***************************************************************************)
(* Small instances of Alerting, with two alerts of different thresholds,   *)
(* and of Suites, with a suite of three endpoints whose last one is        *)
(* always-run.  Neither uses the other's state, so that a behaviour is one *)
(* of either.                                                              *)
(***************************************************************************)
EXTENDS Alerting, Suites

\* The first alert triggers and resolves early, the second one late
EarlyThenLate == <<1, 2>>
Both == <<2, 2>>
SameReminders == <<2, 2>>
UnequalReminders == <<2, 3>>
TellsFirst == <<TRUE, FALSE>>
OwnChecksums == <<1, 2>>
SharedChecksum == <<1, 1>>
Always == {{1, 2}}
Changing == {{1, 2}, {2}}
LastOne == {3}
NoneOrTwo == {{}, {1, 3}}

VARIABLE part

MCInit ==
    /\ Init /\ SuitesInit
    /\ \/ part = "endpoint"
       \/ part = "suite" /\ enabled = {1, 2}

AlertingStep == part = "endpoint" /\ Next /\ UNCHANGED <<part, suiteVars>>
SuitesStep == part = "suite" /\ SuitesNext /\ UNCHANGED <<part, vars>>
MCNext == AlertingStep \/ SuitesStep

\* A suite promises nothing of its progress: the fairness is that of the endpoint.
MCSpec == MCInit /\ [][MCNext]_<<part, vars, suiteVars>> /\ Fairness
=============================================================================
