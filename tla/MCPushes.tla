------------------------------- MODULE MCPushes -------------------------------
(***************************************************************************)
(* Small instances of Pushes and of PushTokens.  Neither uses the other's  *)
(* state, so that a behaviour is one of either: an external endpoint with  *)
(* one request, or two endpoints, two push keys and some configurations    *)
(* with up to two tokens.                                                  *)
(***************************************************************************)
EXTENDS Pushes, PushTokens

CONSTANTS p1, p2, e1, e2, n1, n2, a, b, g

OnePusher == {p1}
TwoKeys == {e1, e2}
TwoNames == {n1, n2}
TwoTokens == {a, b}
OneGenerated == {g}
\* The file has one of the keys and one of the endpoints, or two external endpoints with the same token
OnlyFirst(first, other, value) == [x \in {first, other} |-> IF x = first THEN value ELSE Nobody]
FileOfOne(external, active, key) ==
    [external |-> OnlyFirst(e1, e2, external), active |-> OnlyFirst(e1, e2, active), keys |-> OnlyFirst(n1, n2, key)]
FileOfTwo == [FileOfOne(a, Nobody, Nobody) EXCEPT !.external[e2] = a]
\* The token of an endpoint with the token of a push key
TokenPairs == {<<a, Nobody>>, <<b, Nobody>>, <<b, a>>}
SomeFiles ==
    {FileOfOne(Nobody, Nobody, key) : key \in {Nobody, a}} \cup {FileOfTwo}
        \cup {FileOfOne(pair[1], Nobody, pair[2]) : pair \in TokenPairs}
        \cup {FileOfOne(Nobody, pair[1], pair[2]) : pair \in TokenPairs}

VARIABLE part

MCInit ==
    /\ Init /\ TokensInit
    /\ \/ part = "pushes" /\ file = CHOOSE f \in Files : TRUE
       \/ part = "tokens" /\ ~inConfig /\ ~managed

PushesStep == part = "pushes" /\ Next /\ UNCHANGED <<part, tokenVars>>
TokensStep == part = "tokens" /\ TokensNext /\ UNCHANGED <<part, vars>>
MCNext == PushesStep \/ TokensStep

\* The time stands still in a behaviour of the tokens: the fairness is that of the pushes.
MCSpec == MCInit /\ [][MCNext]_<<part, vars, tokenVars>> /\ Fairness

\* The types of both, and nothing left behind
Consistent == TypeOK /\ TokensTypeOK /\ NothingLeftBehind
=============================================================================
