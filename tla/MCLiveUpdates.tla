---------------------------- MODULE MCLiveUpdates ----------------------------
(* Small instances of LiveUpdates: one or two pages, a stream more than the limits allow. *)
EXTENDS LiveUpdates

CONSTANTS k1, k2, c1, c2, s1, s2, s3, ip1, ip2

NoKeys == {}
OneKey == {k1}
TwoKeys == {k1, k2}
OnePage == {c1}
TwoPages == {c1, c2}
WatchOne == [c \in Pages |-> k1]
WatchTwo == [c \in Pages |-> IF c = c1 THEN k1 ELSE k2]
OneIP == {ip1}
TwoIPs == {ip1, ip2}
OwnIP == [c \in Pages |-> IF c = c1 THEN ip1 ELSE ip2]
SameIP == [c \in Pages |-> ip1]
OneStream == {s1}
TwoStreams == {s1, s2}
ThreeStreams == {s1, s2, s3}
\* One stream, with a crash and a removal; two streams, with a connection that is cut
Bounds(r, c, d, keys, streams) ==
    [results |-> r, cuts |-> c, crashes |-> d, removable |-> keys, requests |-> streams]
Faults == {Bounds(2, 0, 1, OneKey, OneStream), Bounds(1, 1, 0, NoKeys, TwoStreams)}
Cuts == {Bounds(2, 1, 0, NoKeys, TwoStreams)}
=============================================================================
