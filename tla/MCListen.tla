------------------------------ MODULE MCListen ------------------------------
(* Two nodes in one family and one in the other. *)
EXTENDS Listen, TLC

CONSTANTS l1, l2, v1, v2, a4, b4, a6

MCWants == [l \in Listener |-> IF l = l1 THEN Id ELSE {v1}]
MCFamilyOf == [n \in Node |-> IF n = a6 THEN IPv6 ELSE IPv4]
MCSymmetry == Permutations({a4, b4})

(* Two listeners and a value from every source; more values than a cache    *)
(* may hold, from IPv4 alone.                                               *)
MCScenes ==
    [up: SUBSET Family, room: BOOLEAN, values: {{v1}}, listeners: {{l1, l2}}]
    \cup [up: {{IPv4}}, room: {FALSE}, values: {{v1, v2}}, listeners: {{l1}}]
=============================================================================
