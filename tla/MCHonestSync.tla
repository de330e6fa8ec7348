---------------------------- MODULE MCHonestSync ----------------------------
(* TLC instances of HonestSync: a writes x, y, x; b writes x, y.    *)
EXTENDS HonestSync

CONSTANTS a, b, x, y

V(m, n) == [d \in Devices |-> IF d = a THEN m ELSE n]

a1 == [dev |-> a, seq |-> 1, prev |-> 0, item |-> x, ctx |-> V(0, 0)]
a2 == [dev |-> a, seq |-> 2, prev |-> 1, item |-> y, ctx |-> V(0, 0)]
a3 == [dev |-> a, seq |-> 3, prev |-> 2, item |-> x, ctx |-> V(1, 0)]
b1 == [dev |-> b, seq |-> 1, prev |-> 0, item |-> x, ctx |-> V(1, 0)]

b2 == [dev |-> b, seq |-> 2, prev |-> 1, item |-> y, ctx |-> V(2, 0)]

sx == [item |-> x, author |-> b, covered |-> V(3, 1)]
sy == [item |-> y, author |-> b, covered |-> V(2, 0)]
sz == [item |-> y, author |-> a, covered |-> V(2, 2)]

MCHistory     == {a1, a2, a3, b1, b2}
MCSnapshots   == {sx, sy, sz}
MCUnopenable  == {a1, b2}
MCCompactable == {a1, a2, b2}
MCRank        == V(1, 2)
=============================================================================
