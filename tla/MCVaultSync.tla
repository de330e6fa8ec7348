---------------------------- MODULE MCVaultSync -----------------------------
(* TLC instances of VaultSync: a writes x, y, x; b writes x after a's first. *)
EXTENDS VaultSync

CONSTANTS a, b, x, y

V(m, n) == [d \in Devices |-> IF d = a THEN m ELSE n]

a1 == [dev |-> a, seq |-> 1, prev |-> 0, item |-> x, ctx |-> V(0, 0)]
a2 == [dev |-> a, seq |-> 2, prev |-> 1, item |-> y, ctx |-> V(0, 0)]
a3 == [dev |-> a, seq |-> 3, prev |-> 2, item |-> x, ctx |-> V(1, 0)]
b1 == [dev |-> b, seq |-> 1, prev |-> 0, item |-> x, ctx |-> V(1, 0)]

sx == [item |-> x, author |-> b, covered |-> V(3, 1)]
sy == [item |-> y, author |-> b, covered |-> V(2, 0)]

MCHistory   == {a1, a2, a3, b1}
MCSnapshots == {sx, sy}
MCBad       == {a1}
=============================================================================
