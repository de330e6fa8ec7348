--------------------------- MODULE VersionVector ---------------------------
(***************************************************************************)
(* Version vectors and dots of the sync engine (rizzy-sync/src/vv.rs,      *)
(* dot.rs).  The code keeps a sorted list of non-zero entries; here a      *)
(* vector is the total function it stands for, a missing entry being 0.    *)
(* Anything with the fields dev and seq serves as a dot.                   *)
(***************************************************************************)
EXTENDS Naturals

CONSTANT Devices        \* the account's device ids

VV == [Devices -> Nat]

ZeroVV == [d \in Devices |-> 0]

\* VersionVector::covers: the dot's seq is at most its device's entry.
covers(vv, dot) == dot.seq <= vv[dot.dev]

\* VersionVector::add: the entry of the dot's device rises to its seq.
add(vv, dot) ==
  [vv EXCEPT ![dot.dev] = IF dot.seq > @ THEN dot.seq ELSE @]

join(v, w) == [d \in Devices |-> IF v[d] >= w[d] THEN v[d] ELSE w[d]]

meet(v, w) == [d \in Devices |-> IF v[d] <= w[d] THEN v[d] ELSE w[d]]

\* VersionVector::compare, "at most".
leq(v, w) == \A d \in Devices : v[d] <= w[d]
=============================================================================
