----------------------------- MODULE Compaction -----------------------------
(***************************************************************************)
(* The server's compaction rules for one item, as predicates over the sets *)
(* the code reads from its tables (rizzy-sync/src/compaction.rs): which    *)
(* snapshot covers which op, what R1 deletes, what R3 may drop, and what   *)
(* the server accepts before it stores.                                    *)
(*                                                                         *)
(* A retained snapshot is any record with the fields store (its store      *)
(* sequence), author and clamped.  "At least two distinct authors" is      *)
(* written with two witnesses rather than with a cardinality.              *)
(***************************************************************************)
EXTENDS VersionVector

\* The clamped VV: what a snapshot covers, cut at the heads when stored.
clamp(covered, heads) == meet(covered, heads)

Covers(s, dot) == covers(s.clamped, dot)

cover_authors(S, dot) == {s.author : s \in {t \in S : Covers(t, dot)}}

FewerThanTwo(A) == \A a, b \in A : a = b

TwoAuthors(S, dot) == ~FewerThanTwo(cover_authors(S, dot))

Covered(S, dot) == \E s \in S : Covers(s, dot)

\* by_store_seq, from the newest end: at most one snapshot is newer.
IsTwoNewest(S, s) ==
  ~ \E t, u \in S : s.store < t.store /\ t.store < u.store

\* The older of the two newest: exactly one snapshot is newer.
IsOlderOfTwoNewest(S, s) ==
  /\ IsTwoNewest(S, s)
  /\ \E t \in S : s.store < t.store

\* Mutant: any two covers will do, be they one author's.
r1_deletions_one_author(S, held) ==
  {dot \in held : \E s \in S : IsOlderOfTwoNewest(S, s) /\ Covers(s, dot)}

\* R1: the held bodies the older of the two newest covers and two authors
\* cover.
r1_deletions(S, held) ==
  {dot \in held : /\ \E s \in S : IsOlderOfTwoNewest(S, s) /\ Covers(s, dot)
                  /\ TwoAuthors(S, dot)}

\* Mutant: only a header that has two authors is protected.
lowers_from_two(S, s, dot) ==
  /\ TwoAuthors(S, dot)
  /\ FewerThanTwo(cover_authors(S \ {s}, dot))

\* Dropping s leaves dot with fewer authors, and fewer than two of them.
lowers_below_two(S, s, dot) ==
  LET with    == cover_authors(S, dot)
      without == cover_authors(S \ {s}, dot)
  IN FewerThanTwo(without) /\ without # with

\* R3's test of one older snapshot against the snapshots still retained.
Needed(S, s, bodiless) ==
  \E dot \in bodiless : Covers(s, dot) /\ lowers_below_two(S, s, dot)

\* A worker run over these rows would change nothing.
PlanEmpty(S, held, bodiless) ==
  /\ r1_deletions(S, held) = {}
  /\ \A s \in S : IsTwoNewest(S, s) \/ Needed(S, s, bodiless)

\* The server's acceptance of a snapshot against the heads and the cut-offs
\* of the revoked devices (a function on revoked).
check_snapshot(author, covered, heads, revoked, cutoff, expired) ==
  /\ author \notin revoked
  /\ author \notin expired
  /\ covered[author] <= heads[author]
  /\ \A d \in Devices :
       \/ covered[d] <= heads[d]
       \/ d \in revoked /\ cutoff[d] <= heads[d]

\* Every bodiless header a healing request stored has a cover.
check_healing_request(S, bodiless) ==
  \A dot \in bodiless : Covered(S, dot)
=============================================================================
