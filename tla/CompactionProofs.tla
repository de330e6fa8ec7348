-------------------------- MODULE CompactionProofs --------------------------
(***************************************************************************)
(* What R1 and R3 preserve, for any sets of snapshots and headers          *)
(* (rizzy-sync/src/compaction.rs).                                         *)
(***************************************************************************)
EXTENDS Compaction, TLAPS

\* Two authors that cover a header are at least one cover.
LEMMA TwoAuthorsCover ==
  ASSUME NEW S, NEW dot, TwoAuthors(S, dot)
  PROVE  Covered(S, dot)
  BY DEF TwoAuthors, FewerThanTwo, cover_authors, Covered

\* More snapshots cover at least what fewer did.
LEMMA CoverGrows ==
  ASSUME NEW S, NEW T, S \subseteq T, NEW dot
  PROVE  /\ Covered(S, dot) => Covered(T, dot)
         /\ TwoAuthors(S, dot) => TwoAuthors(T, dot)
  BY DEF TwoAuthors, FewerThanTwo, cover_authors, Covered

\* R3 drops a snapshot only when every bodiless header keeps a cover.
LEMMA DropKeepsCover ==
  ASSUME NEW S, NEW s \in S, NEW bodiless, NEW dot \in bodiless,
         ~Needed(S, s, bodiless), Covered(S, dot)
  PROVE  Covered(S \ {s}, dot)
  <1>1. CASE ~Covers(s, dot)
    BY <1>1 DEF Covered
  <1>2. CASE Covers(s, dot)
    <2>1. ~lowers_below_two(S, s, dot)
      BY <1>2 DEF Needed
    <2>2. CASE ~FewerThanTwo(cover_authors(S \ {s}, dot))
      BY <2>2, TwoAuthorsCover DEF TwoAuthors
    <2>3. CASE cover_authors(S \ {s}, dot) = cover_authors(S, dot)
      BY <1>2, <2>3 DEF cover_authors, Covered
    <2> QED BY <2>1, <2>2, <2>3 DEF lowers_below_two
  <1> QED BY <1>1, <1>2

\* R3 drops a snapshot only when a bodiless header with covers by two authors
\* keeps covers by two authors.
LEMMA DropKeepsTwo ==
  ASSUME NEW S, NEW s \in S, NEW bodiless, NEW dot \in bodiless,
         ~Needed(S, s, bodiless), TwoAuthors(S, dot)
  PROVE  TwoAuthors(S \ {s}, dot)
  <1>1. CASE ~Covers(s, dot)
    <2>1. cover_authors(S \ {s}, dot) = cover_authors(S, dot)
      BY <1>1 DEF cover_authors
    <2> QED BY <2>1 DEF TwoAuthors
  <1>2. CASE Covers(s, dot)
    BY <1>2 DEF Needed, lowers_below_two, TwoAuthors
  <1> QED BY <1>1, <1>2

\* A snapshot found needed stays needed as others are dropped ("R3 in one
\* pass"): testing each older snapshot once is enough.
LEMMA NeededStays ==
  ASSUME NEW S, NEW s \in S, NEW u \in S, s # u, NEW bodiless,
         Needed(S, s, bodiless)
  PROVE  Needed(S \ {u}, s, bodiless)
  <1>1. PICK dot \in bodiless : Covers(s, dot) /\ lowers_below_two(S, s, dot)
    BY DEF Needed
  <1> DEFINE A(T) == cover_authors(T, dot)
  <1>2. A(S) = A(S \ {s}) \cup {s.author}
    BY <1>1 DEF cover_authors
  <1>3. FewerThanTwo(A(S \ {s})) /\ s.author \notin A(S \ {s})
    BY <1>1, <1>2 DEF lowers_below_two
  <1>4. A((S \ {u}) \ {s}) \subseteq A(S \ {s})
    BY DEF cover_authors
  <1>5. s.author \in A(S \ {u})
    BY <1>1 DEF cover_authors
  <1>6. FewerThanTwo(A((S \ {u}) \ {s})) /\ A((S \ {u}) \ {s}) # A(S \ {u})
    BY <1>3, <1>4, <1>5 DEF FewerThanTwo
  <1> QED BY <1>1, <1>6 DEF Needed, lowers_below_two

\* Dropping a snapshot outside the two newest leaves the two newest as they
\* were.
LEMMA TwoNewestStay ==
  ASSUME NEW S, NEW u \in S, NEW s \in S \ {u},
         \A t \in S : t.store \in Nat,
         ~IsTwoNewest(S, u)
  PROVE  IsTwoNewest(S \ {u}, s) <=> IsTwoNewest(S, s)
  <1>1. PICK t, v \in S : u.store < t.store /\ t.store < v.store
    BY DEF IsTwoNewest
  <1>2. IsTwoNewest(S, s) => IsTwoNewest(S \ {u}, s)
    BY DEF IsTwoNewest
  <1>3. ASSUME NEW x \in S, NEW y \in S, s.store < x.store, x.store < y.store
        PROVE  ~IsTwoNewest(S \ {u}, s)
    <2>1. CASE x # u /\ y # u
      BY <1>3, <2>1 DEF IsTwoNewest
    <2>2. CASE x = u
      <3>1. t # u /\ v # u /\ s.store < t.store
        BY <1>1, <1>3, <2>2
      <3> QED BY <1>1, <3>1 DEF IsTwoNewest
    <2>3. CASE x # u /\ y = u
      <3>1. t # u /\ x.store < t.store
        BY <1>1, <1>3, <2>3
      <3> QED BY <1>3, <2>3, <3>1 DEF IsTwoNewest
    <2> QED BY <2>1, <2>2, <2>3
  <1> QED BY <1>2, <1>3 DEF IsTwoNewest

\* ... and so which snapshot is the older of the two newest.
LEMMA OlderOfTwoNewestStays ==
  ASSUME NEW S, NEW u \in S, NEW s \in S \ {u},
         \A t \in S : t.store \in Nat,
         ~IsTwoNewest(S, u), IsOlderOfTwoNewest(S \ {u}, s)
  PROVE  IsOlderOfTwoNewest(S, s)
  BY TwoNewestStay DEF IsOlderOfTwoNewest

\* After R1 has run, R3's drops give R1 nothing new to delete.
LEMMA DropKeepsR1Empty ==
  ASSUME NEW S, NEW u \in S, NEW held,
         \A t \in S : t.store \in Nat,
         ~IsTwoNewest(S, u), r1_deletions(S, held) = {}
  PROVE  r1_deletions(S \ {u}, held) = {}
  <1>1. ASSUME NEW dot \in held, NEW s \in S \ {u},
               IsOlderOfTwoNewest(S \ {u}, s), Covers(s, dot),
               TwoAuthors(S \ {u}, dot)
        PROVE  FALSE
    <2>1. IsOlderOfTwoNewest(S, s)
      BY <1>1, OlderOfTwoNewestStays
    <2>2. TwoAuthors(S, dot)
      BY <1>1, CoverGrows
    <2> QED BY <1>1, <2>1, <2>2 DEF r1_deletions
  <1> QED BY <1>1 DEF r1_deletions

\* R1 applied to its own result finds nothing.
LEMMA R1Idempotent ==
  ASSUME NEW S, NEW held
  PROVE  r1_deletions(S, held \ r1_deletions(S, held)) = {}
  BY DEF r1_deletions

\* An op that no retained snapshot covers, with or without its body, gives
\* neither R1 nor R3 anything to do.
LEMMA UncoveredOpKeepsPlan ==
  ASSUME NEW S, NEW held, NEW bodiless, NEW o, ~Covered(S, o),
         PlanEmpty(S, held, bodiless)
  PROVE  /\ PlanEmpty(S, held \cup {o}, bodiless)
         /\ PlanEmpty(S, held, bodiless \cup {o})
  <1>1. r1_deletions(S, held \cup {o}) = r1_deletions(S, held)
    BY DEF r1_deletions, Covered
  <1>2. \A s \in S : Needed(S, s, bodiless) => Needed(S, s, bodiless \cup {o})
    BY DEF Needed
  <1> QED BY <1>1, <1>2 DEF PlanEmpty
=============================================================================
