------------------------ MODULE CompactionPlanProofs ------------------------
(***************************************************************************)
(* The computed plan and the computed page covers do what Compaction's     *)
(* predicates say, for any number of snapshots, devices and ops            *)
(* (rizzy-sync/src/compaction.rs); and the queue of the workers holds each *)
(* item at most once, for any number of workers (rizzy-domain-vault        *)
(* compact.rs).                                                            *)
(***************************************************************************)
EXTENDS CompactionPlan, CompactionWorker, CompactionProofs,
        FiniteSetTheorems, WellFoundedInduction, TLAPS

(***************************************************************************)
(* Folds over a finite sequence                                            *)
(***************************************************************************)

\* A nonempty set of naturals has a least element.
LEMMA LeastElement ==
  ASSUME NEW T \in SUBSET Nat, T # {}
  PROVE  \E x \in T : \A y \in T : x <= y
  <1> DEFINE R == OpToRel(<, Nat)
  <1>1. IsWellFoundedOn(R, Nat)
    BY NatLessThanWellFounded
  <1>2. \A x, y \in Nat : y < x => <<y, x>> \in R
    BY DEF OpToRel
  <1> HIDE DEF R
  <1>3. PICK x \in T : \A y \in T : ~(<<y, x>> \in R)
    BY <1>1, WFMin
  <1>4. \A y \in T : ~(y < x) /\ x \in Nat /\ y \in Nat
    BY <1>2, <1>3
  <1> QED BY <1>4

\* The largest of some positions is one of them, and no smaller than any.
LEMMA MaxOfSome ==
  ASSUME NEW n \in Nat, NEW s \in SUBSET (1..n), s # {}
  PROVE  Max(s) \in s /\ Max(s) \in 1..n /\ \A y \in s : y <= Max(s)
  <1> DEFINE T == {n - x : x \in s}
  <1>1. T \in SUBSET Nat /\ T # {}
    OBVIOUS
  <1> HIDE DEF T
  <1>2. PICK d \in T : \A e \in T : d <= e
    BY <1>1, LeastElement
  <1>3. PICK m \in s : d = n - m
    BY DEF T
  <1>4. \A y \in s : m >= y
    <2> TAKE y \in s
    <2>1. n - y \in T
      BY DEF T
    <2> QED BY <1>2, <1>3, <2>1
  <1>5. \E x \in s : \A y \in s : x >= y
    BY <1>4
  <1>6. Max(s) \in s /\ \A y \in s : Max(s) >= y
    BY <1>5 DEF Max
  <1> QED BY <1>6

\* The largest position of a prefix is its last.
LEMMA MaxOfPrefix ==
  ASSUME NEW n \in Nat, NEW i \in 1..n
  PROVE  /\ 1..i \in SUBSET (1..n) /\ 1..i # {}
         /\ Max(1..i) = i /\ (1..i) \ {Max(1..i)} = 1..(i - 1)
  <1>1. 1..i \in SUBSET (1..n) /\ 1..i # {} /\ i \in 1..i
    OBVIOUS
  <1>2. Max(1..i) \in 1..i /\ \A y \in 1..i : y <= Max(1..i)
    BY <1>1, MaxOfSome
  <1>3. Max(1..i) = i
    BY <1>1, <1>2
  <1> QED BY <1>1, <1>3

\* A fold over the positions 1..n, as a function on the sets of positions.
FoldsTo(F, base, n, q, G) ==
  \A s \in SUBSET (1..n) :
    F[s] = IF s = {} THEN base ELSE G[<<F[s \ {Max(s)}], q[Max(s)]>>]

\* It exists, whatever is folded.
LEMMA FoldExists ==
  ASSUME NEW A, NEW base \in A, NEW n \in Nat, NEW X, NEW q \in [1..n -> X],
         NEW G \in [A \X X -> A]
  PROVE  \E F \in [SUBSET (1..n) -> A] : FoldsTo(F, base, n, q, G)
  <1> DEFINE Good(k) == \E F \in [SUBSET (1..k) -> A] : FoldsTo(F, base, k, q, G)
             T == {k \in 0..n : ~Good(k)}
  <1> HIDE DEF Good
  <1>0. n \in 0..n /\ T \in SUBSET Nat
    OBVIOUS
  <1> SUFFICES ASSUME T # {}
               PROVE  FALSE
    BY <1>0 DEF Good
  <1>1. PICK m \in T : \A k \in T : m <= k
    BY <1>0, LeastElement
  <1>2. m \in 0..n /\ ~Good(m)
    OBVIOUS
  <1>3. CASE m = 0
    <2> DEFINE F == [s \in SUBSET (1..0) |-> base]
    <2>1. F \in [SUBSET (1..0) -> A]
      OBVIOUS
    <2>2. ASSUME NEW s \in SUBSET (1..0)
          PROVE  s = {}
      OBVIOUS
    <2>3. FoldsTo(F, base, 0, q, G)
      BY <2>2 DEF FoldsTo
    <2> QED BY <1>2, <1>3, <2>1, <2>3 DEF Good
  <1>4. CASE m # 0
    <2>1. m - 1 \in 0..n /\ m \in 1..n /\ ~(m <= m - 1)
      BY <1>2, <1>4
    <2>a. m - 1 \notin T
      BY <1>1, <2>1
    <2>2. PICK E \in [SUBSET (1..m - 1) -> A] : FoldsTo(E, base, m - 1, q, G)
      BY <2>1, <2>a DEF Good
    <2> DEFINE F == [s \in SUBSET (1..m) |->
                       IF m \in s THEN G[<<E[s \ {m}], q[m]>>] ELSE E[s]]
    <2>3. \A s \in SUBSET (1..m) :
            /\ s \ {m} \in SUBSET (1..m - 1)
            /\ m \notin s => s \in SUBSET (1..m - 1)
      BY <1>2
    <2>4. q[m] \in X
      BY <2>1
    <2>5. ASSUME NEW s \in SUBSET (1..m)
          PROVE  F[s] \in A
      <3>1. CASE m \in s
        <4>1. E[s \ {m}] \in A
          BY <2>3
        <4>2. <<E[s \ {m}], q[m]>> \in A \X X
          BY <2>4, <4>1
        <4> QED BY <3>1, <4>2
      <3>2. CASE m \notin s
        <4>1. E[s] \in A
          BY <2>3, <3>2
        <4> QED BY <3>2, <4>1
      <3> QED BY <3>1, <3>2
    <2>6. F \in [SUBSET (1..m) -> A]
      BY <2>5
    <2>7. ASSUME NEW s \in SUBSET (1..m)
          PROVE  F[s] = IF s = {} THEN base
                        ELSE G[<<F[s \ {Max(s)}], q[Max(s)]>>]
      <3>1. CASE m \in s
        <4>1. Max(s) = m
          <5>1. Max(s) \in s /\ Max(s) \in 1..m /\ \A y \in s : y <= Max(s)
            BY <1>2, <3>1, MaxOfSome
          <5> QED BY <3>1, <5>1, <1>2
        <4>2. F[s \ {m}] = E[s \ {m}]
          BY <2>3
        <4> QED BY <3>1, <4>1, <4>2
      <3>2. CASE m \notin s
        <4>1. s \in SUBSET (1..m - 1) /\ F[s] = E[s]
          BY <2>3, <3>2
        <4>2. E[s] = IF s = {} THEN base ELSE G[<<E[s \ {Max(s)}], q[Max(s)]>>]
          BY <2>2, <4>1 DEF FoldsTo
        <4>3. F[s \ {Max(s)}] = E[s \ {Max(s)}]
          BY <3>2, <2>3
        <4> QED BY <4>1, <4>2, <4>3
      <3> QED BY <3>1, <3>2
    <2> HIDE DEF F
    <2>8. FoldsTo(F, base, m, q, G)
      BY <2>7 DEF FoldsTo
    <2> QED BY <1>2, <2>6, <2>8 DEF Good
  <1> QED BY <1>3, <1>4

(***************************************************************************)
(* The order of the store                                                  *)
(***************************************************************************)

\* Finitely many snapshots, each with a store sequence of its own.
Stored(S) ==
  /\ IsFiniteSet(S)
  /\ \A s \in S : s.store \in Nat
  /\ \A s, t \in S : s.store = t.store => s = t

\* q lists S oldest first.
Lists(q, S) ==
  /\ Cardinality(S) \in Nat
  /\ q \in [1..Cardinality(S) -> S]
  /\ \A i, j \in 1..Cardinality(S) : i < j => q[i].store < q[j].store
  /\ \A s \in S : \E i \in 1..Cardinality(S) : q[i] = s

\* An increasing enumeration of S that is as long as S misses nothing.
LEMMA IncreasingListsAll ==
  ASSUME NEW S, Stored(S), NEW q \in [1..Cardinality(S) -> S],
         \A i, j \in 1..Cardinality(S) : i < j => q[i].store < q[j].store
  PROVE  Lists(q, S)
  <1> DEFINE n == Cardinality(S)
  <1>1. n \in Nat
    BY FS_CardinalityType DEF Stored
  <1>2. \A i \in 1..n : q[i] \in S /\ q[i].store \in Nat
    BY DEF Stored
  <1>3. ASSUME NEW i \in 1..n, NEW j \in 1..n, q[i] = q[j]
        PROVE  i = j
    <2>1. ~(i < j) /\ ~(j < i)
      <3>1. ~(q[i].store < q[j].store) /\ ~(q[j].store < q[i].store)
        BY <1>2, <1>3
      <3> QED BY <3>1
    <2> QED BY <1>1, <2>1
  <1>4. q \in Injection(1..n, S)
    <2>1. q \in [1..n -> S]
      OBVIOUS
    <2> HIDE DEF n
    <2>2. IsInjective(q)
      BY <1>3, <2>1 DEF IsInjective
    <2> QED BY <2>1, <2>2 DEF Injection
  <1>5. IsFiniteSet(S) /\ Cardinality(1..n) = n
    BY <1>1, FS_Interval DEF Stored
  <1>6. q \in Surjection(1..n, S)
    BY <1>4, <1>5, FS_Injection
  <1>7. \A s \in S : \E i \in 1..n : q[i] = s
    BY <1>6 DEF Surjection
  <1> QED BY <1>1, <1>7 DEF Lists

\* by_store_seq lists the snapshots oldest first, each once.
LEMMA StoreOrder ==
  ASSUME NEW S, Stored(S)
  PROVE  Lists(by_store_seq(S), S)
  <1> DEFINE n == Cardinality(S)
             Below(s) == {t \in S : t.store <= s.store}
             r == [s \in S |-> Cardinality(Below(s))]
  <1>1. n \in Nat /\ IsFiniteSet(S)
    BY FS_CardinalityType DEF Stored
  <1>2. ASSUME NEW s \in S
        PROVE  /\ IsFiniteSet(Below(s))
               /\ Cardinality(Below(s)) \in 1..n
    <2>1. Below(s) \in SUBSET S /\ s \in Below(s)
      BY DEF Stored
    <2>2. IsFiniteSet(Below(s)) /\ Cardinality(Below(s)) <= n
      BY <1>1, <2>1, FS_Subset
    <2>3. Cardinality(Below(s)) \in Nat
      BY <2>2, FS_CardinalityType
    <2>4. Cardinality(Below(s)) # 0
      BY <2>1, <2>2, FS_EmptySet
    <2> QED BY <1>1, <2>2, <2>3, <2>4
  <1>3. ASSUME NEW s \in S, NEW t \in S, s.store < t.store
        PROVE  Cardinality(Below(s)) < Cardinality(Below(t))
    <2>1. Below(s) \in SUBSET Below(t) /\ t \in Below(t) /\ t \notin Below(s)
      BY <1>3 DEF Stored
    <2>2. Cardinality(Below(s)) <= Cardinality(Below(t))
      BY <1>2, <2>1, FS_Subset
    <2>3. Cardinality(Below(s)) # Cardinality(Below(t))
      BY <1>2, <2>1, FS_Subset
    <2> QED BY <1>2, <2>2, <2>3
  <1> HIDE DEF Below
  <1>4. r \in [S -> 1..n]
    BY <1>2
  <1>5. \A s, t \in S : s.store < t.store => r[s] < r[t]
    BY <1>3
  <1> HIDE DEF r
  <1>6. ASSUME NEW s \in S, NEW t \in S, r[s] = r[t]
        PROVE  s = t
    <2>1. s.store \in Nat /\ t.store \in Nat /\ r[s] \in 1..n
      BY <1>4 DEF Stored
    <2>2. ~(r[s] < r[t]) /\ ~(r[t] < r[s])
      BY <1>1, <1>6, <2>1
    <2>3. s.store = t.store
      BY <1>5, <2>1, <2>2
    <2> QED BY <2>3 DEF Stored
  <1>7. r \in Injection(S, 1..n)
    BY <1>4, <1>6 DEF Injection, IsInjective
  <1>8. IsFiniteSet(1..n) /\ Cardinality(1..n) = n
    BY <1>1, FS_Interval
  <1>9. r \in Surjection(S, 1..n)
    BY <1>7, <1>8, FS_Injection
  <1>10. \A i \in 1..n : \E s \in S : r[s] = i
    BY <1>9 DEF Surjection
  <1> DEFINE q == [i \in 1..n |-> CHOOSE s \in S : r[s] = i]
  <1>11. \A i \in 1..n : q[i] \in S /\ r[q[i]] = i
    BY <1>10
  <1>12. q \in [1..n -> S]
    BY <1>11
  <1> HIDE DEF q
  <1>13. ASSUME NEW i \in DOMAIN q, NEW j \in DOMAIN q, i < j
         PROVE  q[i].store < q[j].store
    <2>1. i \in 1..n /\ j \in 1..n
      BY <1>12
    <2>2. q[i] \in S /\ q[j] \in S /\ r[q[i]] = i /\ r[q[j]] = j
      BY <1>11, <2>1
    <2>3. q[i].store \in Nat /\ q[j].store \in Nat
      BY <2>2 DEF Stored
    <2>4. CASE q[j].store < q[i].store
      BY <1>1, <1>5, <1>13, <2>1, <2>2, <2>4
    <2>5. CASE q[j].store = q[i].store
      <3>1. q[i] = q[j]
        BY <2>2, <2>5 DEF Stored
      <3> QED BY <1>13, <2>1, <2>2, <3>1
    <2> QED BY <2>3, <2>4, <2>5
  <1> DEFINE Sorted(p) == \A i, j \in DOMAIN p : i < j => p[i].store < p[j].store
  <1>14. \E p \in [1..n -> S] : Sorted(p)
    BY <1>12, <1>13
  <1>15. by_store_seq(S) = CHOOSE p \in [1..n -> S] : Sorted(p)
    BY DEF by_store_seq
  <1> HIDE DEF Sorted
  <1>16. by_store_seq(S) \in [1..n -> S] /\ Sorted(by_store_seq(S))
    BY <1>14, <1>15
  <1>17. PICK p \in [1..n -> S] : p = by_store_seq(S) /\ Sorted(p)
    BY <1>16
  <1>18. \A i, j \in 1..n : i < j => p[i].store < p[j].store
    BY <1>17 DEF Sorted
  <1>19. Lists(p, S)
    BY <1>18, IncreasingListsAll
  <1> QED BY <1>17, <1>19


\* What holds before the first step and after every step holds to the end.
LEMMA StepByStep ==
  ASSUME NEW n \in Nat, NEW T, 0 \in T,
         \A i \in 1..n : i - 1 \in T => i \in T
  PROVE  \A i \in 0..n : i \in T
  <1> DEFINE M == {i \in 0..n : i \notin T}
  <1> SUFFICES ASSUME M # {}
               PROVE  FALSE
    OBVIOUS
  <1>1. M \in SUBSET Nat
    OBVIOUS
  <1>2. PICK m \in M : \A k \in M : m <= k
    BY <1>1, LeastElement
  <1>3. m \in 1..n /\ m - 1 \in 0..n /\ ~(m <= m - 1) /\ m \notin T
    OBVIOUS
  <1>4. m - 1 \in T
    BY <1>2, <1>3
  <1> QED BY <1>3, <1>4

(***************************************************************************)
(* The covers of one page                                                  *)
(***************************************************************************)

\* The choice made over a sequence of snapshots.
Choice(headers, q) ==
  FoldLeft(LAMBDA acc, s : cover_step(headers, acc, s), {}, q)

\* The choices after each snapshot read.
ChoiceSteps(it, headers, n, q) ==
  /\ it[0] = {}
  /\ \A i \in 1..n : it[i] = cover_step(headers, it[i - 1], q[i])

\* select_covers takes one step per snapshot.
LEMMA CoverFold ==
  ASSUME NEW S, NEW headers, NEW n \in Nat, NEW q \in [1..n -> S]
  PROVE  \E it : /\ ChoiceSteps(it, headers, n, q)
                 /\ it[n] = Choice(headers, q)
  <1> DEFINE A == SUBSET S
             G == [p \in A \X S |-> cover_step(headers, p[1], p[2])]
             Eq(f) == f = [s \in SUBSET (1..n) |->
                             IF s = {} THEN {}
                             ELSE cover_step(headers, f[s \ {Max(s)}], q[Max(s)])]
  <1>1. \A c \in A, s \in S : cover_step(headers, c, s) \in A
    BY DEF cover_step
  <1>2. G \in [A \X S -> A] /\ {} \in A
    BY <1>1
  <1>3. \A c \in A, s \in S : G[<<c, s>>] = cover_step(headers, c, s)
    OBVIOUS
  <1> HIDE DEF A, G
  <1>4. PICK F \in [SUBSET (1..n) -> A] : FoldsTo(F, {}, n, q, G)
    BY <1>2, FoldExists
  <1>5. ASSUME NEW s \in SUBSET (1..n)
        PROVE  F[s] = IF s = {} THEN {}
                      ELSE cover_step(headers, F[s \ {Max(s)}], q[Max(s)])
    <2>1. CASE s = {}
      BY <1>4, <2>1 DEF FoldsTo
    <2>2. CASE s # {}
      <3>1. Max(s) \in 1..n
        BY <2>2, MaxOfSome
      <3>2. q[Max(s)] \in S /\ F[s \ {Max(s)}] \in A
        BY <3>1
      <3>3. F[s] = G[<<F[s \ {Max(s)}], q[Max(s)]>>]
        BY <1>4, <2>2 DEF FoldsTo
      <3> QED BY <1>3, <2>2, <3>2, <3>3
    <2> QED BY <2>1, <2>2
  <1>6. Eq(F)
    BY <1>5
  <1> DEFINE f0 == CHOOSE f : Eq(f)
  <1>7. Eq(f0)
    <2> HIDE DEF Eq
    <2> QED BY <1>6
  <1>8. DOMAIN q = 1..n
    OBVIOUS
  <1>9. Choice(headers, q) = f0[1..n]
    BY <1>8 DEF Choice, FoldLeft, MapThenFoldSet
  <1> HIDE DEF f0
  <1>10. ASSUME NEW s \in SUBSET (1..n)
         PROVE  f0[s] = IF s = {} THEN {}
                        ELSE cover_step(headers, f0[s \ {Max(s)}], q[Max(s)])
    BY <1>7
  <1> HIDE DEF Eq
  <1> DEFINE it == [i \in 0..n |-> f0[1..i]]
  <1>11. it[0] = {}
    <2>1. 1..0 = {} /\ it[0] = f0[1..0]
      OBVIOUS
    <2> QED BY <1>10, <2>1
  <1>12. ASSUME NEW i \in 1..n
         PROVE  it[i] = cover_step(headers, it[i - 1], q[i])
    <2>1. /\ 1..i \in SUBSET (1..n) /\ 1..i # {}
          /\ Max(1..i) = i /\ (1..i) \ {Max(1..i)} = 1..(i - 1)
      BY MaxOfPrefix
    <2>2. it[i] = f0[1..i] /\ it[i - 1] = f0[1..(i - 1)]
      OBVIOUS
    <2>3. f0[1..i] = cover_step(headers, f0[1..(i - 1)], q[i])
      BY <1>10, <2>1
    <2> QED BY <2>2, <2>3
  <1>13. it[n] = f0[1..n]
    OBVIOUS
  <1> HIDE DEF it
  <1>14. ChoiceSteps(it, headers, n, q)
    BY <1>11, <1>12 DEF ChoiceSteps
  <1> QED BY <1>9, <1>13, <1>14

\* Once read, a snapshot's author covers its headers in the choice, unless
\* two others do.
Represented(c, s, headers) ==
  \A dot \in headers :
    Covers(s, dot) => TwoAuthors(c, dot) \/ s.author \in cover_authors(c, dot)

\* A step keeps what is chosen, adds only a cover, and represents the
\* snapshot it read.
LEMMA CoverStep ==
  ASSUME NEW headers, NEW c, NEW s
  PROVE  /\ c \subseteq cover_step(headers, c, s)
         /\ cover_step(headers, c, s) \subseteq c \cup {s}
         /\ \A t \in cover_step(headers, c, s) :
              t \notin c => \E dot \in headers : Covers(t, dot)
         /\ Represented(cover_step(headers, c, s), s, headers)
  <1>1. CASE \E dot \in headers : /\ Covers(s, dot)
                                  /\ FewerThanTwo(cover_authors(c, dot))
                                  /\ s.author \notin cover_authors(c, dot)
    <2>1. cover_step(headers, c, s) = c \cup {s}
      BY <1>1 DEF cover_step
    <2>2. \A dot \in headers : Covers(s, dot) => s.author \in cover_authors(c \cup {s}, dot)
      BY DEF cover_authors
    <2> QED BY <1>1, <2>1, <2>2 DEF Represented
  <1>2. CASE ~\E dot \in headers : /\ Covers(s, dot)
                                   /\ FewerThanTwo(cover_authors(c, dot))
                                   /\ s.author \notin cover_authors(c, dot)
    <2>1. cover_step(headers, c, s) = c
      BY <1>2 DEF cover_step
    <2> QED BY <1>2, <2>1 DEF Represented, TwoAuthors
  <1> QED BY <1>1, <1>2

\* A larger choice represents what a smaller one does.
LEMMA RepresentedGrows ==
  ASSUME NEW c, NEW d, c \subseteq d, NEW s, NEW headers,
         Represented(c, s, headers)
  PROVE  Represented(d, s, headers)
  BY CoverGrows DEF Represented, cover_authors

\* What select_covers has chosen when every snapshot has been read.
LEMMA ChoiceRepresents ==
  ASSUME NEW S, NEW headers, NEW n \in Nat, NEW q \in [1..n -> S],
         NEW it, ChoiceSteps(it, headers, n, q)
  PROVE  /\ it[n] \subseteq S
         /\ \A s \in it[n] : \E dot \in headers : Covers(s, dot)
         /\ \A i \in 1..n : Represented(it[n], q[i], headers)
  <1> DEFINE Good(k) == /\ it[k] \subseteq S
                        /\ \A s \in it[k] : \E dot \in headers : Covers(s, dot)
                        /\ \A i \in 1..k : Represented(it[k], q[i], headers)
             T == {k \in 0..n : Good(k)}
  <1>1. 0 \in T
    BY DEF ChoiceSteps
  <1>2. ASSUME NEW i \in 1..n, i - 1 \in T
        PROVE  i \in T
    <2>1. i - 1 \in 0..n /\ i \in 0..n /\ Good(i - 1) /\ q[i] \in S
      BY <1>2
    <2>2. PICK c : c = it[i - 1]
      OBVIOUS
    <2>3. it[i] = cover_step(headers, c, q[i])
      BY <2>2 DEF ChoiceSteps
    <2>4. PICK d : d = it[i]
      OBVIOUS
    <2>5. /\ c \subseteq d /\ d \subseteq c \cup {q[i]}
          /\ \A t \in d : t \notin c => \E dot \in headers : Covers(t, dot)
          /\ Represented(d, q[i], headers)
      BY <2>3, <2>4, CoverStep
    <2>6. \A j \in 1..i - 1 : Represented(d, q[j], headers)
      BY <2>1, <2>2, <2>5, RepresentedGrows
    <2>7. \A j \in 1..i : j = i \/ j \in 1..i - 1
      OBVIOUS
    <2>8. \A j \in 1..i : Represented(d, q[j], headers)
      BY <2>5, <2>6, <2>7
    <2>9. d \subseteq S /\ \A s \in d : \E dot \in headers : Covers(s, dot)
      BY <2>1, <2>2, <2>5
    <2> QED BY <2>1, <2>4, <2>8, <2>9
  <1> HIDE DEF T
  <1>3. \A i \in 0..n : i \in T
    BY <1>1, <1>2, StepByStep
  <1>4. n \in T
    BY <1>3
  <1> QED BY <1>4 DEF T


\* Each list read backwards still lists everything.
LEMMA ReverseLists ==
  ASSUME NEW S, NEW q, Lists(q, S)
  PROVE  /\ Reverse(q) \in [1..Cardinality(S) -> S]
         /\ \A s \in S : \E i \in 1..Cardinality(S) : Reverse(q)[i] = s
  <1>0. PICK n \in Nat : n = Cardinality(S)
    BY DEF Lists
  <1>1. q \in [1..n -> S] /\ \A s \in S : \E i \in 1..n : q[i] = s
    BY <1>0 DEF Lists
  <1>2. Len(q) = n
    BY <1>1
  <1>3. Reverse(q) = [i \in 1..n |-> q[(n - i) + 1]]
    BY <1>2 DEF Reverse
  <1>4. Reverse(q) \in [1..n -> S]
    BY <1>1, <1>3
  <1>5. ASSUME NEW s \in S
        PROVE  \E i \in 1..n : Reverse(q)[i] = s
    <2>1. PICK j \in 1..n : q[j] = s
      BY <1>1
    <2>2. (n - j) + 1 \in 1..n /\ (n - ((n - j) + 1)) + 1 = j
      OBVIOUS
    <2> QED BY <1>3, <2>1, <2>2
  <1> QED BY <1>0, <1>4, <1>5

\* The covers of a page: every header some retained snapshot covers is
\* covered, by two authors where the retained snapshots have them, and every
\* cover serves a header.
LEMMA SelectCovers ==
  ASSUME NEW S, Stored(S), NEW headers
  PROVE  LET sel == select_covers(S, headers)
         IN /\ sel.covers \subseteq S
            /\ sel.uncovered = {dot \in headers : ~Covered(S, dot)}
            /\ \A dot \in headers : TwoAuthors(S, dot) => TwoAuthors(sel.covers, dot)
            /\ \A s \in sel.covers : \E dot \in headers : Covers(s, dot)
  <1>1. PICK p : p = by_store_seq(S) /\ Lists(p, S)
    BY StoreOrder
  <1>2. PICK n \in Nat : n = Cardinality(S)
    BY <1>1 DEF Lists
  <1>3. PICK q \in [1..n -> S] : q = Reverse(p) /\ \A s \in S : \E i \in 1..n : q[i] = s
    BY <1>1, <1>2, ReverseLists
  <1>4. PICK it : /\ ChoiceSteps(it, headers, n, q)
                  /\ it[n] = Choice(headers, q)
    BY CoverFold
  <1>a. /\ it[n] \subseteq S
        /\ \A s \in it[n] : \E dot \in headers : Covers(s, dot)
        /\ \A i \in 1..n : Represented(it[n], q[i], headers)
    BY <1>4, ChoiceRepresents
  <1>5. PICK c : c = it[n]
    OBVIOUS
  <1>6. /\ c \subseteq S
        /\ \A s \in c : \E dot \in headers : Covers(s, dot)
        /\ \A i \in 1..n : Represented(c, q[i], headers)
    BY <1>a, <1>5
  <1>7. c = Choice(headers, Reverse(by_store_seq(S)))
    BY <1>1, <1>3, <1>4, <1>5
  <1>8. select_covers(S, headers) =
          [covers |-> c, uncovered |-> {dot \in headers : ~Covered(c, dot)}]
    BY <1>7 DEF select_covers, Choice
  <1>9. \A s \in S : Represented(c, s, headers)
    BY <1>3, <1>6
  <1>10. ASSUME NEW dot \in headers
         PROVE  Covered(c, dot) <=> Covered(S, dot)
    <2>1. Covered(c, dot) => Covered(S, dot)
      BY <1>6, CoverGrows
    <2>2. ASSUME NEW s \in S, Covers(s, dot)
          PROVE  Covered(c, dot)
      <3>1. TwoAuthors(c, dot) \/ s.author \in cover_authors(c, dot)
        BY <1>9, <2>2 DEF Represented
      <3>2. s.author \in cover_authors(c, dot) => Covered(c, dot)
        BY DEF cover_authors, Covered
      <3> QED BY <3>1, <3>2, TwoAuthorsCover
    <2> QED BY <2>1, <2>2 DEF Covered
  <1>11. ASSUME NEW dot \in headers, TwoAuthors(S, dot)
         PROVE  TwoAuthors(c, dot)
    <2>1. PICK s, t \in S : /\ Covers(s, dot) /\ Covers(t, dot)
                            /\ s.author # t.author
      BY <1>11 DEF TwoAuthors, FewerThanTwo, cover_authors
    <2>2. /\ TwoAuthors(c, dot) \/ s.author \in cover_authors(c, dot)
          /\ TwoAuthors(c, dot) \/ t.author \in cover_authors(c, dot)
      BY <1>9, <2>1 DEF Represented
    <2> QED BY <2>1, <2>2 DEF TwoAuthors, FewerThanTwo
  <1> QED BY <1>6, <1>8, <1>10, <1>11


(***************************************************************************)
(* R3: the counts stand for the snapshots still retained                   *)
(***************************************************************************)

\* What the worker reads: stored snapshots of the account's devices.
Rows(S) == Stored(S) /\ \A s \in S : s.author \in Devices

\* The covers of dot that a signed.
By(R, dot, a) == {s \in R : s.author = a /\ Covers(s, dot)}

\* The counts of the snapshots R.
CountsOf(R, B) == [dot \in B |-> [a \in Devices |-> Cardinality(By(R, dot, a))]]

\* The authors counted are the authors of the covers.
LEMMA AuthorsCounted ==
  ASSUME NEW R, IsFiniteSet(R), \A s \in R : s.author \in Devices,
         NEW B, NEW dot \in B
  PROVE  /\ IsFiniteSet(cover_authors(R, dot))
         /\ AuthorsIn(CountsOf(R, B)[dot]) = Cardinality(cover_authors(R, dot))
  <1> DEFINE C == {t \in R : Covers(t, dot)}
             f == [s \in C |-> s.author]
  <1>1. IsFiniteSet(C)
    BY FS_Subset
  <1>2. f \in Surjection(C, cover_authors(R, dot))
    BY DEF Surjection, cover_authors
  <1>3. IsFiniteSet(cover_authors(R, dot))
    BY <1>1, <1>2, FS_Surjection
  <1>4. ASSUME NEW a \in Devices
        PROVE  CountsOf(R, B)[dot][a] > 0 <=> a \in cover_authors(R, dot)
    <2>1. CountsOf(R, B)[dot][a] = Cardinality(By(R, dot, a))
      BY DEF CountsOf
    <2>2. IsFiniteSet(By(R, dot, a))
      BY FS_Subset DEF By
    <2>3. Cardinality(By(R, dot, a)) \in Nat
      BY <2>2, FS_CardinalityType
    <2>4. Cardinality(By(R, dot, a)) = 0 <=> By(R, dot, a) = {}
      BY <2>2, FS_EmptySet
    <2>5. By(R, dot, a) # {} <=> a \in cover_authors(R, dot)
      BY DEF By, cover_authors
    <2> QED BY <2>1, <2>3, <2>4, <2>5
  <1>5. cover_authors(R, dot) \subseteq Devices
    BY DEF cover_authors
  <1>6. {a \in Devices : CountsOf(R, B)[dot][a] > 0} = cover_authors(R, dot)
    BY <1>4, <1>5
  <1> QED BY <1>3, <1>6 DEF AuthorsIn

\* A count of one is the only cover of its author.
LEMMA OnlyCover ==
  ASSUME NEW R, IsFiniteSet(R), NEW B, NEW dot \in B, NEW s \in R,
         s.author \in Devices, Covers(s, dot)
  PROVE  CountsOf(R, B)[dot][s.author] = 1
           <=> s.author \notin cover_authors(R \ {s}, dot)
  <1> DEFINE D == By(R, dot, s.author)
  <1>1. CountsOf(R, B)[dot][s.author] = Cardinality(D)
    BY DEF CountsOf
  <1>2. IsFiniteSet(D) /\ s \in D
    BY FS_Subset DEF By
  <1>3. Cardinality(D) = 1 <=> \E x : D = {x}
    BY <1>2, FS_Singleton
  <1>4. (\E x : D = {x}) <=> D = {s}
    BY <1>2
  <1>5. D = {s} <=> s.author \notin cover_authors(R \ {s}, dot)
    BY DEF By, cover_authors
  <1> QED BY <1>1, <1>3, <1>4, <1>5

\* A finite set has fewer than two members when its cardinality says so.
LEMMA FewByCount ==
  ASSUME NEW T, IsFiniteSet(T)
  PROVE  Cardinality(T) < 2 <=> FewerThanTwo(T)
  <1>1. Cardinality(T) \in Nat
    BY FS_CardinalityType
  <1>2. Cardinality(T) < 2 <=> Cardinality(T) = 0 \/ Cardinality(T) = 1
    BY <1>1
  <1>3. Cardinality(T) = 0 <=> T = {}
    BY FS_EmptySet
  <1>4. Cardinality(T) = 1 <=> \E x : T = {x}
    BY FS_Singleton
  <1>5. (T = {} \/ \E x : T = {x}) <=> FewerThanTwo(T)
    BY DEF FewerThanTwo
  <1> QED BY <1>2, <1>3, <1>4, <1>5

\* The test over the counts is the test over the snapshots.
LEMMA CountsDecide ==
  ASSUME NEW R, IsFiniteSet(R), \A t \in R : t.author \in Devices,
         NEW B, NEW dot \in B, NEW s \in R, Covers(s, dot)
  PROVE  lowers_counted(CountsOf(R, B)[dot], s.author)
           <=> lowers_below_two(R, s, dot)
  <1>1. PICK W : W = cover_authors(R, dot)
    OBVIOUS
  <1>2. PICK V : V = cover_authors(R \ {s}, dot)
    OBVIOUS
  <1>3. IsFiniteSet(W) /\ AuthorsIn(CountsOf(R, B)[dot]) = Cardinality(W)
    BY <1>1, AuthorsCounted
  <1>4. W = V \cup {s.author}
    BY <1>1, <1>2 DEF cover_authors
  <1>5. IsFiniteSet(V) /\ Cardinality(V) \in Nat /\ Cardinality(W) \in Nat
    BY <1>3, <1>4, FS_Subset, FS_CardinalityType
  <1>6. Cardinality(W) = IF s.author \in V THEN Cardinality(V) ELSE Cardinality(V) + 1
    BY <1>4, <1>5, FS_AddElement
  <1>7. CountsOf(R, B)[dot][s.author] = 1 <=> s.author \notin V
    BY <1>2, OnlyCover
  <1>8. Cardinality(V) < 2 <=> FewerThanTwo(V)
    BY <1>5, FewByCount
  <1>9. V # W <=> s.author \notin V
    BY <1>4
  <1>10. lowers_below_two(R, s, dot) <=> FewerThanTwo(V) /\ V # W
    BY <1>1, <1>2 DEF lowers_below_two
  <1>11. CASE s.author \in V
    <2>1. lowers_counted(CountsOf(R, B)[dot], s.author)
            <=> Cardinality(W) < 2 /\ Cardinality(W) < Cardinality(W)
      BY <1>3, <1>7, <1>11 DEF lowers_counted
    <2> QED BY <1>5, <1>9, <1>10, <1>11, <2>1
  <1>12. CASE s.author \notin V
    <2>1. lowers_counted(CountsOf(R, B)[dot], s.author)
            <=> Cardinality(W) - 1 < 2 /\ Cardinality(W) - 1 < Cardinality(W)
      BY <1>3, <1>7, <1>12 DEF lowers_counted
    <2>2. Cardinality(W) - 1 = Cardinality(V)
      BY <1>5, <1>6, <1>12
    <2> QED BY <1>5, <1>8, <1>9, <1>10, <1>12, <2>1, <2>2
  <1> QED BY <1>11, <1>12

\* A drop taken out of the counts leaves the counts of the rest.
LEMMA UncountExact ==
  ASSUME NEW R, IsFiniteSet(R), NEW B, NEW s \in R, s.author \in Devices
  PROVE  Uncount(CountsOf(R, B), s) = CountsOf(R \ {s}, B)
  <1>1. DOMAIN CountsOf(R, B) = B
    BY DEF CountsOf
  <1>2. ASSUME NEW dot \in B, NEW a \in Devices
        PROVE  Cardinality(By(R \ {s}, dot, a)) =
                 IF Covers(s, dot) /\ a = s.author THEN Cardinality(By(R, dot, a)) - 1
                 ELSE Cardinality(By(R, dot, a))
    <2>1. By(R \ {s}, dot, a) = By(R, dot, a) \ {s}
      BY DEF By
    <2>2. s \in By(R, dot, a) <=> Covers(s, dot) /\ a = s.author
      BY DEF By
    <2>3. IsFiniteSet(By(R, dot, a))
      BY FS_Subset DEF By
    <2>4. Cardinality(By(R, dot, a) \ {s}) =
            IF s \in By(R, dot, a) THEN Cardinality(By(R, dot, a)) - 1
            ELSE Cardinality(By(R, dot, a))
      BY <2>3, FS_RemoveElement
    <2> QED BY <2>1, <2>2, <2>4
  <1>3. ASSUME NEW dot \in B
        PROVE  (IF Covers(s, dot) THEN [CountsOf(R, B)[dot] EXCEPT ![s.author] = @ - 1]
                ELSE CountsOf(R, B)[dot])
                 = [a \in Devices |-> Cardinality(By(R \ {s}, dot, a))]
    <2>1. CountsOf(R, B)[dot] = [a \in Devices |-> Cardinality(By(R, dot, a))]
      BY DEF CountsOf
    <2>2. CASE Covers(s, dot)
      <3>1. [CountsOf(R, B)[dot] EXCEPT ![s.author] = @ - 1]
              = [a \in Devices |-> IF a = s.author THEN Cardinality(By(R, dot, a)) - 1
                                   ELSE Cardinality(By(R, dot, a))]
        BY <2>1
      <3>2. \A a \in Devices : Cardinality(By(R \ {s}, dot, a)) =
               IF a = s.author THEN Cardinality(By(R, dot, a)) - 1
               ELSE Cardinality(By(R, dot, a))
        BY <1>2, <2>2
      <3> QED BY <2>2, <3>1, <3>2
    <2>3. CASE ~Covers(s, dot)
      BY <1>2, <2>1, <2>3
    <2> QED BY <2>2, <2>3
  <1> QED BY <1>1, <1>3 DEF Uncount, CountsOf


\* What R3's pass carries along.
Accs(S, B) == [counts : [B -> [Devices -> Int]], dropped : SUBSET S]

\* The pass over a sequence of snapshots.
Pass(start, q) == FoldLeft(r3_step, start, q)

\* What it carries after each snapshot.
PassSteps(it, start, m, q) ==
  /\ it[0] = start
  /\ \A i \in 1..m : it[i] = r3_step(it[i - 1], q[i])

\* R3 takes one step per older snapshot.
LEMMA PassFold ==
  ASSUME NEW S, NEW B, NEW m \in Nat, NEW q \in [1..m -> S],
         NEW start \in Accs(S, B)
  PROVE  \E it : PassSteps(it, start, m, q) /\ it[m] = Pass(start, q)
  <1> DEFINE A == Accs(S, B)
             G == [p \in A \X S |-> r3_step(p[1], p[2])]
             Eq(f) == f = [s \in SUBSET (1..m) |->
                             IF s = {} THEN start
                             ELSE r3_step(f[s \ {Max(s)}], q[Max(s)])]
  <1>1. ASSUME NEW c \in A, NEW s \in S
        PROVE  r3_step(c, s) \in A
    <2>1. c.counts \in [B -> [Devices -> Int]] /\ c.dropped \cup {s} \in SUBSET S
      BY DEF Accs
    <2>2. Uncount(c.counts, s) \in [B -> [Devices -> Int]]
      <3>1. DOMAIN c.counts = B
        BY <2>1
      <3>2. ASSUME NEW dot \in B
            PROVE  (IF Covers(s, dot) THEN [c.counts[dot] EXCEPT ![s.author] = @ - 1]
                    ELSE c.counts[dot]) \in [Devices -> Int]
        <4>1. PICK f \in [Devices -> Int] : f = c.counts[dot]
          BY <2>1
        <4>2. PICK a : a = s.author
          OBVIOUS
        <4>3. [f EXCEPT ![a] = @ - 1]
                = [d \in Devices |-> IF d = a THEN f[d] - 1 ELSE f[d]]
          OBVIOUS
        <4>4. \A d \in Devices : f[d] - 1 \in Int /\ f[d] \in Int
          OBVIOUS
        <4>5. [f EXCEPT ![a] = @ - 1] \in [Devices -> Int]
          BY <4>3, <4>4
        <4> QED BY <4>1, <4>2, <4>5
      <3> QED BY <3>1, <3>2 DEF Uncount
    <2>3. [counts |-> Uncount(c.counts, s), dropped |-> c.dropped \cup {s}] \in A
      BY <2>1, <2>2 DEF Accs
    <2> QED BY <2>3 DEF r3_step
  <1> HIDE DEF A
  <1>2. G \in [A \X S -> A] /\ start \in A
    BY <1>1 DEF A
  <1>3. \A c \in A, s \in S : G[<<c, s>>] = r3_step(c, s)
    OBVIOUS
  <1> HIDE DEF G
  <1>4. PICK F \in [SUBSET (1..m) -> A] : FoldsTo(F, start, m, q, G)
    BY <1>2, FoldExists
  <1>5. ASSUME NEW s \in SUBSET (1..m)
        PROVE  F[s] = IF s = {} THEN start
                      ELSE r3_step(F[s \ {Max(s)}], q[Max(s)])
    <2>1. CASE s = {}
      BY <1>4, <2>1 DEF FoldsTo
    <2>2. CASE s # {}
      <3>1. Max(s) \in 1..m
        BY <2>2, MaxOfSome
      <3>2. q[Max(s)] \in S /\ F[s \ {Max(s)}] \in A
        BY <3>1
      <3>3. F[s] = G[<<F[s \ {Max(s)}], q[Max(s)]>>]
        BY <1>4, <2>2 DEF FoldsTo
      <3> QED BY <1>3, <2>2, <3>2, <3>3
    <2> QED BY <2>1, <2>2
  <1>6. Eq(F)
    BY <1>5
  <1> DEFINE f0 == CHOOSE f : Eq(f)
  <1>7. Eq(f0)
    <2> HIDE DEF Eq
    <2> QED BY <1>6
  <1>8. DOMAIN q = 1..m
    OBVIOUS
  <1>9. Pass(start, q) = f0[1..m]
    BY <1>8 DEF Pass, FoldLeft, MapThenFoldSet
  <1> HIDE DEF f0
  <1>10. ASSUME NEW s \in SUBSET (1..m)
         PROVE  f0[s] = IF s = {} THEN start
                        ELSE r3_step(f0[s \ {Max(s)}], q[Max(s)])
    BY <1>7
  <1> HIDE DEF Eq
  <1> DEFINE it == [i \in 0..m |-> f0[1..i]]
  <1>11. it[0] = start
    <2>1. 1..0 = {} /\ it[0] = f0[1..0]
      OBVIOUS
    <2> QED BY <1>10, <2>1
  <1>12. ASSUME NEW i \in 1..m
         PROVE  it[i] = r3_step(it[i - 1], q[i])
    <2>1. /\ 1..i \in SUBSET (1..m) /\ 1..i # {}
          /\ Max(1..i) = i /\ (1..i) \ {Max(1..i)} = 1..(i - 1)
      BY MaxOfPrefix
    <2>2. it[i] = f0[1..i] /\ it[i - 1] = f0[1..(i - 1)]
      OBVIOUS
    <2>3. f0[1..i] = r3_step(f0[1..(i - 1)], q[i])
      BY <1>10, <2>1
    <2> QED BY <2>2, <2>3
  <1>13. it[m] = f0[1..m]
    OBVIOUS
  <1> HIDE DEF it
  <1>14. PassSteps(it, start, m, q)
    BY <1>11, <1>12 DEF PassSteps
  <1> QED BY <1>9, <1>13, <1>14

\* One step of the pass is R3's test against the snapshots still retained.
LEMMA PassStep ==
  ASSUME NEW R, IsFiniteSet(R), \A t \in R : t.author \in Devices,
         NEW B, NEW s \in R, NEW acc, acc.counts = CountsOf(R, B)
  PROVE  r3_step(acc, s) =
           IF Needed(R, s, B) THEN acc
           ELSE [counts |-> CountsOf(R \ {s}, B), dropped |-> acc.dropped \cup {s}]
  <1>1. DOMAIN CountsOf(R, B) = B
    BY DEF CountsOf
  <1>2. (\E dot \in B : Covers(s, dot) /\ lowers_counted(CountsOf(R, B)[dot], s.author))
          <=> Needed(R, s, B)
    BY CountsDecide DEF Needed
  <1>3. Uncount(CountsOf(R, B), s) = CountsOf(R \ {s}, B)
    BY UncountExact
  <1> QED BY <1>1, <1>2, <1>3 DEF r3_step

\* The snapshots older than the two newest.
OlderCount(n) == IF n >= 2 THEN n - 2 ELSE 0

\* What is retained after each older snapshot is tested, oldest first.
Retained(R, S, B, m, p) ==
  /\ R[0] = S
  /\ \A i \in 1..m : R[i] = IF Needed(R[i - 1], p[i], B) THEN R[i - 1]
                            ELSE R[i - 1] \ {p[i]}

\* Different places hold different snapshots.
LEMMA PlacesDiffer ==
  ASSUME NEW S, Stored(S), NEW p, Lists(p, S), NEW n \in Nat, n = Cardinality(S),
         NEW i \in 1..n, NEW j \in 1..n, i # j
  PROVE  p[i] # p[j] /\ p[i] \in S
  <1>1. p[i] \in S /\ p[j] \in S
    BY DEF Lists
  <1>2. p[i].store \in Nat /\ p[j].store \in Nat
    BY <1>1 DEF Stored
  <1>3. p[i].store < p[j].store \/ p[j].store < p[i].store
    BY DEF Lists
  <1> QED BY <1>1, <1>2, <1>3

\* r3_drops drops exactly what that test, made against the snapshots
\* themselves, does not retain.
LEMMA PassRetains ==
  ASSUME NEW S, Rows(S), NEW B, NEW p, Lists(p, S),
         NEW n \in Nat, n = Cardinality(S), NEW m \in Nat, m = OlderCount(n)
  PROVE  \E R : /\ Retained(R, S, B, m, p)
                /\ R[m] \subseteq S
                /\ r3_drops(p, B) = S \ R[m]
  <1>1. p \in [1..n -> S] /\ Len(p) = n /\ m <= n
    BY DEF Lists, OlderCount
  <1>2. PICK q : q = SubSeq(p, 1, Len(p) - 2)
    OBVIOUS
  <1>3. q \in [1..m -> S] /\ \A i \in 1..m : q[i] = p[i]
    <2>1. p \in Seq(S)
      BY <1>1
    <2>2. q = [i \in 1..m |-> p[i]]
      BY <1>1, <1>2, <2>1 DEF OlderCount
    <2> QED BY <1>1, <2>2
  <1>4. PICK start : start = [counts |-> CoverCounts(p, B), dropped |-> {}]
    OBVIOUS
  <1>5. r3_drops(p, B) = Pass(start, q).dropped
    BY <1>2, <1>4 DEF r3_drops, Pass
  <1>6. CoverCounts(p, B) = CountsOf(S, B)
    <2>1. Range(p) = S
      BY <1>1 DEF Range, Lists
    <2> QED BY <2>1 DEF CoverCounts, CountsOf, By
  <1>7. IsFiniteSet(S) /\ \A s \in S : s.author \in Devices
    BY DEF Rows, Stored
  <1>8. start \in Accs(S, B)
    <2>1. ASSUME NEW dot \in B, NEW a \in Devices
          PROVE  Cardinality(By(S, dot, a)) \in Int
      <3>1. IsFiniteSet(By(S, dot, a))
        BY <1>7, FS_Subset DEF By
      <3> QED BY <3>1, FS_CardinalityType
    <2>2. CountsOf(S, B) \in [B -> [Devices -> Int]]
      BY <2>1 DEF CountsOf
    <2> QED BY <1>4, <1>6, <2>2 DEF Accs
  <1>9. PICK it : PassSteps(it, start, m, q) /\ it[m] = Pass(start, q)
    BY <1>3, <1>8, PassFold
  <1> DEFINE R == [i \in 0..m |-> S \ it[i].dropped]
             T == {k \in 0..m : /\ it[k].dropped \subseteq {p[j] : j \in 1..k}
                                /\ it[k].counts = CountsOf(S \ it[k].dropped, B)}
  <1>10. 0 \in T
    <2>1. it[0].dropped = {} /\ it[0].counts = CountsOf(S, B)
      BY <1>4, <1>6, <1>9 DEF PassSteps
    <2> QED BY <2>1
  <1>11. ASSUME NEW i \in 1..m, i - 1 \in T
         PROVE  /\ i \in T
                /\ R[i] = IF Needed(R[i - 1], p[i], B) THEN R[i - 1]
                          ELSE R[i - 1] \ {p[i]}
    <2>1. i - 1 \in 0..m /\ i \in 0..m /\ i \in 1..n
      BY <1>1
    <2>2. PICK c : c = it[i - 1]
      OBVIOUS
    <2>3. c.dropped \subseteq {p[j] : j \in 1..i - 1} /\ c.counts = CountsOf(S \ c.dropped, B)
      BY <1>11, <2>2
    <2>4. p[i] \in S /\ p[i] \notin c.dropped
      <3>1. \A j \in 1..i - 1 : j \in 1..n /\ j # i
        BY <2>1
      <3>2. \A j \in 1..i - 1 : p[j] # p[i]
        BY <2>1, <3>1, PlacesDiffer DEF Rows
      <3> QED BY <1>1, <2>1, <2>3, <3>2
    <2>5. PICK Q : Q = S \ c.dropped
      OBVIOUS
    <2>6. IsFiniteSet(Q) /\ \A t \in Q : t.author \in Devices
      BY <1>7, <2>5, FS_Subset
    <2>7. p[i] \in Q /\ c.counts = CountsOf(Q, B)
      BY <2>3, <2>4, <2>5
    <2>8. r3_step(c, p[i]) =
            IF Needed(Q, p[i], B) THEN c
            ELSE [counts |-> CountsOf(Q \ {p[i]}, B), dropped |-> c.dropped \cup {p[i]}]
      BY <2>6, <2>7, PassStep
    <2>9. it[i] = r3_step(c, p[i])
      BY <1>3, <1>9, <2>2 DEF PassSteps
    <2>10. R[i - 1] = Q /\ R[i] = S \ it[i].dropped
      BY <2>1, <2>2, <2>5
    <2>11. {p[j] : j \in 1..i} = {p[j] : j \in 1..i - 1} \cup {p[i]}
      <3>1. \A j \in 1..i : j = i \/ j \in 1..i - 1
        OBVIOUS
      <3>2. \A j \in 1..i - 1 : j \in 1..i
        OBVIOUS
      <3> QED BY <3>1, <3>2
    <2>12. CASE Needed(Q, p[i], B)
      <3>1. it[i] = c
        BY <2>8, <2>9, <2>12
      <3>2. i \in T
        BY <2>1, <2>3, <2>11, <3>1
      <3> QED BY <2>5, <2>10, <2>12, <3>1, <3>2
    <2>13. CASE ~Needed(Q, p[i], B)
      <3>1. it[i].dropped = c.dropped \cup {p[i]} /\ it[i].counts = CountsOf(Q \ {p[i]}, B)
        BY <2>8, <2>9, <2>13
      <3>2. S \ it[i].dropped = Q \ {p[i]}
        BY <2>5, <3>1
      <3>3. i \in T
        BY <2>1, <2>3, <2>11, <3>1, <3>2
      <3> QED BY <2>10, <2>13, <3>2, <3>3
    <2> QED BY <2>12, <2>13
  <1>12. \A i \in 0..m : i \in T
    <2> HIDE DEF T
    <2> QED BY <1>10, <1>11, StepByStep
  <1>13. R[0] = S
    BY <1>4, <1>9 DEF PassSteps
  <1>14. ASSUME NEW i \in 1..m
         PROVE  R[i] = IF Needed(R[i - 1], p[i], B) THEN R[i - 1]
                       ELSE R[i - 1] \ {p[i]}
    <2>1. i - 1 \in 0..m
      OBVIOUS
    <2>2. i - 1 \in T
      <3> HIDE DEF T
      <3> QED BY <1>12, <2>1
    <2> QED BY <1>11, <2>2
  <1>15. R[m] = S \ it[m].dropped /\ it[m].dropped \subseteq S
    <2>1. m \in T
      BY <1>12
    <2>2. it[m].dropped \subseteq {p[j] : j \in 1..m}
      BY <2>1
    <2>3. \A j \in 1..m : p[j] \in S
      BY <1>1
    <2> QED BY <2>2, <2>3
  <1> HIDE DEF R, T
  <1>16. Retained(R, S, B, m, p)
    BY <1>13, <1>14 DEF Retained
  <1>17. r3_drops(p, B) = it[m].dropped
    BY <1>5, <1>9
  <1> QED BY <1>15, <1>16, <1>17


\* A later place is a larger store sequence, and conversely.
LEMMA PlacesOrdered ==
  ASSUME NEW S, Stored(S), NEW p, Lists(p, S), NEW n \in Nat, n = Cardinality(S),
         NEW i \in 1..n, NEW j \in 1..n
  PROVE  /\ p[i] \in S /\ p[i].store \in Nat
         /\ p[i].store < p[j].store <=> i < j
  <1>1. p[i] \in S /\ p[j] \in S
    BY DEF Lists
  <1>2. p[i].store \in Nat /\ p[j].store \in Nat
    BY <1>1 DEF Stored
  <1>3. (i < j => p[i].store < p[j].store) /\ (j < i => p[j].store < p[i].store)
    BY DEF Lists
  <1> QED BY <1>1, <1>2, <1>3

\* The two newest are the last two places, as long as those are retained.
LEMMA TwoNewestPlaces ==
  ASSUME NEW S, Stored(S), NEW p, Lists(p, S), NEW n \in Nat, n = Cardinality(S),
         NEW m \in Nat, m = OlderCount(n), NEW Q \in SUBSET S,
         \A j \in m + 1..n : p[j] \in Q, NEW j \in 1..n
  PROVE  IsTwoNewest(Q, p[j]) <=> j > m
  <1>1. \A k \in 1..n, l \in 1..n : p[k].store < p[l].store <=> k < l
    BY PlacesOrdered
  <1>2. CASE j <= m
    <2>1. m = n - 2
      BY <1>2 DEF OlderCount
    <2>2. /\ n - 1 \in m + 1..n /\ n \in m + 1..n /\ n - 1 \in 1..n /\ n \in 1..n
          /\ j < n - 1 /\ n - 1 < n
      BY <1>2, <2>1
    <2>3. /\ p[n - 1] \in Q /\ p[n] \in Q
          /\ p[j].store < p[n - 1].store /\ p[n - 1].store < p[n].store
      BY <1>1, <2>2
    <2> QED BY <1>2, <2>3 DEF IsTwoNewest
  <1>3. CASE j > m
    <2>1. ASSUME NEW t \in Q, NEW u \in Q, p[j].store < t.store, t.store < u.store
          PROVE  FALSE
      <3>1. PICK k \in 1..n : p[k] = t
        BY DEF Lists
      <3>2. PICK l \in 1..n : p[l] = u
        BY DEF Lists
      <3>3. j < k /\ k < l
        BY <1>1, <2>1, <3>1, <3>2
      <3> QED BY <1>3, <3>3 DEF OlderCount
    <2> QED BY <1>3, <2>1 DEF IsTwoNewest
  <1> QED BY <1>2, <1>3

\* After the tests of the first i snapshots: those not tested are retained,
\* those tested and retained are still needed, and no header lost its cover.
RetainedAt(R, S, B, n, p, i) ==
  /\ R[i] \subseteq S
  /\ \A k \in 0..i : R[i] \subseteq R[k]
  /\ \A j \in i + 1..n : p[j] \in R[i]
  /\ \A j \in 1..i : p[j] \in R[i] => Needed(R[i], p[j], B)
  /\ \A dot \in B : Covered(S, dot) => Covered(R[i], dot)

LEMMA RetainedFacts ==
  ASSUME NEW S, Stored(S), NEW B, NEW p, Lists(p, S),
         NEW n \in Nat, n = Cardinality(S), NEW m \in Nat, m = OlderCount(n),
         NEW R, Retained(R, S, B, m, p), NEW i \in 0..m
  PROVE  RetainedAt(R, S, B, n, p, i)
  <1> DEFINE T == {k \in 0..m : RetainedAt(R, S, B, n, p, k)}
  <1>1. m <= n /\ p \in [1..n -> S]
    BY DEF OlderCount, Lists
  <1>2. 0 \in T
    <2>1. R[0] = S /\ \A j \in 0 + 1..n : p[j] \in S
      BY <1>1 DEF Retained
    <2>2. \A k \in 0..0 : k = 0
      OBVIOUS
    <2>3. RetainedAt(R, S, B, n, p, 0)
      BY <2>1, <2>2 DEF RetainedAt
    <2> QED BY <2>3
  <1>3. ASSUME NEW k \in 1..m, k - 1 \in T
        PROVE  k \in T
    <2>1. k - 1 \in 0..m /\ k \in 0..m /\ k \in 1..n /\ k \in (k - 1) + 1..n
      BY <1>1
    <2>2. PICK P : P = R[k - 1]
      OBVIOUS
    <2>3. PICK Q : Q = R[k]
      OBVIOUS
    <2>4. Q = IF Needed(P, p[k], B) THEN P ELSE P \ {p[k]}
      BY <2>2, <2>3 DEF Retained
    <2>5. /\ P \subseteq S
          /\ \A l \in 0..k - 1 : P \subseteq R[l]
          /\ \A j \in (k - 1) + 1..n : p[j] \in P
          /\ \A j \in 1..k - 1 : p[j] \in P => Needed(P, p[j], B)
          /\ \A dot \in B : Covered(S, dot) => Covered(P, dot)
      BY <1>3, <2>2 DEF RetainedAt
    <2>6. Q \subseteq P /\ Q \subseteq S /\ p[k] \in P
      BY <2>1, <2>4, <2>5
    <2>7. \A l \in 0..k : Q \subseteq R[l]
      <3>1. \A l \in 0..k : l = k \/ l \in 0..k - 1
        OBVIOUS
      <3> QED BY <2>3, <2>5, <2>6, <3>1
    <2>8. ASSUME NEW j \in k + 1..n
          PROVE  p[j] \in Q
      <3>1. j \in (k - 1) + 1..n /\ j \in 1..n /\ j # k
        OBVIOUS
      <3>2. p[j] # p[k]
        BY <2>1, <3>1, PlacesDiffer
      <3> QED BY <2>4, <2>5, <3>1, <3>2
    <2>9. ASSUME NEW j \in 1..k, p[j] \in Q
          PROVE  Needed(Q, p[j], B)
      <3>1. CASE j = k
        BY <2>4, <2>9, <3>1
      <3>2. CASE j # k
        <4>1. j \in 1..k - 1 /\ j \in 1..n
          BY <2>1, <3>2
        <4>2. p[j] \in P /\ Needed(P, p[j], B)
          BY <2>5, <2>6, <2>9, <4>1
        <4>3. p[j] # p[k]
          BY <2>1, <3>2, <4>1, PlacesDiffer
        <4>4. Needed(P \ {p[k]}, p[j], B)
          BY <2>6, <4>2, <4>3, NeededStays
        <4> QED BY <2>4, <4>2, <4>4
      <3> QED BY <3>1, <3>2
    <2>10. ASSUME NEW dot \in B, Covered(S, dot)
           PROVE  Covered(Q, dot)
      <3>1. Covered(P, dot)
        BY <2>5, <2>10
      <3>2. ~Needed(P, p[k], B) => Covered(P \ {p[k]}, dot)
        BY <2>6, <3>1, DropKeepsCover
      <3> QED BY <2>4, <3>1, <3>2
    <2>11. RetainedAt(R, S, B, n, p, k)
      BY <2>3, <2>6, <2>7, <2>8, <2>9, <2>10 DEF RetainedAt
    <2> QED BY <2>1, <2>11
  <1> HIDE DEF T
  <1>4. \A k \in 0..m : k \in T
    BY <1>2, <1>3, StepByStep
  <1>5. i \in T
    BY <1>4
  <1> QED BY <1>5 DEF T

\* A stretch of the pass that finds every snapshot needed retains them all.
LEMMA NothingDropped ==
  ASSUME NEW S, NEW B, NEW p, NEW m \in Nat, NEW R, Retained(R, S, B, m, p),
         NEW i \in 0..m, NEW k \in i..m,
         \A j \in i + 1..k : Needed(R[i], p[j], B)
  PROVE  R[k] = R[i]
  <1> DEFINE T == {d \in Nat : i + d <= k => R[i + d] = R[i]}
  <1>1. 0 \in T
    OBVIOUS
  <1>2. ASSUME NEW d \in 1..k - i, d - 1 \in T
        PROVE  d \in T
    <2>1. /\ i + d \in 1..m /\ i + d \in i + 1..k /\ (i + d) - 1 = i + (d - 1)
          /\ i + (d - 1) <= k /\ d \in Nat
      OBVIOUS
    <2>2. R[(i + d) - 1] = R[i]
      BY <1>2, <2>1
    <2>3. R[i + d] = R[(i + d) - 1]
      BY <2>1, <2>2 DEF Retained
    <2> QED BY <2>1, <2>2, <2>3
  <1>3. k - i \in Nat /\ k - i \in 0..k - i /\ i + (k - i) = k /\ i + (k - i) <= k
    OBVIOUS
  <1> HIDE DEF T
  <1>4. k - i \in T
    BY <1>1, <1>2, <1>3, StepByStep
  <1>5. R[i + (k - i)] = R[i]
    BY <1>3, <1>4 DEF T
  <1> QED BY <1>3, <1>5


\* R3 drops nothing exactly when every snapshot but the two newest is needed.
LEMMA DropsNothing ==
  ASSUME NEW S, Rows(S), NEW B
  PROVE  r3_drops(by_store_seq(S), B) = {}
           <=> \A s \in S : IsTwoNewest(S, s) \/ Needed(S, s, B)
  <1>0. Stored(S)
    BY DEF Rows
  <1>1. PICK p : p = by_store_seq(S) /\ Lists(p, S)
    BY <1>0, StoreOrder
  <1>2. PICK n \in Nat : n = Cardinality(S)
    BY <1>1 DEF Lists
  <1>3. PICK m \in Nat : m = OlderCount(n) /\ m <= n
    BY DEF OlderCount
  <1>4. PICK R : Retained(R, S, B, m, p) /\ R[m] \subseteq S /\ r3_drops(p, B) = S \ R[m]
    BY <1>1, <1>2, <1>3, PassRetains
  <1>5. RetainedAt(R, S, B, n, p, m)
    <2>1. m \in 0..m
      OBVIOUS
    <2> QED BY <1>0, <1>1, <1>2, <1>3, <1>4, <2>1, RetainedFacts
  <1>6. ASSUME NEW j \in 1..n
        PROVE  IsTwoNewest(S, p[j]) <=> j > m
    <2>1. \A l \in m + 1..n : p[l] \in S
      BY <1>1, <1>2 DEF Lists
    <2> QED BY <1>0, <1>1, <1>2, <1>3, <2>1, TwoNewestPlaces
  <1>7. r3_drops(p, B) = {} <=> R[m] = S
    BY <1>4
  <1>8. ASSUME R[m] = S, NEW s \in S, ~IsTwoNewest(S, s)
        PROVE  Needed(S, s, B)
    <2>1. PICK j \in 1..n : p[j] = s
      BY <1>1, <1>2 DEF Lists
    <2>2. j \in 1..m
      BY <1>6, <1>8, <2>1
    <2> QED BY <1>5, <1>8, <2>1, <2>2 DEF RetainedAt
  <1>9. ASSUME \A s \in S : IsTwoNewest(S, s) \/ Needed(S, s, B)
        PROVE  R[m] = S
    <2>1. R[0] = S
      BY <1>4 DEF Retained
    <2>2. ASSUME NEW j \in 0 + 1..m
          PROVE  Needed(R[0], p[j], B)
      <3>1. j \in 1..n /\ ~(j > m)
        BY <1>3
      <3>2. p[j] \in S
        BY <1>1, <1>2, <3>1 DEF Lists
      <3> QED BY <1>6, <1>9, <2>1, <3>1, <3>2
    <2>3. 0 \in 0..m /\ m \in 0..m
      OBVIOUS
    <2>4. R[m] = R[0]
      BY <1>4, <2>2, <2>3, NothingDropped
    <2> QED BY <2>1, <2>4
  <1> QED BY <1>1, <1>7, <1>8, <1>9

(***************************************************************************)
(* R3 with its re-test from the oldest                                     *)
(***************************************************************************)

\* What is left after each round of the re-test.
Rounds(L, S, B) ==
  /\ L[0] = S
  /\ \A k \in 1..MaxSnaps : L[k] = DropOldest(L[k - 1], B)

LEMMA RestartRounds ==
  ASSUME NEW S, NEW B
  PROVE  \E L : Rounds(L, S, B) /\ RestartLoop(S, B) = L[MaxSnaps]
  <1> DEFINE A == SUBSET S
             G == [p \in A \X {0} |-> DropOldest(p[1], B)]
             q == [i \in 1..MaxSnaps |-> 0]
             Eq(f) == f = [n \in 0..MaxSnaps |-> IF n = 0 THEN S ELSE DropOldest(f[n - 1], B)]
  <1>0. MaxSnaps \in Nat
    BY PlanAssumption
  <1>1. \A c \in A : DropOldest(c, B) \in A
    BY DEF DropOldest
  <1>2. G \in [A \X {0} -> A] /\ S \in A /\ q \in [1..MaxSnaps -> {0}]
    BY <1>1
  <1>3. \A c \in A : G[<<c, 0>>] = DropOldest(c, B)
    OBVIOUS
  <1>4. \A i \in 1..MaxSnaps : q[i] = 0
    OBVIOUS
  <1> HIDE DEF A, G, q
  <1>5. PICK F \in [SUBSET (1..MaxSnaps) -> A] : FoldsTo(F, S, MaxSnaps, q, G)
    BY <1>0, <1>2, FoldExists
  <1> DEFINE f == [n \in 0..MaxSnaps |-> F[1..n]]
  <1>6. f[0] = S
    <2>1. 1..0 = {} /\ f[0] = F[1..0]
      BY <1>0
    <2> QED BY <1>5, <2>1 DEF FoldsTo
  <1>7. ASSUME NEW i \in 1..MaxSnaps
        PROVE  f[i] = DropOldest(f[i - 1], B)
    <2>1. /\ 1..i \in SUBSET (1..MaxSnaps) /\ 1..i # {}
          /\ Max(1..i) = i /\ (1..i) \ {Max(1..i)} = 1..(i - 1)
      BY <1>0, MaxOfPrefix
    <2>2. F[1..i] = G[<<F[1..(i - 1)], q[i]>>]
      BY <1>5, <2>1 DEF FoldsTo
    <2>3. 1..(i - 1) \in SUBSET (1..MaxSnaps)
      BY <1>0
    <2>4. F[1..(i - 1)] \in A
      BY <2>3
    <2>5. f[i] = F[1..i] /\ f[i - 1] = F[1..(i - 1)]
      BY <1>0
    <2> QED BY <1>3, <1>4, <2>2, <2>4, <2>5
  <1>8. DOMAIN f = 0..MaxSnaps
    OBVIOUS
  <1>9. f = [n \in DOMAIN f |-> f[n]]
    OBVIOUS
  <1> HIDE DEF f
  <1>10. \A n \in 0..MaxSnaps : f[n] = IF n = 0 THEN S ELSE DropOldest(f[n - 1], B)
    <2> TAKE n \in 0..MaxSnaps
    <2>1. CASE n = 0
      BY <1>6, <2>1
    <2>2. CASE n # 0
      <3>1. n \in 1..MaxSnaps
        BY <1>0, <2>2
      <3> QED BY <1>7, <2>2, <3>1
    <2> QED BY <2>1, <2>2
  <1>11. Eq(f)
    BY <1>8, <1>9, <1>10
  <1> DEFINE L == CHOOSE g : Eq(g)
  <1>12. Eq(L)
    <2> HIDE DEF Eq
    <2> QED BY <1>11
  <1>13. RestartLoop(S, B) = L[MaxSnaps]
    BY DEF RestartLoop
  <1> HIDE DEF L
  <1>14. L[0] = S
    BY <1>0, <1>12
  <1>15. ASSUME NEW k \in 1..MaxSnaps
         PROVE  L[k] = DropOldest(L[k - 1], B)
    <2>1. k \in 0..MaxSnaps /\ k # 0
      BY <1>0
    <2> QED BY <1>12, <2>1
  <1> QED BY <1>13, <1>14, <1>15 DEF Rounds

\* From what the pass retains after i snapshots, one round of the re-test
\* either finds nothing, and neither does the rest of the pass, or drops the
\* snapshot that the pass drops next.
LEMMA RoundFollowsPass ==
  ASSUME NEW S, Stored(S), NEW B, NEW p, Lists(p, S),
         NEW n \in Nat, n = Cardinality(S), NEW m \in Nat, m = OlderCount(n),
         NEW R, Retained(R, S, B, m, p), NEW i \in 0..m
  PROVE  \/ DropOldest(R[i], B) = R[i] /\ R[m] = R[i]
         \/ \E j \in i + 1..m : DropOldest(R[i], B) = R[j] /\ R[m] # R[i]
  <1>1. PICK Q : Q = R[i]
    OBVIOUS
  <1>2. m <= n
    BY DEF OlderCount
  <1>3. /\ Q \subseteq S
        /\ \A j \in i + 1..n : p[j] \in Q
        /\ \A j \in 1..i : p[j] \in Q => Needed(Q, p[j], B)
    BY <1>1, RetainedFacts DEF RetainedAt
  <1>4. ASSUME NEW j \in 1..n
        PROVE  IsTwoNewest(Q, p[j]) <=> j > m
    <2>1. \A l \in m + 1..n : p[l] \in Q
      BY <1>3
    <2> QED BY <1>3, <2>1, TwoNewestPlaces
  <1> DEFINE D == Droppable(Q, B)
             J == {j \in i + 1..m : ~Needed(Q, p[j], B)}
  <1>5. ASSUME NEW j \in 1..n
        PROVE  p[j] \in D <=> j \in J
    <2>1. p[j] \in D <=> p[j] \in Q /\ ~(j > m) /\ ~Needed(Q, p[j], B)
      BY <1>4 DEF Droppable
    <2>2. CASE j \in i + 1..n
      BY <1>2, <1>3, <2>1, <2>2
    <2>3. CASE j \notin i + 1..n
      <3>1. j \in 1..i
        BY <2>3
      <3> QED BY <1>3, <2>1, <2>3, <3>1
    <2> QED BY <2>2, <2>3
  <1>6. \A s \in Q : \E j \in 1..n : p[j] = s
    BY <1>3 DEF Lists
  <1>7. D \subseteq Q
    BY DEF Droppable
  <1>8. CASE J = {}
    <2>1. D = {}
      BY <1>5, <1>6, <1>7, <1>8
    <2>2. DropOldest(Q, B) = Q
      BY <2>1 DEF DropOldest
    <2>3. \A j \in i + 1..m : Needed(R[i], p[j], B)
      BY <1>1, <1>8
    <2>4. m \in i..m
      OBVIOUS
    <2>5. R[m] = R[i]
      <3>1. m \in Nat /\ i \in 0..m /\ Retained(R, S, B, m, p)
        OBVIOUS
      <3> QED BY ONLY <2>3, <2>4, <3>1, NothingDropped
    <2> QED BY <1>1, <2>2, <2>5
  <1>9. CASE J # {}
    <2>1. J \in SUBSET Nat
      OBVIOUS
    <2> HIDE DEF J
    <2>2. PICK j \in J : \A k \in J : j <= k
      BY <1>9, <2>1, LeastElement
    <2>3. j \in i + 1..m /\ ~Needed(Q, p[j], B) /\ j \in 1..n /\ j - 1 \in i..m
      BY <1>2 DEF J
    <2>4. \A k \in i + 1..j - 1 : Needed(R[i], p[k], B)
      <3> TAKE k \in i + 1..j - 1
      <3>1. k \in i + 1..m /\ ~(j <= k)
        BY <2>3
      <3>2. k \notin J
        BY <2>2, <3>1
      <3> QED BY <1>1, <3>1, <3>2 DEF J
    <2>5. R[j - 1] = Q
      BY <1>1, <2>3, <2>4, NothingDropped
    <2>6. R[j] = Q \ {p[j]}
      <3>1. j \in 1..m
        BY <2>3
      <3> QED BY <2>3, <2>5, <3>1 DEF Retained
    <2> HIDE DEF D
    <2>7. p[j] \in D /\ p[j] \in Q
      BY <1>5, <1>7, <2>2, <2>3
    <2>8. ASSUME NEW s \in Q
          PROVE  (s \in D /\ \A u \in D : s.store <= u.store) <=> s = p[j]
      <3>1. ASSUME NEW u \in D
            PROVE  p[j].store <= u.store /\ u.store \in Nat /\ p[j].store \in Nat
        <4>1. PICK k \in 1..n : p[k] = u
          BY <1>6, <1>7
        <4>2. j <= k
          BY <1>5, <2>2, <4>1
        <4>3. p[k].store \in Nat /\ p[j].store \in Nat /\ (p[k].store < p[j].store <=> k < j)
          BY <2>3, PlacesOrdered
        <4> QED BY <2>3, <4>1, <4>2, <4>3
      <3>2. ASSUME s \in D, \A u \in D : s.store <= u.store
            PROVE  s = p[j]
        <4>1. s.store <= p[j].store
          BY <2>7, <3>2
        <4>2. s.store = p[j].store
          BY <3>1, <3>2, <4>1
        <4>3. s \in S /\ p[j] \in S
          BY <1>3, <2>7
        <4> QED BY <4>2, <4>3 DEF Stored
      <3> QED BY <2>7, <3>1, <3>2
    <2>9. DropOldest(Q, B) = Q \ {p[j]}
      BY <2>8 DEF DropOldest, D
    <2>10. R[m] # R[i]
      <3>1. m \in 0..m /\ j \in 0..m
        BY <2>3
      <3>2. R[m] \subseteq R[j]
        BY <3>1, RetainedFacts DEF RetainedAt
      <3> QED BY <1>1, <2>6, <2>7, <3>2
    <2> QED BY <1>1, <2>3, <2>6, <2>9, <2>10
  <1> QED BY <1>8, <1>9

\* The single pass drops what the re-test drops.
LEMMA OnePass ==
  ASSUME NEW S, Rows(S), Cardinality(S) <= MaxSnaps, NEW B
  PROVE  r3_drops(by_store_seq(S), B) = S \ RestartLoop(S, B)
  <1>0. Stored(S) /\ MaxSnaps \in Nat
    BY PlanAssumption DEF Rows
  <1>1. PICK p : p = by_store_seq(S) /\ Lists(p, S)
    BY <1>0, StoreOrder
  <1>2. PICK n \in Nat : n = Cardinality(S)
    BY <1>1 DEF Lists
  <1>3. PICK m \in Nat : m = OlderCount(n) /\ m <= n
    BY DEF OlderCount
  <1>4. PICK R : Retained(R, S, B, m, p) /\ R[m] \subseteq S /\ r3_drops(p, B) = S \ R[m]
    BY <1>1, <1>2, <1>3, PassRetains
  <1>5. PICK L : Rounds(L, S, B) /\ RestartLoop(S, B) = L[MaxSnaps]
    BY RestartRounds
  <1> DEFINE T == {k \in 0..MaxSnaps : \E i \in 0..m : L[k] = R[i] /\ (i >= k \/ R[i] = R[m])}
  <1>6. 0 \in T
    <2>1. L[0] = R[0] /\ 0 \in 0..m
      BY <1>4, <1>5 DEF Rounds, Retained
    <2> QED BY <1>0, <2>1
  <1>7. ASSUME NEW k \in 1..MaxSnaps, k - 1 \in T
        PROVE  k \in T
    <2>1. PICK i \in 0..m : L[k - 1] = R[i] /\ (i >= k - 1 \/ R[i] = R[m])
      BY <1>7
    <2>2. L[k] = DropOldest(R[i], B) /\ k \in 0..MaxSnaps
      BY <1>0, <1>5, <2>1 DEF Rounds
    <2>3. \/ DropOldest(R[i], B) = R[i] /\ R[m] = R[i]
          \/ \E j \in i + 1..m : DropOldest(R[i], B) = R[j] /\ R[m] # R[i]
      <3>1. i \in 0..m /\ m \in Nat /\ n \in Nat
        OBVIOUS
      <3> QED BY ONLY <1>0, <1>1, <1>2, <1>3, <1>4, <3>1, RoundFollowsPass
    <2>4. CASE DropOldest(R[i], B) = R[i] /\ R[m] = R[i]
      BY <2>2, <2>4
    <2>5. CASE \E j \in i + 1..m : DropOldest(R[i], B) = R[j] /\ R[m] # R[i]
      <3>1. PICK j \in i + 1..m : DropOldest(R[i], B) = R[j] /\ R[m] # R[i]
        BY <2>5
      <3>2. j \in 0..m /\ j >= k
        BY <1>0, <2>1, <3>1
      <3> QED BY <2>2, <3>1, <3>2
    <2> QED BY <2>3, <2>4, <2>5
  <1> HIDE DEF T
  <1>8. MaxSnaps \in T
    BY <1>0, <1>6, <1>7, StepByStep
  <1>9. PICK i \in 0..m : L[MaxSnaps] = R[i] /\ (i >= MaxSnaps \/ R[i] = R[m])
    BY <1>8 DEF T
  <1>10. L[MaxSnaps] = R[m]
    <2>1. i >= MaxSnaps => i = m
      BY <1>0, <1>2, <1>3
    <2> QED BY <1>9, <2>1
  <1> QED BY <1>1, <1>4, <1>5, <1>10


\* The computed plan is empty when the predicate says so.
LEMMA PlanAgrees ==
  ASSUME NEW S, Rows(S), NEW H, NEW B
  PROVE  LET plan == plan_worker(S, H, B)
         IN (plan.delete_bodies = {} /\ plan.drop_snapshots = {}) <=> PlanEmpty(S, H, B)
  <1>1. PICK D : D = r1_deletions(S, H)
    OBVIOUS
  <1>2. /\ plan_worker(S, H, B).delete_bodies = D
        /\ plan_worker(S, H, B).drop_snapshots = r3_drops(by_store_seq(S), B \cup D)
    BY <1>1 DEF plan_worker
  <1>3. r3_drops(by_store_seq(S), B) = {}
          <=> \A s \in S : IsTwoNewest(S, s) \/ Needed(S, s, B)
    BY DropsNothing
  <1>4. D = {} => B \cup D = B
    OBVIOUS
  <1>5. PlanEmpty(S, H, B) <=> D = {} /\ \A s \in S : IsTwoNewest(S, s) \/ Needed(S, s, B)
    BY <1>1 DEF PlanEmpty
  <1> QED BY <1>2, <1>3, <1>4, <1>5

\* A run of R3 leaves a settled item: R1 finds nothing new, every older
\* snapshot left is needed, and every header keeps its cover.
LEMMA PassSettles ==
  ASSUME NEW S, Rows(S), NEW H, r1_deletions(S, H) = {}, NEW B
  PROVE  LET left == S \ r3_drops(by_store_seq(S), B)
         IN /\ PlanEmpty(left, H, B)
            /\ \A dot \in B : Covered(S, dot) => Covered(left, dot)
  <1>0. Stored(S) /\ \A s \in S : s.store \in Nat
    BY DEF Rows, Stored
  <1>1. PICK p : p = by_store_seq(S) /\ Lists(p, S)
    BY <1>0, StoreOrder
  <1>2. PICK n \in Nat : n = Cardinality(S)
    BY <1>1 DEF Lists
  <1>3. PICK m \in Nat : m = OlderCount(n) /\ m <= n
    BY DEF OlderCount
  <1>4. PICK R : Retained(R, S, B, m, p) /\ R[m] \subseteq S /\ r3_drops(p, B) = S \ R[m]
    BY <1>1, <1>2, <1>3, PassRetains
  <1>5. ASSUME NEW i \in 0..m
        PROVE  RetainedAt(R, S, B, n, p, i)
    <2>1. i \in 0..m
      OBVIOUS
    <2> QED BY ONLY <1>0, <1>1, <1>2, <1>3, <1>4, <2>1, RetainedFacts
  <1>6. ASSUME NEW i \in 0..m, NEW j \in 1..n
        PROVE  IsTwoNewest(R[i], p[j]) <=> j > m
    <2>1. R[i] \in SUBSET S /\ \A l \in m + 1..n : p[l] \in R[i]
      BY <1>5 DEF RetainedAt
    <2>2. PICK Q \in SUBSET S : Q = R[i] /\ \A l \in m + 1..n : p[l] \in Q
      BY <2>1
    <2>3. IsTwoNewest(Q, p[j]) <=> j > m
      BY <1>0, <1>1, <1>2, <1>3, <2>2, TwoNewestPlaces
    <2> QED BY <2>2, <2>3
  <1> DEFINE T == {i \in 0..m : r1_deletions(R[i], H) = {}}
  <1>7. 0 \in T
    BY <1>4 DEF Retained
  <1>8. ASSUME NEW i \in 1..m, i - 1 \in T
        PROVE  i \in T
    <2>1. i - 1 \in 0..m /\ i \in 0..m /\ i \in 1..n /\ i \in (i - 1) + 1..n /\ ~(i > m)
      BY <1>3
    <2>2. PICK Q : Q = R[i - 1]
      OBVIOUS
    <2>3. Q \subseteq S /\ p[i] \in Q
      BY <1>5, <2>1, <2>2 DEF RetainedAt
    <2>4. ~IsTwoNewest(Q, p[i])
      BY <1>6, <2>1, <2>2
    <2>5. r1_deletions(Q, H) = {}
      BY <1>8, <2>2
    <2>6. \A t \in Q : t.store \in Nat
      BY <1>0, <2>3
    <2>7. r1_deletions(Q \ {p[i]}, H) = {}
      BY <2>3, <2>4, <2>5, <2>6, DropKeepsR1Empty
    <2>8. R[i] = IF Needed(Q, p[i], B) THEN Q ELSE Q \ {p[i]}
      BY <1>4, <2>2 DEF Retained
    <2> QED BY <2>1, <2>5, <2>7, <2>8
  <1>9. m \in T
    <2>1. m \in 0..m
      OBVIOUS
    <2> HIDE DEF T
    <2> QED BY <1>7, <1>8, <2>1, StepByStep
  <1>10. PICK Q : Q = R[m]
    OBVIOUS
  <1>11. /\ Q \subseteq S
         /\ \A j \in 1..m : p[j] \in Q => Needed(Q, p[j], B)
         /\ \A dot \in B : Covered(S, dot) => Covered(Q, dot)
         /\ \A j \in 1..n : IsTwoNewest(Q, p[j]) <=> j > m
    <2>1. m \in 0..m
      OBVIOUS
    <2> QED BY <1>5, <1>6, <1>10, <2>1 DEF RetainedAt
  <1>12. ASSUME NEW s \in Q
         PROVE  IsTwoNewest(Q, s) \/ Needed(Q, s, B)
    <2>1. PICK j \in 1..n : p[j] = s
      BY <1>1, <1>2, <1>11 DEF Lists
    <2> QED BY <1>11, <2>1
  <1>13. r1_deletions(Q, H) = {}
    BY <1>9, <1>10
  <1>14. S \ r3_drops(by_store_seq(S), B) = Q
    BY <1>1, <1>4, <1>10
  <1> QED BY <1>11, <1>12, <1>13, <1>14 DEF PlanEmpty

(***************************************************************************)
(* One item: worker runs and pages                                         *)
(***************************************************************************)

\* What every state of one item satisfies.
PlanInv ==
  /\ Rows(snaps) /\ Cardinality(snaps) <= MaxSnaps
  /\ \A dot \in bodiless : Covered(snaps, dot)
  /\ PageHasCovers

\* Fewer snapshots are still stored snapshots.
LEMMA RowsShrink ==
  ASSUME NEW S, Rows(S), NEW Q \in SUBSET S
  PROVE  Rows(Q) /\ Cardinality(Q) <= Cardinality(S) /\ Cardinality(Q) \in Nat
                 /\ Cardinality(S) \in Nat
  <1>1. IsFiniteSet(S) /\ IsFiniteSet(Q) /\ Cardinality(Q) <= Cardinality(S)
    BY FS_Subset DEF Rows, Stored
  <1> QED BY <1>1, FS_CardinalityType DEF Rows, Stored

LEMMA PlanInitHolds ==
  ASSUME PlanInit
  PROVE  PlanInv
  <1>0. MaxSnaps \in Nat
    BY PlanAssumption
  <1>a. PICK n \in 0..MaxSnaps : \E row \in [1..n -> [author: Devices, clamped: Clamps]] :
          snaps = {[store |-> k, author |-> row[k].author, clamped |-> row[k].clamped] : k \in 1..n}
    BY DEF PlanInit
  <1>1. PICK row \in [1..n -> [author: Devices, clamped: Clamps]] :
          snaps = {[store |-> k, author |-> row[k].author, clamped |-> row[k].clamped] : k \in 1..n}
    BY <1>a
  <1> DEFINE f == [k \in 1..n |-> [store |-> k, author |-> row[k].author, clamped |-> row[k].clamped]]
  <1>2. \A k \in 1..n : f[k].store = k /\ f[k].author = row[k].author
    OBVIOUS
  <1>3. snaps = {f[k] : k \in 1..n} /\ f \in [1..n -> snaps]
    BY <1>1
  <1> HIDE DEF f
  <1>4. f \in Surjection(1..n, snaps)
    BY <1>3 DEF Surjection
  <1>5. IsFiniteSet(1..n) /\ Cardinality(1..n) = n
    BY <1>0, FS_Interval
  <1>6. IsFiniteSet(snaps) /\ Cardinality(snaps) <= n
    BY <1>4, <1>5, FS_Surjection
  <1>7. Cardinality(snaps) <= MaxSnaps
    BY <1>0, <1>6, FS_CardinalityType
  <1>8. \A k \in 1..n : row[k].author \in Devices /\ k \in Nat
    OBVIOUS
  <1>9. \A s \in snaps : s.store \in Nat /\ s.author \in Devices
    BY <1>2, <1>3, <1>8
  <1>10. \A s, t \in snaps : s.store = t.store => s = t
    BY <1>2, <1>3
  <1>11. Rows(snaps)
    BY <1>6, <1>9, <1>10 DEF Rows, Stored
  <1>12. PageHasCovers
    BY DEF PlanInit, NoPage, PageHasCovers
  <1> QED BY <1>7, <1>11, <1>12 DEF PlanInit, PlanInv

\* A worker run keeps the invariant and leaves nothing to do.
LEMMA WorkerKeeps ==
  ASSUME PlanInv, Worker
  PROVE  PlanInv' /\ PlanEmpty(snaps', held', bodiless')
  <1>1. PICK D : D = r1_deletions(snaps, held)
    OBVIOUS
  <1>2. PICK X : X = r3_drops(by_store_seq(snaps), bodiless \cup D)
    OBVIOUS
  <1>3. /\ held' = held \ D /\ bodiless' = bodiless \cup D
        /\ snaps' = snaps \ X /\ page' = page
    BY <1>1, <1>2 DEF Worker, plan_worker
  <1>4. Rows(snaps) /\ Cardinality(snaps) <= MaxSnaps
    BY DEF PlanInv
  <1>5. r1_deletions(snaps, held \ D) = {}
    BY <1>1, R1Idempotent
  <1>6. /\ PlanEmpty(snaps \ X, held \ D, bodiless \cup D)
        /\ \A dot \in bodiless \cup D : Covered(snaps, dot) => Covered(snaps \ X, dot)
    BY <1>2, <1>4, <1>5, PassSettles
  <1>7. \A dot \in D : Covered(snaps, dot)
    BY <1>1, TwoAuthorsCover DEF r1_deletions
  <1>8. \A dot \in bodiless' : Covered(snaps', dot)
    BY <1>3, <1>6, <1>7 DEF PlanInv
  <1>9. Rows(snaps') /\ Cardinality(snaps') <= MaxSnaps
    <2>1. MaxSnaps \in Nat /\ snaps \ X \in SUBSET snaps
      BY PlanAssumption
    <2>2. /\ Rows(snaps \ X) /\ Cardinality(snaps \ X) <= Cardinality(snaps)
          /\ Cardinality(snaps \ X) \in Nat /\ Cardinality(snaps) \in Nat
      BY <1>4, <2>1, RowsShrink
    <2> QED BY <1>3, <1>4, <2>1, <2>2
  <1>10. PageHasCovers'
    BY <1>3 DEF PlanInv, PageHasCovers
  <1> QED BY <1>3, <1>6, <1>8, <1>9, <1>10 DEF PlanInv

\* A page keeps it.
LEMMA ServePageKeeps ==
  ASSUME PlanInv, NEW headers \in SUBSET bodiless, ServePage(headers)
  PROVE  PlanInv'
  <1>1. PICK sel : sel = select_covers(snaps, headers)
    OBVIOUS
  <1>2. /\ page' = [headers |-> headers, sel |-> sel, from |-> snaps]
        /\ snaps' = snaps /\ held' = held /\ bodiless' = bodiless
    BY <1>1 DEF ServePage
  <1>3. /\ sel.uncovered = {dot \in headers : ~Covered(snaps, dot)}
        /\ \A dot \in headers : TwoAuthors(snaps, dot) => TwoAuthors(sel.covers, dot)
        /\ \A s \in sel.covers : \E dot \in headers : Covers(s, dot)
    <2>1. Stored(snaps)
      BY DEF PlanInv, Rows
    <2> QED BY <1>1, <2>1, SelectCovers
  <1>4. sel.uncovered = {}
    BY <1>3 DEF PlanInv
  <1>5. PageHasCovers'
    BY <1>2, <1>3, <1>4 DEF PageHasCovers
  <1> QED BY <1>2, <1>5 DEF PlanInv

LEMMA PlanStutter ==
  ASSUME PlanInv, UNCHANGED planVars
  PROVE  PlanInv'
  BY DEF PlanInv, planVars, PageHasCovers

LEMMA PlanKept == PlanSpec => []PlanInv
  <1>1. PlanInit => PlanInv
    BY PlanInitHolds
  <1>2. PlanInv /\ [PlanNext]_planVars => PlanInv'
    BY WorkerKeeps, ServePageKeeps, PlanStutter DEF PlanNext
  <1> QED BY <1>1, <1>2, PTL DEF PlanSpec

\* Owner rule 2 (select_covers): whatever headers share a page, each has a
\* cover in it, covers by two authors where the store has them, and no cover
\* is sent for nothing.
THEOREM PageCovered == PlanSpec => []PageHasCovers
  <1>1. PlanInv => PageHasCovers
    BY DEF PlanInv
  <1> QED BY <1>1, PlanKept, PTL

\* The plan that plan_worker computes from its counts is empty exactly when
\* Compaction's predicate, by which VaultStore judges an item, says so.
THEOREM ComputedPlanAgrees == PlanSpec => []EmptyPlanAgrees
  <1>1. PlanInv => EmptyPlanAgrees
    BY PlanAgrees DEF PlanInv, EmptyPlanAgrees
  <1> QED BY <1>1, PlanKept, PTL

\* r3_drops, which tests every older snapshot once, drops what the re-test
\* from the oldest after each drop would.
THEOREM OnePassEnough == PlanSpec => []OnePassIsRestart
  <1>1. PlanInv => OnePassIsRestart
    BY OnePass DEF PlanInv, OnePassIsRestart
  <1> QED BY <1>1, PlanKept, PTL

\* One worker run settles the item: what it leaves gives a second run nothing
\* to delete and nothing to drop, so an item taken off the queue has no work
\* left.
THEOREM RunSettles ==
  PlanSpec => [][Worker => PlanEmpty(snaps', held', bodiless')]_planVars
  <1>1. PlanInv /\ [PlanNext]_planVars
          => [Worker => PlanEmpty(snaps', held', bodiless')]_planVars
    BY WorkerKeeps
  <1> QED BY <1>1, PlanKept, PTL DEF PlanSpec


(***************************************************************************)
(* The workers' queue                                                      *)
(***************************************************************************)

\* A queue with one row per item.
Once(q) ==
  /\ q \in Seq(Entry)
  /\ \A j, k \in 1..Len(q) : q[j].item = q[k].item => j = k

\* A row put anywhere, of an item that has none.
LEMMA InsertOnce ==
  ASSUME NEW q, Once(q), NEW k \in 0..Len(q), NEW e \in Entry,
         \A j \in 1..Len(q) : q[j].item # e.item
  PROVE  Once(InsertAt(q, k + 1, e))
  <1>1. q \in Seq(Entry) /\ Len(q) \in Nat
    BY DEF Once
  <1>2. PICK a : a = SubSeq(q, 1, k)
    OBVIOUS
  <1>3. PICK b : b = SubSeq(q, k + 1, Len(q))
    OBVIOUS
  <1>4. a \in Seq(Entry) /\ Len(a) = k /\ \A j \in 1..k : a[j] = q[j]
    BY <1>1, <1>2
  <1>5. b \in Seq(Entry) /\ Len(b) = Len(q) - k /\ \A j \in 1..Len(q) - k : b[j] = q[j + k]
    BY <1>1, <1>3
  <1>6. PICK r : r = InsertAt(q, k + 1, e)
    OBVIOUS
  <1>7. r = a \o <<e>> \o b
    <2>1. (k + 1) - 1 = k
      OBVIOUS
    <2> QED BY <1>2, <1>3, <1>6, <2>1 DEF InsertAt
  <1>8. PICK c : c = a \o <<e>>
    OBVIOUS
  <1>9. c \in Seq(Entry) /\ Len(c) = k + 1 /\ c[k + 1] = e /\ \A j \in 1..k : c[j] = q[j]
    BY <1>4, <1>8
  <1>10. /\ r \in Seq(Entry) /\ Len(r) = Len(q) + 1
         /\ \A j \in 1..k + 1 : r[j] = c[j]
         /\ \A j \in k + 2..Len(q) + 1 : r[j] = b[j - (k + 1)]
    BY <1>1, <1>5, <1>7, <1>8, <1>9, SMTT(30)
  <1>11. /\ \A j \in 1..k : r[j] = q[j]
         /\ r[k + 1] = e
         /\ \A j \in k + 2..Len(q) + 1 : r[j] = q[j - 1]
    <2>1. ASSUME NEW j \in k + 2..Len(q) + 1
          PROVE  r[j] = q[j - 1]
      <3>1. j - (k + 1) \in 1..Len(q) - k /\ (j - (k + 1)) + k = j - 1
        BY <1>1
      <3> QED BY <1>5, <1>10, <3>1
    <2> QED BY <1>9, <1>10, <2>1
  <1>a. ASSUME NEW i \in 1..Len(q) + 1, i # k + 1
        PROVE  \E x \in 1..Len(q) : r[i] = q[x] /\ x = (IF i <= k THEN i ELSE i - 1)
    <2>1. CASE i <= k
      <3>1. i \in 1..k /\ i \in 1..Len(q)
        BY <1>1, <2>1
      <3>2. r[i] = q[i]
        BY <1>11, <3>1
      <3> QED BY <2>1, <3>1, <3>2
    <2>2. CASE i > k
      <3>1. i \in k + 2..Len(q) + 1 /\ i - 1 \in 1..Len(q)
        BY <1>1, <1>a, <2>2
      <3>2. r[i] = q[i - 1]
        BY <1>11, <3>1
      <3> QED BY <2>2, <3>1, <3>2
    <2> QED BY <2>1, <2>2
  <1>12. ASSUME NEW i \in 1..Len(q) + 1, NEW j \in 1..Len(q) + 1, i < j,
                r[i].item = r[j].item
         PROVE  FALSE
    <2>1. CASE i = k + 1
      <3>1. r[j] = q[j - 1] /\ j - 1 \in 1..Len(q)
        BY <1>1, <1>11, <1>12, <2>1
      <3> QED BY <1>11, <1>12, <2>1, <3>1
    <2>2. CASE j = k + 1
      <3>1. r[i] = q[i] /\ i \in 1..Len(q)
        BY <1>1, <1>11, <1>12, <2>2
      <3> QED BY <1>11, <1>12, <2>2, <3>1
    <2>3. CASE i # k + 1 /\ j # k + 1
      <3>1. PICK x \in 1..Len(q) : r[i] = q[x] /\ x = (IF i <= k THEN i ELSE i - 1)
        BY <1>a, <2>3
      <3>2. PICK y \in 1..Len(q) : r[j] = q[y] /\ y = (IF j <= k THEN j ELSE j - 1)
        BY <1>a, <2>3
      <3>3. x = y
        BY <1>12, <3>1, <3>2 DEF Once
      <3> QED BY <1>12, <2>3, <3>1, <3>2, <3>3
    <2> QED BY <2>1, <2>2, <2>3
  <1>13. \A i, j \in 1..Len(r) : r[i].item = r[j].item => i = j
    <2> TAKE i, j \in 1..Len(r)
    <2>1. i \in 1..Len(q) + 1 /\ j \in 1..Len(q) + 1
      BY <1>10
    <2>2. r[i].item = r[j].item => ~(i < j) /\ ~(j < i)
      BY <1>12, <2>1
    <2> QED BY <1>1, <2>1, <2>2
  <1> QED BY <1>6, <1>10, <1>13 DEF Once

\* A row taken out.
LEMMA RemoveOnce ==
  ASSUME NEW q, Once(q), NEW k \in 1..Len(q)
  PROVE  /\ Once(RemoveAt(q, k))
         /\ \A j \in 1..Len(RemoveAt(q, k)) : RemoveAt(q, k)[j].item # q[k].item
  <1>1. q \in Seq(Entry) /\ Len(q) \in Nat
    BY DEF Once
  <1>2. PICK a : a = SubSeq(q, 1, k - 1)
    OBVIOUS
  <1>3. PICK b : b = SubSeq(q, k + 1, Len(q))
    OBVIOUS
  <1>4. a \in Seq(Entry) /\ Len(a) = k - 1 /\ \A j \in 1..k - 1 : a[j] = q[j]
    BY <1>1, <1>2
  <1>5. b \in Seq(Entry) /\ Len(b) = Len(q) - k /\ \A j \in 1..Len(q) - k : b[j] = q[j + k]
    BY <1>1, <1>3
  <1>6. PICK r : r = RemoveAt(q, k)
    OBVIOUS
  <1>7. r = a \o b
    BY <1>2, <1>3, <1>6 DEF RemoveAt
  <1>8. /\ r \in Seq(Entry) /\ Len(r) = Len(q) - 1
        /\ \A j \in 1..k - 1 : r[j] = a[j]
        /\ \A j \in k..Len(q) - 1 : r[j] = b[j - (k - 1)]
    BY <1>1, <1>4, <1>5, <1>7, SMTT(30)
  <1>9. ASSUME NEW j \in 1..Len(q) - 1
        PROVE  \E x \in 1..Len(q) : r[j] = q[x] /\ x = (IF j < k THEN j ELSE j + 1)
    <2>1. CASE j < k
      <3>1. j \in 1..k - 1 /\ j \in 1..Len(q)
        BY <1>1, <2>1
      <3>2. r[j] = q[j]
        BY <1>4, <1>8, <3>1
      <3> QED BY <2>1, <3>1, <3>2
    <2>2. CASE j >= k
      <3>1. /\ j \in k..Len(q) - 1 /\ j + 1 \in 1..Len(q)
            /\ j - (k - 1) \in 1..Len(q) - k /\ (j - (k - 1)) + k = j + 1
        BY <1>1, <2>2
      <3>2. r[j] = q[j + 1]
        BY <1>5, <1>8, <3>1
      <3> QED BY <2>2, <3>1, <3>2
    <2> QED BY <2>1, <2>2
  <1>10. ASSUME NEW i \in 1..Len(q) - 1, NEW j \in 1..Len(q) - 1, r[i].item = r[j].item
         PROVE  i = j
    <2>1. PICK x \in 1..Len(q) : r[i] = q[x] /\ x = (IF i < k THEN i ELSE i + 1)
      BY <1>9
    <2>2. PICK y \in 1..Len(q) : r[j] = q[y] /\ y = (IF j < k THEN j ELSE j + 1)
      BY <1>9
    <2>3. x = y
      BY <1>10, <2>1, <2>2 DEF Once
    <2> QED BY <2>1, <2>2, <2>3
  <1>11. ASSUME NEW j \in 1..Len(q) - 1
         PROVE  r[j].item # q[k].item
    <2>1. PICK x \in 1..Len(q) : r[j] = q[x] /\ x = (IF j < k THEN j ELSE j + 1)
      BY <1>9
    <2>2. x # k
      BY <2>1
    <2> QED BY <2>1, <2>2 DEF Once
  <1> QED BY <1>6, <1>8, <1>10, <1>11 DEF Once

\* A row put last, of an item that has none.
LEMMA AppendOnce ==
  ASSUME NEW q, Once(q), NEW e \in Entry,
         \A j \in 1..Len(q) : q[j].item # e.item
  PROVE  Once(Append(q, e))
  <1>1. q \in Seq(Entry) /\ Len(q) \in Nat
    BY DEF Once
  <1>2. PICK r : r = Append(q, e)
    OBVIOUS
  <1>3. /\ r \in Seq(Entry) /\ Len(r) = Len(q) + 1 /\ r[Len(q) + 1] = e
        /\ \A j \in 1..Len(q) : r[j] = q[j]
    BY <1>1, <1>2
  <1>4. ASSUME NEW i \in 1..Len(r), NEW j \in 1..Len(r), i < j
        PROVE  r[i].item # r[j].item
    <2>1. i \in 1..Len(q) /\ (j \in 1..Len(q) \/ j = Len(q) + 1)
      BY <1>1, <1>3, <1>4
    <2> QED BY <1>3, <1>4, <2>1 DEF Once
  <1>5. \A i, j \in 1..Len(r) : r[i].item = r[j].item => i = j
    <2> TAKE i, j \in 1..Len(r)
    <2>1. r[i].item = r[j].item => ~(i < j) /\ ~(j < i)
      BY <1>4
    <2> QED BY <1>1, <1>3, <2>1
  <1> QED BY <1>2, <1>3, <1>5 DEF Once

\* A row whose time the clock has passed.
LEMMA TickOnce ==
  ASSUME NEW q, Once(q), NEW k \in 1..Len(q)
  PROVE  Once([q EXCEPT ![k].fresh = FALSE])
  <1>1. q \in Seq(Entry) /\ Len(q) \in Nat /\ q[k] \in Entry
    BY DEF Once
  <1>2. PICK e : e = [q[k] EXCEPT !.fresh = FALSE]
    OBVIOUS
  <1>3. e \in Entry /\ e.item = q[k].item
    BY <1>1, <1>2 DEF Entry
  <1>4. PICK r : r = [q EXCEPT ![k] = e]
    OBVIOUS
  <1>5. r = [q EXCEPT ![k].fresh = FALSE]
    BY <1>2, <1>4
  <1>6. r \in Seq(Entry) /\ Len(r) = Len(q)
    BY <1>1, <1>3, <1>4
  <1>7. \A j \in 1..Len(q) : r[j].item = q[j].item
    BY <1>1, <1>3, <1>4
  <1> QED BY <1>5, <1>6, <1>7 DEF Once

\* As many items are queued as there are rows.
LEMMA OnceCounts ==
  ASSUME NEW q, Once(q)
  PROVE  Cardinality({q[k].item : k \in 1..Len(q)}) = Len(q)
  <1>1. Len(q) \in Nat
    BY DEF Once
  <1> DEFINE I == {q[k].item : k \in 1..Len(q)}
             f == [k \in 1..Len(q) |-> q[k].item]
  <1>2. f \in Surjection(1..Len(q), I)
    BY DEF Surjection
  <1>3. f \in Injection(1..Len(q), I)
    <2>1. f \in [1..Len(q) -> I]
      OBVIOUS
    <2>2. \A i, j \in 1..Len(q) : f[i] = f[j] => i = j
      BY DEF Once
    <2> HIDE DEF I, f
    <2> QED BY <2>1, <2>2 DEF Injection, IsInjective
  <1>4. IsFiniteSet(1..Len(q)) /\ Cardinality(1..Len(q)) = Len(q)
    BY <1>1, FS_Interval, SMTT(30)
  <1> HIDE DEF I, f
  <1>5. Cardinality(I) = Cardinality(1..Len(q))
    BY <1>2, <1>3, <1>4, FS_Surjection
  <1> QED BY <1>4, <1>5 DEF I


\* Where a worker may be.
Places == Running \cup {"standby", "idle"}

\* A worker at place p, with t left of a batch of which c were compacted and f
\* failed, and b batches left: only within a batch is there a rest or a count,
\* an item is deferred only if there is one, and a batch starts only if the run
\* has one left.
WorkerOK(p, t, c, f, b) ==
  /\ t \in Seq(Items) /\ c \in Nat /\ f \in Nat /\ b \in 0..MaxBatches
  /\ Len(t) + c + f <= Batch
  /\ p \notin {"items", "defer"} => t = <<>> /\ c = 0 /\ f = 0
  /\ p = "defer" => t # <<>>
  /\ p = "batch" => b > 0

\* What every state of the workers satisfies.
WorkersInv ==
  /\ Once(queue)
  /\ holder \in Workers \cup {Nobody}
  /\ pc \in [Workers -> Places]
  /\ todo \in [Workers -> Seq(Items)] /\ processed \in [Workers -> Nat]
  /\ failed \in [Workers -> Nat] /\ batches \in [Workers -> 0..MaxBatches]
  /\ \A w \in Workers : WorkerOK(pc[w], todo[w], processed[w], failed[w], batches[w])
  /\ faults \in 0..MaxFaults

\* A worker that ends its run.
LEMMA RunDropped ==
  ASSUME NEW p, p \notin {"items", "defer", "batch"}
  PROVE  WorkerOK(p, <<>>, 0, 0, 0)
  BY ConstantsAssumption DEF WorkerOK

\* The rows without an item's.
LEMMA WithoutOnce ==
  ASSUME NEW i, Once(queue)
  PROVE  /\ Once(Without(i))
         /\ i \in Queued =>
              \A j \in 1..Len(Without(i)) : Without(i)[j].item # i
  <1>1. CASE i \in Queued
    <2>1. PICK k : k = Place(i)
      OBVIOUS
    <2>2. k \in 1..Len(queue) /\ queue[k].item = i
      BY <1>1, <2>1 DEF Queued, Place
    <2>3. Without(i) = RemoveAt(queue, k)
      BY <1>1, <2>1 DEF Without
    <2> QED BY <2>2, <2>3, RemoveOnce
  <1>2. CASE i \notin Queued
    BY <1>2 DEF Without
  <1> QED BY <1>1, <1>2

\* An item that fails goes last.
LEMMA DeferOnce ==
  ASSUME NEW i \in Items, Once(queue), defer(i)
  PROVE  Once(queue')
  <1>1. CASE i \in Queued
    <2>1. PICK r : r = Without(i)
      OBVIOUS
    <2>2. PICK e : e = [item |-> i, fresh |-> TRUE]
      OBVIOUS
    <2>3. Once(r) /\ \A j \in 1..Len(r) : r[j].item # i
      BY <1>1, <2>1, WithoutOnce
    <2>4. e \in Entry /\ e.item = i
      BY <2>2 DEF Entry
    <2>5. Once(Append(r, e))
      BY <2>3, <2>4, AppendOnce
    <2> QED BY <1>1, <2>1, <2>2, <2>5 DEF defer
  <1>2. CASE i \notin Queued
    BY <1>2 DEF defer
  <1> QED BY <1>1, <1>2

\* What run_compaction reads.
LEMMA QueuedTyped ==
  ASSUME NEW n \in Nat, Once(queue)
  PROVE  queued(n) \in Seq(Items) /\ Len(queued(n)) <= n
  <1>1. PICK l \in Nat : l = (IF Len(queue) < n THEN Len(queue) ELSE n) /\ l <= Len(queue) /\ l <= n
    BY DEF Once
  <1>2. queued(n) = [k \in 1..l |-> queue[k].item]
    BY <1>1 DEF queued
  <1>3. \A k \in 1..l : queue[k].item \in Items
    <2> TAKE k \in 1..l
    <2>1. queue[k] \in Entry
      BY <1>1 DEF Once
    <2> QED BY <2>1 DEF Entry
  <1>4. queued(n) \in [1..l -> Items]
    BY <1>2, <1>3
  <1> QED BY <1>1, <1>4

\* The rest of a batch after its first item.
LEMMA BatchGoesOn ==
  ASSUME NEW p, NEW t, NEW c, NEW f, NEW b, WorkerOK(p, t, c, f, b), t # <<>>
  PROVE  /\ Head(t) \in Items
         /\ WorkerOK("items", Tail(t), c + 1, f, b)
         /\ WorkerOK("items", Tail(t), c, f + 1, b)
  <1>1. t \in Seq(Items) /\ c \in Nat /\ f \in Nat /\ b \in 0..MaxBatches /\ Len(t) + c + f <= Batch
    BY DEF WorkerOK
  <1>2. Head(t) \in Items /\ Tail(t) \in Seq(Items) /\ Len(Tail(t)) = Len(t) - 1 /\ Len(t) \in Nat
    BY <1>1
  <1> QED BY <1>1, <1>2, ConstantsAssumption DEF WorkerOK

LEMMA WorkersInit ==
  ASSUME Init
  PROVE  WorkersInv
  <1>1. Once(<<>>)
    BY DEF Once
  <1>2. "standby" \in Places
    BY DEF Places
  <1>3. WorkerOK("standby", <<>>, 0, 0, 0)
    BY RunDropped
  <1> QED BY <1>1, <1>2, <1>3, ConstantsAssumption DEF Init, WorkersInv

\* A step of one worker, or of the queue.
LEMMA WorkersKept ==
  ASSUME WorkersInv, [Next]_vars
  PROVE  WorkersInv'
  <1> DEFINE W(w) == WorkerOK(pc[w], todo[w], processed[w], failed[w], batches[w])
             Moves(w, p, t, c, f, b) ==
               /\ pc' = [pc EXCEPT ![w] = p] /\ todo' = [todo EXCEPT ![w] = t]
               /\ processed' = [processed EXCEPT ![w] = c] /\ failed' = [failed EXCEPT ![w] = f]
               /\ batches' = [batches EXCEPT ![w] = b]
  <1>1. /\ Once(queue) /\ holder \in Workers \cup {Nobody} /\ pc \in [Workers -> Places]
        /\ todo \in [Workers -> Seq(Items)] /\ processed \in [Workers -> Nat]
        /\ failed \in [Workers -> Nat] /\ batches \in [Workers -> 0..MaxBatches]
        /\ faults \in 0..MaxFaults
        /\ \A w \in Workers : W(w)
    BY DEF WorkersInv
  <1>2. ASSUME NEW w \in Workers, NEW p \in Places, NEW t, NEW c, NEW f, NEW b,
               Moves(w, p, t, c, f, b), WorkerOK(p, t, c, f, b),
               Once(queue'), holder' \in Workers \cup {Nobody}, faults' \in 0..MaxFaults
        PROVE  WorkersInv'
    <2>0. t \in Seq(Items) /\ c \in Nat /\ f \in Nat /\ b \in 0..MaxBatches
      BY <1>2 DEF WorkerOK
    <2>1. /\ pc' \in [Workers -> Places]
          /\ todo' \in [Workers -> Seq(Items)] /\ processed' \in [Workers -> Nat]
          /\ failed' \in [Workers -> Nat] /\ batches' \in [Workers -> 0..MaxBatches]
      BY <1>1, <1>2, <2>0
    <2>2. ASSUME NEW v \in Workers
          PROVE  WorkerOK(pc'[v], todo'[v], processed'[v], failed'[v], batches'[v])
      <3>1. CASE v = w
        <4>1. pc'[v] = p /\ todo'[v] = t /\ processed'[v] = c /\ failed'[v] = f /\ batches'[v] = b
          BY <1>1, <1>2, <3>1
        <4> QED BY <1>2, <4>1
      <3>2. CASE v # w
        <4>1. /\ pc'[v] = pc[v] /\ todo'[v] = todo[v] /\ processed'[v] = processed[v]
              /\ failed'[v] = failed[v] /\ batches'[v] = batches[v]
          BY <1>1, <1>2, <3>2
        <4> QED BY <1>1, <4>1
      <3> QED BY <3>1, <3>2
    <2> QED BY <1>2, <2>1, <2>2 DEF WorkersInv
  <1>3. ASSUME Once(queue'), UNCHANGED <<pc, batch>>,
               holder' \in Workers \cup {Nobody}, faults' \in 0..MaxFaults
        PROVE  WorkersInv'
    BY <1>3 DEF WorkersInv, batch
  <1>4. Fault => faults' \in 0..MaxFaults
    BY <1>1, ConstantsAssumption DEF Fault
  <1>5. {"start", "batch", "items", "defer", "end", "standby", "idle"} \subseteq Places
    BY DEF Places, Running
  <1>6. ASSUME NEW w \in Workers
        PROVE  /\ pc[w] \in Places /\ W(w)
               /\ pc = [pc EXCEPT ![w] = pc[w]] /\ todo = [todo EXCEPT ![w] = todo[w]]
               /\ processed = [processed EXCEPT ![w] = processed[w]]
               /\ failed = [failed EXCEPT ![w] = failed[w]]
               /\ batches = [batches EXCEPT ![w] = batches[w]]
    BY <1>1
  <1>7. CASE UNCHANGED vars
    BY <1>1, <1>3, <1>7 DEF vars, batch
  <1>8. ASSUME NEW i \in Items, enqueue(i)
        PROVE  WorkersInv'
    <2>1. PICK k \in 0..Len(queue) : queue' = InsertAt(queue, k + 1, [item |-> i, fresh |-> TRUE])
      BY <1>8 DEF enqueue
    <2>2. PICK e \in Entry : e = [item |-> i, fresh |-> TRUE]
      BY DEF Entry
    <2>3. \A j \in 1..Len(queue) : queue[j].item # e.item
      BY <1>8, <2>2 DEF enqueue, Queued
    <2>4. Once(InsertAt(queue, k + 1, e))
      BY <1>1, <2>3, InsertOnce
    <2> QED BY <1>1, <1>3, <1>8, <2>1, <2>2, <2>4 DEF enqueue
  <1>9. CASE Tick
    <2>1. PICK k \in 1..Len(queue) : queue' = [queue EXCEPT ![k].fresh = FALSE]
      BY <1>9 DEF Tick
    <2>2. Once(queue')
      BY <1>1, <2>1, TickOnce
    <2> QED BY <1>1, <1>3, <1>9, <2>2 DEF Tick
  <1>10. CASE lose_lock
    BY <1>1, <1>3, <1>4, <1>10 DEF lose_lock
  <1>11. ASSUME NEW w \in Workers, take_leadership(w)
         PROVE  WorkersInv'
    <2>1. Moves(w, "start", todo[w], processed[w], failed[w], batches[w])
      BY <1>6, <1>11 DEF take_leadership, Goto, batch
    <2>2. WorkerOK("start", todo[w], processed[w], failed[w], batches[w])
      BY <1>6, <1>11 DEF take_leadership, WorkerOK
    <2> HIDE DEF Moves
    <2> QED BY <1>1, <1>2, <1>5, <1>11, <2>1, <2>2 DEF take_leadership
  <1>12. ASSUME NEW w \in Workers, step_down(w)
         PROVE  WorkersInv'
    <2>1. Moves(w, "standby", <<>>, 0, 0, 0)
      BY <1>12 DEF step_down, Goto, DropRun, DropBatch
    <2>2. WorkerOK("standby", <<>>, 0, 0, 0)
      BY RunDropped
    <2> HIDE DEF Moves
    <2> QED BY <1>1, <1>2, <1>5, <1>12, <2>1, <2>2 DEF step_down
  <1>13. ASSUME NEW w \in Workers, wake(w)
         PROVE  WorkersInv'
    <2>1. Moves(w, "start", todo[w], processed[w], failed[w], batches[w])
      BY <1>6, <1>13 DEF wake, Goto, batch
    <2>2. WorkerOK("start", todo[w], processed[w], failed[w], batches[w])
      BY <1>6, <1>13 DEF wake, WorkerOK
    <2> HIDE DEF Moves
    <2> QED BY <1>1, <1>2, <1>5, <1>13, <2>1, <2>2 DEF wake
  <1>14. ASSUME NEW w \in Workers, run_once(w)
         PROVE  WorkersInv'
    <2>1. Moves(w, "batch", todo[w], processed[w], failed[w], MaxBatches)
      BY <1>6, <1>14 DEF run_once, Goto
    <2>2. WorkerOK("batch", todo[w], processed[w], failed[w], MaxBatches)
      BY <1>6, <1>14, ConstantsAssumption DEF run_once, WorkerOK
    <2> HIDE DEF Moves
    <2> QED BY <1>1, <1>2, <1>5, <1>14, <2>1, <2>2 DEF run_once
  <1>15. ASSUME NEW w \in Workers, next_batch(w)
         PROVE  WorkersInv'
    <2>1. Moves(w, "items", queued(Batch), processed[w], failed[w], batches[w] - 1)
      BY <1>6, <1>15 DEF next_batch, Goto
    <2>2. Batch \in Nat /\ MaxBatches \in Nat
      BY ConstantsAssumption
    <2>3. queued(Batch) \in Seq(Items) /\ Len(queued(Batch)) <= Batch
      BY <1>1, <2>2, QueuedTyped
    <2>4. processed[w] = 0 /\ failed[w] = 0 /\ batches[w] \in 0..MaxBatches /\ batches[w] > 0
      BY <1>6, <1>15 DEF next_batch, WorkerOK
    <2>5. WorkerOK("items", queued(Batch), processed[w], failed[w], batches[w] - 1)
      BY <2>2, <2>3, <2>4 DEF WorkerOK
    <2> HIDE DEF Moves
    <2> QED BY <1>1, <1>2, <1>5, <1>15, <2>1, <2>5 DEF next_batch
  <1>16. ASSUME NEW w \in Workers, compact_item(w)
         PROVE  WorkersInv'
    <2>1. Moves(w, "items", Tail(todo[w]), processed[w] + 1, failed[w], batches[w])
      BY <1>6, <1>16 DEF compact_item
    <2>2. WorkerOK("items", Tail(todo[w]), processed[w] + 1, failed[w], batches[w])
      BY <1>6, <1>16, BatchGoesOn DEF compact_item
    <2>3. Once(queue')
      BY <1>1, <1>16, WithoutOnce DEF compact_item, dequeue
    <2> HIDE DEF Moves
    <2> QED BY <1>1, <1>2, <1>5, <1>16, <2>1, <2>2, <2>3 DEF compact_item
  <1>17. ASSUME NEW w \in Workers, item_fails(w) \/ compact_fails(w)
         PROVE  WorkersInv'
    <2>1. Moves(w, "defer", todo[w], processed[w], failed[w], batches[w])
      BY <1>6, <1>17 DEF item_fails, compact_fails, Goto, batch
    <2>2. WorkerOK("defer", todo[w], processed[w], failed[w], batches[w])
      BY <1>6, <1>17 DEF item_fails, compact_fails, WorkerOK
    <2>3. queue' = queue /\ holder' = holder /\ faults' \in 0..MaxFaults
      BY <1>1, <1>4, <1>17 DEF item_fails, compact_fails
    <2> HIDE DEF Moves
    <2> QED BY <1>1, <1>2, <1>5, <2>1, <2>2, <2>3
  <1>18. ASSUME NEW w \in Workers, defer_item(w)
         PROVE  WorkersInv'
    <2>1. Moves(w, "items", Tail(todo[w]), processed[w], failed[w] + 1, batches[w])
      BY <1>6, <1>18 DEF defer_item, Goto
    <2>2. todo[w] # <<>>
      BY <1>6, <1>18 DEF defer_item, WorkerOK
    <2>3. /\ WorkerOK("items", Tail(todo[w]), processed[w], failed[w] + 1, batches[w])
          /\ Head(todo[w]) \in Items
      BY <1>6, <2>2, BatchGoesOn
    <2>4. Once(queue')
      BY <1>1, <1>18, <2>3, DeferOnce DEF defer_item
    <2> HIDE DEF Moves
    <2> QED BY <1>1, <1>2, <1>5, <1>18, <2>1, <2>3, <2>4 DEF defer_item
  <1>19. ASSUME NEW w \in Workers, batch_done(w)
         PROVE  WorkersInv'
    <2>1. CASE processed[w] + failed[w] < Batch \/ processed[w] = 0 \/ batches[w] = 0
      <3>1. Moves(w, "end", <<>>, 0, 0, 0)
        BY <1>19, <2>1 DEF batch_done, Goto, DropRun, DropBatch
      <3>2. WorkerOK("end", <<>>, 0, 0, 0)
        BY RunDropped
      <3> HIDE DEF Moves
      <3> QED BY <1>1, <1>2, <1>5, <1>19, <3>1, <3>2 DEF batch_done
    <2>2. CASE ~(processed[w] + failed[w] < Batch \/ processed[w] = 0 \/ batches[w] = 0)
      <3>1. Moves(w, "batch", <<>>, 0, 0, batches[w])
        BY <1>6, <1>19, <2>2 DEF batch_done, Goto, DropBatch
      <3>2. WorkerOK("batch", <<>>, 0, 0, batches[w])
        BY <1>6, <2>2, ConstantsAssumption DEF WorkerOK
      <3> HIDE DEF Moves
      <3> QED BY <1>1, <1>2, <1>5, <1>19, <3>1, <3>2 DEF batch_done
    <2> QED BY <2>1, <2>2
  <1>20. ASSUME NEW w \in Workers, end_run(w)
         PROVE  WorkersInv'
    <2>1. Moves(w, "idle", todo[w], processed[w], failed[w], batches[w])
      BY <1>6, <1>20 DEF end_run, Goto, batch
    <2>2. WorkerOK("idle", todo[w], processed[w], failed[w], batches[w])
      BY <1>6, <1>20 DEF end_run, WorkerOK
    <2> HIDE DEF Moves
    <2> QED BY <1>1, <1>2, <1>5, <1>20, <2>1, <2>2 DEF end_run
  <1>21. ASSUME NEW w \in Workers, check_fails(w) \/ restart(w)
         PROVE  WorkersInv'
    <2>1. Moves(w, "standby", <<>>, 0, 0, 0)
      BY <1>21 DEF check_fails, restart, Goto, DropRun, DropBatch
    <2>2. WorkerOK("standby", <<>>, 0, 0, 0)
      BY RunDropped
    <2>3. queue' = queue /\ holder' \in Workers \cup {Nobody} /\ faults' \in 0..MaxFaults
      BY <1>1, <1>4, <1>21 DEF check_fails, restart
    <2> HIDE DEF Moves
    <2> QED BY <1>1, <1>2, <1>5, <2>1, <2>2, <2>3
  <1>22. ASSUME NEW w \in Workers, queue_fails(w)
         PROVE  WorkersInv'
    <2>1. Moves(w, "end", <<>>, 0, 0, 0)
      BY <1>22 DEF queue_fails, Goto, DropRun, DropBatch
    <2>2. WorkerOK("end", <<>>, 0, 0, 0)
      BY RunDropped
    <2>3. queue' = queue /\ holder' = holder /\ faults' \in 0..MaxFaults
      BY <1>1, <1>4, <1>22 DEF queue_fails
    <2> HIDE DEF Moves
    <2> QED BY <1>1, <1>2, <1>5, <2>1, <2>2, <2>3
  <1>23. CASE Next
    BY <1>8, <1>9, <1>10, <1>11, <1>12, <1>13, <1>14, <1>15, <1>16, <1>17, <1>18,
       <1>19, <1>20, <1>21, <1>22, <1>23 DEF Next, Step
  <1> QED BY <1>7, <1>23

\* The durable queue has one row per item through enqueue, dequeue and defer of
\* any number of workers, with or without the lock; and no worker takes more out
\* of a batch than it read (run_compaction).
THEOREM QueueRowsUnique == Spec => []TypeOK
  <1>1. WorkersInv => TypeOK
    <2> SUFFICES ASSUME WorkersInv
                 PROVE  TypeOK
      OBVIOUS
    <2>1. Cardinality(Queued) = Len(queue) /\ queue \in Seq(Entry)
      BY OnceCounts DEF WorkersInv, Queued, Once
    <2>2. \A w \in Workers : WorkerOK(pc[w], todo[w], processed[w], failed[w], batches[w])
      BY DEF WorkersInv
    <2>3. \A w \in Workers : /\ todo[w] \in Seq(Items)
                             /\ Len(todo[w]) + processed[w] + failed[w] <= Batch
      BY <2>2 DEF WorkerOK
    <2> QED BY <2>1, <2>3 DEF WorkersInv, TypeOK, Places
  <1> QED BY <1>1, WorkersInit, WorkersKept, PTL DEF Spec

=============================================================================
