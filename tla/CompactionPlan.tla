--------------------------- MODULE CompactionPlan ---------------------------
(***************************************************************************)
(* The two algorithms of rizzy-sync/src/compaction.rs as they compute:     *)
(* plan_worker with R3's single pass over per-author cover counts, and     *)
(* select_covers, the choice of covers for one Fetch page.  Compaction     *)
(* states the same rules as predicates; here the computations are checked  *)
(* against them over every input of a bounded size.                        *)
(*                                                                         *)
(* An input is one item's rows: retained snapshots numbered by store       *)
(* sequence, clamped below the heads, and the item's ops with and without  *)
(* their body, each of the latter behind a cover (VaultStore!Bodiless-     *)
(* Covered, proved there).                                                 *)
(***************************************************************************)
EXTENDS Compaction, FiniteSets, SequencesExt

CONSTANTS Written,           \* head of each device: its ops are 1..Written[d]
          MaxSnaps        \* bound: retained snapshots of the item

ASSUME PlanAssumption == MaxSnaps \in Nat

VARIABLES snaps, held, bodiless,    \* the item's rows
          page                      \* the last page served

planVars == <<snaps, held, bodiless, page>>

Dots == {o \in [dev: Devices, seq: 1..MaxSnaps] : o.seq <= Written[o.dev]}

Clamps == {v \in [Devices -> 0..MaxSnaps] : leq(v, Written)}

\* by_store_seq: oldest first.
by_store_seq(S) ==
  CHOOSE q \in [1..Cardinality(S) -> S] :
    \A i, j \in DOMAIN q : i < j => q[i].store < q[j].store

(***************************************************************************)
(* R3 over cover counts                                                    *)
(***************************************************************************)

\* How many snapshots of ordered cover each header, per author.
CoverCounts(ordered, B) ==
  [dot \in B |-> [a \in Devices |->
     Cardinality({s \in Range(ordered) : s.author = a /\ Covers(s, dot)})]]

AuthorsIn(by_author) == Cardinality({a \in Devices : by_author[a] > 0})

\* Mutant: any drop that leaves fewer than two authors counts.
lowers_any(by_author, author) ==
  (IF by_author[author] = 1 THEN AuthorsIn(by_author) - 1
                            ELSE AuthorsIn(by_author)) < 2

lowers_counted(by_author, author) ==
  LET with    == AuthorsIn(by_author)
      without == IF by_author[author] = 1 THEN with - 1 ELSE with
  IN without < 2 /\ without < with

Uncount(counts, s) ==
  [dot \in DOMAIN counts |->
     IF Covers(s, dot) THEN [counts[dot] EXCEPT ![s.author] = @ - 1]
                       ELSE counts[dot]]

\* Mutant: a drop is not taken out of the counts.
r3_step_uncounted(acc, s) ==
  IF \E dot \in DOMAIN acc.counts :
       Covers(s, dot) /\ lowers_counted(acc.counts[dot], s.author)
  THEN acc
  ELSE [counts |-> acc.counts, dropped |-> acc.dropped \cup {s}]

\* One older snapshot: kept when some bodiless header needs it, else dropped
\* and taken out of the counts.
r3_step(acc, s) ==
  IF \E dot \in DOMAIN acc.counts :
       Covers(s, dot) /\ lowers_counted(acc.counts[dot], s.author)
  THEN acc
  ELSE [counts |-> Uncount(acc.counts, s), dropped |-> acc.dropped \cup {s}]

r3_drops(ordered, B) ==
  LET older == SubSeq(ordered, 1, Len(ordered) - 2)
      start == [counts |-> CoverCounts(ordered, B), dropped |-> {}]
  IN FoldLeft(r3_step, start, older).dropped

\* R1, then R3 over its result.
plan_worker(S, H, B) ==
  LET deleted == r1_deletions(S, H)
  IN [delete_bodies  |-> deleted,
      drop_snapshots |-> r3_drops(by_store_seq(S), B \cup deleted)]

(***************************************************************************)
(* The covers of one page                                                  *)
(***************************************************************************)

\* Mutant: one cover per header is enough.
cover_step_one(headers, chosen, s) ==
  IF \E dot \in headers : Covers(s, dot) /\ cover_authors(chosen, dot) = {}
  THEN chosen \cup {s} ELSE chosen

\* A snapshot is added when it covers a header that no author covers so far,
\* or one author other than its own.
cover_step(headers, chosen, s) ==
  IF \E dot \in headers :
       /\ Covers(s, dot)
       /\ FewerThanTwo(cover_authors(chosen, dot))
       /\ s.author \notin cover_authors(chosen, dot)
  THEN chosen \cup {s} ELSE chosen

\* Newest first.
select_covers(S, headers) ==
  LET chosen == FoldLeft(LAMBDA acc, s : cover_step(headers, acc, s),
                         {}, Reverse(by_store_seq(S)))
  IN [covers    |-> chosen,
      uncovered |-> {dot \in headers : ~Covered(chosen, dot)}]

(***************************************************************************)
(* One item: worker runs and pages                                         *)
(***************************************************************************)

Worker ==
  LET plan == plan_worker(snaps, held, bodiless)
  IN /\ held' = held \ plan.delete_bodies
     /\ bodiless' = bodiless \cup plan.delete_bodies
     /\ snaps' = snaps \ plan.drop_snapshots
     /\ UNCHANGED page

\* A page carries any of the bodiless headers, and its own covers.
ServePage(headers) ==
  /\ page' = [headers |-> headers, sel |-> select_covers(snaps, headers),
              from |-> snaps]
  /\ UNCHANGED <<snaps, held, bodiless>>

NoPage == [headers |-> {}, sel |-> [covers |-> {}, uncovered |-> {}], from |-> {}]

PlanInit ==
  /\ \E n \in 0..MaxSnaps :
       \E row \in [1..n -> [author: Devices, clamped: Clamps]] :
         snaps = {[store |-> k, author |-> row[k].author,
                   clamped |-> row[k].clamped] : k \in 1..n}
  /\ held \in SUBSET Dots
  /\ bodiless = Dots \ held
  /\ \A dot \in bodiless : Covered(snaps, dot)
  /\ page = NoPage

PlanNext == Worker \/ \E headers \in SUBSET bodiless : ServePage(headers)

PlanSpec == PlanInit /\ [][PlanNext]_planVars

(***************************************************************************)
(* Properties                                                              *)
(***************************************************************************)

\* R3 as ADR 0021 section 3 words it: drop the oldest snapshot that may go,
\* and test again from the oldest, until none may go.
Droppable(S, B) == {s \in S : ~IsTwoNewest(S, s) /\ ~Needed(S, s, B)}

DropOldest(S, B) ==
  {s \in S : ~(s \in Droppable(S, B) /\ \A u \in Droppable(S, B) : s.store <= u.store)}

RestartLoop(S, B) ==
  LET left[n \in 0..MaxSnaps] ==
        IF n = 0 THEN S ELSE DropOldest(left[n - 1], B)
  IN left[MaxSnaps]

\* "R3 in one pass": the single pass over the counts drops what the re-test
\* after each drop would ("never back" in the module docs).
OnePassIsRestart ==
  r3_drops(by_store_seq(snaps), bodiless) = snaps \ RestartLoop(snaps, bodiless)

\* The computed plan is empty exactly when Compaction's predicate says so, the
\* one by which VaultStore judges that an unqueued item has no work left.
EmptyPlanAgrees ==
  LET plan == plan_worker(snaps, held, bodiless)
  IN (plan.delete_bodies = {} /\ plan.drop_snapshots = {})
       <=> PlanEmpty(snaps, held, bodiless)

\* Owner rule 2: every bodiless header of the page has a cover in the page,
\* and covers by two authors where the retained snapshots have them, whatever
\* other headers share its page; and no cover is sent that no header needs.
PageHasCovers ==
  LET chosen == page.sel.covers
  IN /\ page.sel.uncovered = {}
     /\ \A dot \in page.headers :
          TwoAuthors(page.from, dot) => TwoAuthors(chosen, dot)
     /\ \A s \in chosen : \E dot \in page.headers : Covers(s, dot)
=============================================================================
