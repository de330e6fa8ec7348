--------------------------- MODULE VaultSyncProofs ---------------------------
(***************************************************************************)
(* Proofs about VaultSync, for every history of signed headers, every set  *)
(* of snapshots, every page an untrusted server may put together and any   *)
(* number of Fetch cycles: the log stays sound, a cycle leaves nothing     *)
(* deliverable behind and nothing out in silence, what is delivered is     *)
(* applied, and nothing past a known cut-off is delivered.                 *)
(***************************************************************************)
EXTENDS VaultSync, TLAPS, FiniteSetTheorems, NaturalsInduction, WellFoundedInduction

----------------------------------------------------------------------------
(* The invariant.                                                            *)

\* A header is in a page once, and a body that opened is at hand; only a plan
\* leaves covers to absorb.
PageInv ==
  /\ \A q, r \in page : q.h = r.h => q = r
  /\ \A r \in page : r.body = "verified" => r.h \in bodies
  /\ phase # "absorb" => todo = {}

\* The head of a chain is its last accepted link, each accepted link names one
\* below it, and no frontier is more than one past its head.
HeadsInv ==
  /\ \A d \in Devices : \/ head[d] = 0
                        \/ \E h \in History : Accepted(h) /\ h.dev = d /\ h.seq = head[d]
  /\ \A h \in History : Accepted(h) => h.prev < h.seq
  /\ \A d \in Devices : frontier[d] <= head[d] + 1

\* A link past a cut-off that is known is out, unless it was delivered before.
CutInv ==
  \A h \in History : PastCutoff(h) => st[h] \in {"none", "delivered", "revoked"}

\* An item is settled past a head only with a report of it, or by a cover that
\* the commit to come checks.
ReportInv ==
  /\ \A i \in Items, d \in Devices :
       settled[i][d] > head[d] => <<i, d>> \in flagged \/ i \in absorbed
  /\ phase # "absorb" => absorbed = {}

\* A ready link has its body at hand; one that a cover settled is of a dirty
\* item, and none is dirty before a page is settled nor after a round that
\* delivered nothing.
ReadyInv ==
  /\ ready \subseteq bodies
  /\ \A h \in ready : covered(h) => h.item \in dirty
  /\ phase \in {"idle", "verify"} \/ (phase = "frontiers" /\ ~more) => dirty = {}

SyncInv ==
  /\ TypeOK
  /\ PageInv
  /\ HeadsInv
  /\ ChainsArePrefixes
  /\ IndexesExact
  /\ CutInv
  /\ ReportInv
  /\ ReadyInv
  /\ DeliveredIsApplied
  /\ NothingLeftDeliverable

----------------------------------------------------------------------------
(* Largest elements.                                                         *)

\* A set of natural numbers has a least element.
LEMMA LeastElement ==
  ASSUME NEW T \in SUBSET Nat, T # {}
  PROVE  \E x \in T : \A y \in T : x <= y
<1> DEFINE R == OpToRel(<, Nat)
<1>1. IsWellFoundedOn(R, Nat)
    BY NatLessThanWellFounded
<1>2. \A x, y \in Nat : y < x => <<y, x>> \in R
    BY DEF OpToRel
<1> HIDE DEF R
<1>3. PICK x \in T : \A y \in T : ~(<<y, x>> \in R)
    BY <1>1, WFMin
<1>4. \A y \in T : ~(y < x) /\ x \in Nat /\ y \in Nat
    BY <1>2, <1>3
<1> QED
    BY <1>4

\* A bounded set of natural numbers has a largest one.
LEMMA LargestElement ==
  ASSUME NEW N \in Nat, NEW S \in SUBSET (0..N), S # {}
  PROVE  \E x \in S : \A y \in S : y <= x
<1> DEFINE T == {t \in 0..N : N - t \in S}
<1>1. PICK s \in S : TRUE
    OBVIOUS
<1>2. s \in 0..N /\ N - s \in 0..N /\ N - (N - s) = s
    OBVIOUS
<1>3. T # {} /\ T \in SUBSET Nat
    BY <1>1, <1>2
<1>4. PICK t \in T : \A u \in T : t <= u
    BY <1>3, LeastElement
<1>5. ASSUME NEW y \in S
      PROVE  y <= N - t
  <2>1. y \in 0..N /\ N - y \in 0..N /\ N - (N - y) = y
    OBVIOUS
  <2>2. N - y \in T
    BY <2>1
  <2>3. t \in 0..N /\ t <= N - y
    BY <1>4, <2>2
  <2> QED
    BY <2>1, <2>3
<1> QED
    BY <1>4, <1>5

\* The sequence numbers of the history are bounded: it is finite.
LEMMA SeqBound == \E N \in Nat : \A h \in History : h.seq <= N
<1>1. PICK n \in Nat : ExistsSurjection(1..n, History)
    BY HistoryAssumption, FS_NatSurjection
<1>2. PICK f \in Surjection(1..n, History) : TRUE
    BY <1>1 DEF ExistsSurjection
<1>3. /\ f \in [1..n -> History]
      /\ \A h \in History : \E j \in 1..n : f[j] = h
    BY <1>2 DEF Surjection
<1>4. \A j \in 1..n : f[j].seq \in Nat
    BY <1>3, HistoryAssumption DEF Header
<1> DEFINE Bounded(m) == \E N \in Nat : \A j \in 1..m : f[j].seq <= N
           Off == {m \in 0..n : ~Bounded(m)}
<1>5. Bounded(0)
  <2>1. 0 \in Nat /\ \A j \in 1..0 : f[j].seq <= 0
    OBVIOUS
  <2> QED
    BY <2>1
<1>6. ASSUME NEW m \in 1..n, Bounded(m - 1)
      PROVE  Bounded(m)
  <2>1. PICK N \in Nat : \A j \in 1..(m - 1) : f[j].seq <= N
    BY <1>6
  <2>2. PICK s \in Nat : s = f[m].seq
    BY <1>4
  <2>3. N + s \in Nat
    OBVIOUS
  <2> HIDE DEF Bounded, Off
  <2>4. \A j \in 1..m : j \in 1..n /\ (j \in 1..(m - 1) \/ j = m)
    OBVIOUS
  <2>5. \A j \in 1..m : f[j].seq <= N + s
    BY <1>4, <2>1, <2>2, <2>4
  <2> QED
    BY <2>3, <2>5 DEF Bounded
<1> HIDE DEF Bounded
<1>7. Off \subseteq Nat /\ \A m : m \in Off <=> m \in 0..n /\ ~Bounded(m)
    OBVIOUS
<1> HIDE DEF Off
<1>8. Off = {}
  <2> SUFFICES ASSUME Off # {}
               PROVE  FALSE
    OBVIOUS
  <2>1. PICK m \in Off : \A k \in Off : m <= k
    BY <1>7, LeastElement
  <2>2. m \in 0..n /\ ~Bounded(m) /\ m # 0
    BY <1>5, <1>7, <2>1
  <2>3. m \in 1..n /\ m - 1 \in 0..n /\ ~(m <= m - 1)
    BY <2>2
  <2>4. Bounded(m - 1)
    BY <1>7, <2>1, <2>3
  <2> QED
    BY <1>6, <2>2, <2>3, <2>4
<1>9. Bounded(n)
    BY <1>7, <1>8
<1>10. PICK N \in Nat : \A j \in 1..n : f[j].seq <= N
    BY <1>9 DEF Bounded
<1> QED
    BY <1>3, <1>10

\* What the maximum over some links and a number is.
LEMMA HighestIs ==
  ASSUME NEW n \in Nat, NEW S, \A x \in S : \E h \in History : x = h.seq,
         NEW m, m = CHOOSE k \in {n} \cup S : \A j \in {n} \cup S : j <= k
  PROVE  m \in Nat /\ (m = n \/ m \in S) /\ n <= m /\ \A j \in S : j <= m
<1>1. PICK N \in Nat : \A h \in History : h.seq <= N
    BY SeqBound
<1>2. \A h \in History : h.seq \in Nat
    BY HistoryAssumption DEF Header
<1>3. {n} \cup S \subseteq 0..(N + n) /\ N + n \in Nat
    BY <1>1, <1>2
<1>4. \E k \in {n} \cup S : \A j \in {n} \cup S : j <= k
    BY <1>3, LargestElement
<1>5. m \in {n} \cup S /\ \A j \in {n} \cup S : j <= m
    BY <1>4
<1> QED
    BY <1>3, <1>5

----------------------------------------------------------------------------
(* Facts about the types.                                                    *)

LEMMA HeaderParts ==
  \A h \in History : /\ h.dev \in Devices /\ h.item \in Items
                     /\ h.seq \in Nat /\ h.seq >= 1 /\ h.prev \in Nat
                     /\ h.ctx \in VV
  BY HistoryAssumption DEF Header

LEMMA VVParts ==
  /\ ZeroVV \in VV
  /\ \A v \in VV, d \in Devices : v[d] \in Nat
  /\ \A v, w \in VV : join(v, w) \in VV /\ meet(v, w) \in VV
  /\ \A v, w \in VV : \A d \in Devices :
       /\ join(v, w)[d] \in {v[d], w[d]} /\ v[d] <= join(v, w)[d] /\ w[d] <= join(v, w)[d]
       /\ meet(v, w)[d] \in {v[d], w[d]} /\ meet(v, w)[d] <= v[d] /\ meet(v, w)[d] <= w[d]
  /\ \A v \in VV, h \in History :
       /\ add(v, h) \in VV
       /\ \A d \in Devices : d # h.dev => add(v, h)[d] = v[d]
       /\ add(v, h)[h.dev] \in {v[h.dev], h.seq}
       /\ v[h.dev] <= add(v, h)[h.dev] /\ h.seq <= add(v, h)[h.dev]
<1>1. ZeroVV \in VV
    BY DEF ZeroVV, VV
<1>2. \A v \in VV, d \in Devices : v[d] \in Nat
    BY DEF VV
<1>3. \A v, w \in VV : join(v, w) \in VV /\ meet(v, w) \in VV
    BY DEF join, meet, VV
<1>4. \A v, w \in VV : \A d \in Devices :
       /\ join(v, w)[d] \in {v[d], w[d]} /\ v[d] <= join(v, w)[d] /\ w[d] <= join(v, w)[d]
       /\ meet(v, w)[d] \in {v[d], w[d]} /\ meet(v, w)[d] <= v[d] /\ meet(v, w)[d] <= w[d]
    BY <1>2 DEF join, meet
<1>5. ASSUME NEW v \in VV, NEW h \in History
      PROVE  /\ add(v, h) \in VV
             /\ \A d \in Devices : d # h.dev => add(v, h)[d] = v[d]
             /\ add(v, h)[h.dev] \in {v[h.dev], h.seq}
             /\ v[h.dev] <= add(v, h)[h.dev] /\ h.seq <= add(v, h)[h.dev]
    BY <1>2, HeaderParts DEF add, VV
<1> QED
    BY <1>1, <1>2, <1>3, <1>4, <1>5

LEMMA AddIs ==
  ASSUME NEW v \in VV, NEW h \in History, NEW d \in Devices
  PROVE  /\ v[d] \in Nat /\ add(v, h)[d] \in Nat /\ v[d] <= add(v, h)[d]
         /\ add(v, h)[d] = v[d] \/ (d = h.dev /\ add(v, h)[d] = h.seq)
<1>1. v[d] \in Nat /\ h.dev \in Devices /\ h.seq \in Nat
    BY VVParts, HeaderParts
<1>2. add(v, h)[d] = IF d = h.dev THEN IF h.seq > v[d] THEN h.seq ELSE v[d] ELSE v[d]
    BY <1>1 DEF add, VV
<1> QED
    BY <1>1, <1>2

\* The parts of a typed state.
LEMMA Typed ==
  ASSUME TypeOK
  PROVE  /\ \A d \in Devices : head[d] \in Nat /\ frontier[d] \in Nat /\ cut[d] \in Nat
         /\ \A i \in Items : settled[i] \in VV /\ mvv[i] \in VV
         /\ \A i \in Items, d \in Devices : settled[i][d] \in Nat /\ mvv[i][d] \in Nat
         /\ \A r \in page : r.h \in History /\ r.body \in Bodies
         /\ \A h \in History : st[h] \in LinkStates
  BY DEF TypeOK, VV

LEMMA SnapshotParts ==
  \A c \in Snapshots : c.item \in Items /\ c.author \in Devices /\ c.covered \in VV
  BY HistoryAssumption DEF Snapshot

----------------------------------------------------------------------------
(* The steps that leave the log as it is.                                    *)

LEMMA QuietKeeps ==
  ASSUME SyncInv, UNCHANGED <<log, mvv, merged, more, flagged>>,
         TypeOK', PageInv', bodies \subseteq bodies',
         phase' \in {"verify", "plan", "absorb"}, phase \in {"idle", "verify", "plan", "absorb"},
         phase = "absorb" => phase' = "absorb",
         phase' = "verify" => phase \in {"idle", "verify"}
  PROVE  SyncInv'
<1> USE DEF log
<1>1. (HeadsInv /\ ChainsArePrefixes /\ IndexesExact)'
    BY DEF SyncInv, HeadsInv, ChainsArePrefixes, IndexesExact, Accepted, is_settled, covered,
           covers
<1>2. (CutInv /\ ReportInv)'
    BY DEF SyncInv, CutInv, ReportInv, PastCutoff
<1>3. ReadyInv'
    BY DEF SyncInv, ReadyInv, covered, covers
<1>4. (DeliveredIsApplied /\ NothingLeftDeliverable)'
    BY DEF SyncInv, DeliveredIsApplied, NothingLeftDeliverable, leq
<1> QED
    BY <1>1, <1>2, <1>3, <1>4 DEF SyncInv

LEMMA BeginFetchKeeps ==
  ASSUME SyncInv, BeginFetch
  PROVE  SyncInv'
<1> USE DEF BeginFetch, log, client
<1>1. todo = {} /\ TypeOK
    BY DEF SyncInv, PageInv
<1>2. TypeOK'
    BY <1>1 DEF TypeOK, Phases
<1>3. PageInv'
    BY <1>1 DEF PageInv
<1> QED
    BY <1>2, <1>3, QuietKeeps

LEMMA LearnWrapKeeps ==
  ASSUME SyncInv, NEW i \in Items, learn_wrap(i)
  PROVE  SyncInv'
<1> USE DEF learn_wrap, log, cycle
<1>1. TypeOK'
    BY DEF SyncInv, TypeOK
<1>2. PageInv'
    BY DEF SyncInv, PageInv
<1> QED
    BY <1>1, <1>2, QuietKeeps

LEMMA VerifyOpKeeps ==
  ASSUME SyncInv, NEW h \in History, NEW body \in Bodies, verify_op(h, body)
  PROVE  SyncInv'
<1> USE DEF verify_op
<1>1. TypeOK'
    BY DEF SyncInv, TypeOK, log
<1>2. PageInv'
    BY DEF SyncInv, PageInv
<1>3. UNCHANGED <<log, mvv, merged, more, flagged, phase>> /\ phase = "verify"
    BY DEF log
<1>4. bodies \subseteq bodies'
    OBVIOUS
<1> QED
    BY <1>1, <1>2, <1>3, <1>4, QuietKeeps

LEMMA VerifyCoverKeeps ==
  ASSUME SyncInv, NEW c \in Snapshots, verify_cover(c)
  PROVE  SyncInv'
<1> USE DEF verify_cover, log, client
<1>1. TypeOK'
    BY DEF SyncInv, TypeOK
<1>2. PageInv'
    BY DEF SyncInv, PageInv
<1> QED
    BY <1>1, <1>2, QuietKeeps

LEMMA RefuseSnapshotKeeps ==
  ASSUME SyncInv, NEW c \in Snapshots, refuse_snapshot(c)
  PROVE  SyncInv'
<1> USE DEF refuse_snapshot, log
<1>1. WithPage(c.item) \subseteq History
    BY Typed DEF SyncInv, TypeOK, WithPage
<1>2. TypeOK'
    BY <1>1 DEF SyncInv, TypeOK
<1>3. PageInv'
    BY DEF SyncInv, PageInv
<1> QED
    BY <1>2, <1>3, QuietKeeps

LEMMA PlanCoversKeeps ==
  ASSUME SyncInv, plan_covers
  PROVE  SyncInv'
<1>1. TypeOK /\ PageInv
    BY DEF SyncInv
<1>2. PICK counting : counting = CoveredBy(served) \cup {h \in History : covered(h)}
    OBVIOUS
<1>3. PICK links : links = walk(counting)
    OBVIOUS
<1>4. links \subseteq page
    BY <1>3 DEF walk
<1>5. /\ phase = "plan" /\ phase' = "absorb"
      /\ plan_cut' = [d \in Devices |->
          LET seqs == {head[d]} \cup {r.h.seq : r \in {q \in links : q.h.dev = d}}
          IN CHOOSE n \in seqs : \A m \in seqs : m <= n]
      /\ mheaders' = mheaders \cup {r.h : r \in links}
      /\ todo' \subseteq served
      /\ UNCHANGED <<log, keys, waiting_bodies, bodies, mvv, merged, page, served, more, flagged>>
    BY <1>2, <1>3 DEF plan_covers
<1>6. plan_cut' \in VV
  <2>1. ASSUME NEW d \in Devices
        PROVE  plan_cut'[d] \in Nat
    <3>1. PICK S : S = {r.h.seq : r \in {q \in links : q.h.dev = d}}
      OBVIOUS
    <3>2. \A x \in S : \E h \in History : x = h.seq
      BY <1>1, <1>4, <3>1, Typed
    <3>3. plan_cut'[d] = CHOOSE n \in {head[d]} \cup S : \A m \in {head[d]} \cup S : m <= n
      BY <1>5, <3>1
    <3>4. head[d] \in Nat
      BY <1>1, Typed
    <3> QED
      BY <3>2, <3>3, <3>4, HighestIs
  <2> QED
    BY <1>5, <2>1 DEF VV
<1>7. mheaders' \subseteq History
    BY <1>1, <1>4, <1>5, Typed DEF TypeOK
<1>8. TypeOK'
    BY <1>1, <1>5, <1>6, <1>7 DEF TypeOK, Phases, log
<1>9. PageInv'
    BY <1>1, <1>5 DEF PageInv
<1> QED
    BY <1>5, <1>8, <1>9, QuietKeeps

----------------------------------------------------------------------------
(* The steps that change the state of links.                                 *)

\* What is settled stays settled.
LEMMA SettledGrows ==
  ASSUME TypeOK, TypeOK',
         \A i \in Items, d \in Devices : settled[i][d] <= settled'[i][d],
         \A h \in History : st[h] = "delivered" => st'[h] = "delivered"
  PROVE  \A h \in History : /\ covered(h) => covered(h)'
                            /\ is_settled(h) => is_settled(h)'
<1>1. ASSUME NEW h \in History, covered(h)
      PROVE  covered(h)'
  <2>1. /\ h.seq \in Nat /\ settled[h.item][h.dev] \in Nat /\ settled'[h.item][h.dev] \in Nat
        /\ settled[h.item][h.dev] <= settled'[h.item][h.dev]
    BY HeaderParts, Typed, <1>1 DEF TypeOK, VV
  <2> QED
    BY <1>1, <2>1 DEF covered, covers
<1> QED
    BY <1>1 DEF is_settled

\* A step that neither accepts a link nor unsettles one keeps the chains.
LEMMA LinksKeep ==
  ASSUME SyncInv, UNCHANGED <<head, frontier>>,
         \A h \in History : Accepted(h)' <=> Accepted(h),
         \A h \in History : is_settled(h) => is_settled(h)'
  PROVE  /\ (HeadsInv /\ ChainsArePrefixes)'
         /\ \A h \in History : Accepted(h)' /\ h.seq < frontier'[h.dev] => is_settled(h)'
<1> USE DEF SyncInv
<1>1. HeadsInv'
    BY DEF HeadsInv
<1>2. ChainsArePrefixes'
    BY DEF ChainsArePrefixes
<1> QED
    BY <1>1, <1>2 DEF IndexesExact

LEMMA RetryWaitingKeeps ==
  ASSUME SyncInv, retry_waiting
  PROVE  SyncInv'
<1>1. TypeOK /\ PageInv /\ IndexesExact /\ CutInv /\ ReportInv /\ ReadyInv
      /\ DeliveredIsApplied
    BY DEF SyncInv
<1>2. PICK opened : opened = Retried \ Unopenable
    OBVIOUS
<1>3. /\ phase = "verify" /\ phase' = "plan"
      /\ page' = {IF r.body = "waiting" /\ r.h \in Retried
                  THEN [r EXCEPT !.body = verdict(r.h)] ELSE r : r \in page}
      /\ bodies' = bodies \cup opened
      /\ waiting_bodies' = waiting_bodies \ Retried
      /\ st' = [h \in History |-> IF h \in ToLog THEN from_body(verdict(h)) ELSE st[h]]
      /\ ready' = ready \cup (ToLog \cap opened)
      /\ dirty' = dirty \cup {h.item : h \in ToLog \cap opened}
      /\ UNCHANGED <<head, frontier, settled, absorbed, revoked, cut, keys,
                     mheaders, mvv, merged, served, todo, plan_cut, more, flagged>>
    BY <1>2 DEF retry_waiting
<1>4. Retried \subseteq History /\ ToLog \subseteq Retried
      /\ \A h \in ToLog : st[h] = "waiting"
    BY <1>1 DEF TypeOK, Retried, ToLog
<1>5. \A h : verdict(h) = IF h \in Unopenable THEN "rejected" ELSE "verified"
    BY DEF verdict
<1>6. \A h \in History : st'[h] = IF h \in ToLog THEN IF h \in opened THEN "ready" ELSE "rejected"
                                  ELSE st[h]
    BY <1>2, <1>3, <1>4, <1>5 DEF from_body
<1>7. \A r \in page' : \E q \in page :
         /\ r.h = q.h /\ r \in [h: History, body: Bodies]
         /\ r.body = "verified" => q.body = "verified" \/ q.h \in opened
         /\ r = IF q.body = "waiting" /\ q.h \in Retried
                THEN [q EXCEPT !.body = verdict(q.h)] ELSE q
  <2>1. ASSUME NEW q \in page
        PROVE  LET r == IF q.body = "waiting" /\ q.h \in Retried
                        THEN [q EXCEPT !.body = verdict(q.h)] ELSE q
               IN  /\ r.h = q.h /\ r \in [h: History, body: Bodies]
                   /\ r.body = "verified" => q.body = "verified" \/ q.h \in opened
    <3>1. q \in [h: History, body: Bodies]
      BY <1>1 DEF TypeOK
    <3>2. verdict(q.h) \in Bodies /\ (verdict(q.h) = "verified" => q.h \notin Unopenable)
      BY <1>5 DEF Bodies
    <3> HIDE DEF Bodies
    <3> QED
      BY <1>2, <3>1, <3>2
  <2> QED
    BY <1>3, <2>1
<1>8. page' \subseteq [h: History, body: Bodies]
    BY <1>7
<1>9. dirty' \subseteq Items
    BY <1>1, <1>3, <1>4, HeaderParts DEF TypeOK
<1>10. st' \in [History -> LinkStates]
    BY <1>1, <1>3, <1>6 DEF TypeOK, LinkStates
<1>11. bodies' \subseteq History /\ waiting_bodies' \subseteq History /\ ready' \subseteq History
    BY <1>1, <1>2, <1>3, <1>4 DEF TypeOK
<1>12. TypeOK'
    BY <1>1, <1>3, <1>8, <1>9, <1>10, <1>11 DEF TypeOK, Phases
<1>13. PageInv'
    BY <1>1, <1>3, <1>7 DEF PageInv
<1>14. \A h \in History : Accepted(h)' <=> Accepted(h)
    BY <1>4, <1>6 DEF Accepted
<1>15. \A h \in History : st'[h] = "delivered" <=> st[h] = "delivered"
    BY <1>4, <1>6
<1>16. \A h \in History : (is_settled(h)' <=> is_settled(h)) /\ (covered(h)' <=> covered(h))
    BY <1>3, <1>15 DEF is_settled, covered, covers
<1>17. /\ (HeadsInv /\ ChainsArePrefixes)'
       /\ \A h \in History : Accepted(h)' /\ h.seq < frontier'[h.dev] => is_settled(h)'
    BY <1>3, <1>14, <1>16, LinksKeep
<1>18. ready' = {h \in History : st'[h] = "ready"}
    BY <1>1, <1>3, <1>4, <1>6 DEF IndexesExact
<1>19. IndexesExact'
    BY <1>17, <1>18 DEF IndexesExact
<1>20. CutInv'
    BY <1>1, <1>3, <1>4, <1>6 DEF CutInv, PastCutoff
<1>21. ReportInv'
    BY <1>1, <1>3 DEF ReportInv
<1>22. ReadyInv'
  <2>1. ready' \subseteq bodies'
    BY <1>1, <1>3 DEF ReadyInv
  <2>2. \A h \in ready' : covered(h)' => h.item \in dirty'
    BY <1>1, <1>3, <1>11, <1>16 DEF ReadyInv
  <2> QED
    BY <1>3, <2>1, <2>2 DEF ReadyInv
<1>23. DeliveredIsApplied' /\ NothingLeftDeliverable'
    BY <1>1, <1>3, <1>15 DEF DeliveredIsApplied, leq, NothingLeftDeliverable
<1> QED
    BY <1>12, <1>13, <1>17, <1>19, <1>20, <1>21, <1>22, <1>23 DEF SyncInv

LEMMA LearnRevocationKeeps ==
  ASSUME SyncInv, NEW d \in Retirable, NEW n \in Cutoffs, learn_revocation(d, n)
  PROVE  SyncInv'
<1>1. /\ TypeOK /\ PageInv /\ IndexesExact /\ CutInv /\ ReportInv /\ ReadyInv
      /\ DeliveredIsApplied /\ NothingLeftDeliverable
    BY DEF SyncInv
<1>2. /\ phase = "idle" /\ d \notin revoked
      /\ revoked' = revoked \cup {d}
      /\ cut' = [cut EXCEPT ![d] = n]
      /\ st' = [h \in History |-> IF h \in PastIt(d, n) THEN "revoked" ELSE st[h]]
      /\ ready' = ready \ PastIt(d, n)
      /\ UNCHANGED <<head, frontier, settled, dirty, absorbed, client, cycle>>
    BY DEF learn_revocation
<1>3. /\ d \in Devices /\ n \in Nat /\ PastIt(d, n) \subseteq History
      /\ \A h \in PastIt(d, n) : st[h] \notin {"none", "delivered", "revoked"}
    BY HistoryAssumption DEF PastIt
<1>4. \A h \in History : st'[h] = IF h \in PastIt(d, n) THEN "revoked" ELSE st[h]
    BY <1>2
<1>5. cut' \in VV
    BY <1>1, <1>2, <1>3 DEF TypeOK, VV
<1>6. st' \in [History -> LinkStates]
    BY <1>1, <1>2, <1>4 DEF TypeOK, LinkStates
<1>7. TypeOK'
    BY <1>1, <1>2, <1>3, <1>5, <1>6 DEF TypeOK, client, cycle
<1>8. PageInv'
    BY <1>1, <1>2 DEF PageInv, client, cycle
<1>9. \A h \in History : /\ Accepted(h)' <=> Accepted(h)
                         /\ st'[h] = "delivered" <=> st[h] = "delivered"
                         /\ st'[h] = "ready" <=> st[h] = "ready" /\ h \notin PastIt(d, n)
    BY <1>3, <1>4 DEF Accepted
<1>10. \A h \in History : (is_settled(h)' <=> is_settled(h)) /\ (covered(h)' <=> covered(h))
    BY <1>2, <1>9 DEF is_settled, covered, covers
<1>11. /\ (HeadsInv /\ ChainsArePrefixes)'
       /\ \A h \in History : Accepted(h)' /\ h.seq < frontier'[h.dev] => is_settled(h)'
    BY <1>2, <1>9, <1>10, LinksKeep
<1>12. IndexesExact'
    BY <1>1, <1>2, <1>9, <1>11 DEF IndexesExact
<1>13. CutInv'
  <2> SUFFICES ASSUME NEW h \in History, PastCutoff(h)'
               PROVE  st'[h] \in {"none", "delivered", "revoked"}
    BY DEF CutInv
  <2>1. CASE h.dev # d
    <3>1. PastCutoff(h)
      BY <1>1, <1>2, <2>1, HeaderParts DEF PastCutoff, TypeOK, VV
    <3> QED
      BY <1>1, <1>4, <3>1 DEF CutInv
  <2>2. CASE h.dev = d
    <3>1. h.seq > n
      BY <1>1, <1>2, <1>3, <2>2 DEF PastCutoff, TypeOK, VV
    <3> QED
      BY <1>4, <2>2, <3>1 DEF PastIt
  <2> QED
    BY <2>1, <2>2
<1>14. ReportInv'
    BY <1>1, <1>2 DEF ReportInv, client, cycle
<1>15. ReadyInv'
  <2>1. ready' \subseteq History
    BY <1>7 DEF TypeOK
  <2>2. \A h \in ready' : covered(h)' => h.item \in dirty'
    BY <1>1, <1>2, <1>10, <2>1 DEF ReadyInv
  <2> QED
    BY <1>1, <1>2, <2>2 DEF ReadyInv, client, cycle
<1>16. DeliveredIsApplied'
    BY <1>1, <1>2, <1>9 DEF DeliveredIsApplied, leq, client, cycle
<1>17. NothingLeftDeliverable'
  <2>1. \A h \in History : (FirstUnsettled(h)' <=> FirstUnsettled(h))
    BY <1>9, <1>10 DEF FirstUnsettled
  <2>2. \A h \in History : (context_settled(h)' <=> context_settled(h))
    BY <1>2 DEF context_settled, leq
  <2> QED
    BY <1>1, <1>2, <1>9, <1>10, <2>1, <2>2 DEF NothingLeftDeliverable
<1> QED
    BY <1>7, <1>8, <1>11, <1>12, <1>13, <1>14, <1>15, <1>16, <1>17 DEF SyncInv

\* A chain with an unsettled link from its frontier on has a first one.
LEMMA FrontierExists ==
  ASSUME TypeOK, NEW d \in Devices, Unsettled(d) # {}
  PROVE  \E h \in Unsettled(d) : IsFrontier(h)
<1> DEFINE S == {h.seq : h \in Unsettled(d)}
<1>1. Unsettled(d) \subseteq History /\ \A h \in Unsettled(d) : h.dev = d
    BY DEF Unsettled
<1>2. S \subseteq Nat /\ S # {}
    BY <1>1, HeaderParts
<1>3. PICK n \in S : \A m \in S : n <= m
    BY <1>2, LeastElement
<1>4. PICK h \in Unsettled(d) : h.seq = n
    BY <1>3
<1>5. \A g \in Unsettled(d) : h.seq <= g.seq
    BY <1>3, <1>4
<1>6. h.dev = d
    BY <1>1, <1>4
<1> QED
    BY <1>4, <1>5, <1>6 DEF IsFrontier

\* A step that only moves the frontiers up to what is settled.
LEMMA FrontiersKeep ==
  ASSUME SyncInv, frontier' = advance_frontiers, UNCHANGED <<st, head, settled, ready>>
  PROVE  /\ frontier' \in VV
         /\ (HeadsInv /\ ChainsArePrefixes /\ IndexesExact)'
<1>1. TypeOK /\ HeadsInv /\ ChainsArePrefixes /\ IndexesExact
    BY DEF SyncInv
<1>2. \A h \in History : /\ (Accepted(h)' <=> Accepted(h)) /\ (is_settled(h)' <=> is_settled(h))
    BY DEF Accepted, is_settled, covered, covers
<1>3. ASSUME NEW d \in Devices
      PROVE  /\ frontier'[d] \in Nat /\ frontier'[d] <= head[d] + 1
             /\ \A h \in History : h.dev = d /\ Accepted(h) /\ h.seq < frontier'[d] => is_settled(h)
  <2>1. head[d] \in Nat /\ frontier[d] \in Nat
    BY <1>1, Typed
  <2>2. frontier'[d] = IF Unsettled(d) = {} THEN head[d] + 1
                       ELSE (CHOOSE h \in Unsettled(d) : IsFrontier(h)).seq
    BY DEF advance_frontiers
  <2>3. CASE Unsettled(d) = {}
    <3>1. frontier'[d] = head[d] + 1
      BY <2>2, <2>3
    <3>2. \A h \in History : h.dev = d /\ Accepted(h) => is_settled(h)
      BY <1>1, <2>1, <2>3, HeaderParts DEF Unsettled, IndexesExact
    <3> QED
      BY <2>1, <3>1, <3>2
  <2>4. CASE Unsettled(d) # {}
    <3>1. PICK g \in Unsettled(d) : IsFrontier(g) /\ frontier'[d] = g.seq
      BY <1>1, <2>2, <2>4, FrontierExists
    <3>2. g \in History /\ g.dev = d /\ Accepted(g) /\ g.seq \in Nat
      BY <3>1, HeaderParts DEF Unsettled
    <3>3. g.seq <= head[d]
      BY <1>1, <3>2 DEF ChainsArePrefixes
    <3>4. ASSUME NEW h \in History, h.dev = d, Accepted(h), h.seq < g.seq
          PROVE  is_settled(h)
      <4>1. h.seq \in Nat
        BY HeaderParts
      <4>2. h \notin Unsettled(d)
        BY <3>1, <3>2, <3>4, <4>1 DEF IsFrontier
      <4> QED
        BY <1>1, <2>1, <3>4, <4>1, <4>2 DEF Unsettled, IndexesExact
    <3> QED
      BY <2>1, <3>1, <3>2, <3>3, <3>4
  <2> QED
    BY <2>3, <2>4
<1>4. frontier' \in VV
    BY <1>3 DEF advance_frontiers, VV
<1>5. HeadsInv'
    BY <1>1, <1>2, <1>3 DEF HeadsInv
<1>6. ChainsArePrefixes'
    BY <1>1, <1>2 DEF ChainsArePrefixes
<1>7. IndexesExact'
    BY <1>1, <1>2, <1>3, HeaderParts DEF IndexesExact
<1> QED
    BY <1>4, <1>5, <1>6, <1>7

LEMMA NextRoundKeeps ==
  ASSUME SyncInv, NextRound
  PROVE  SyncInv'
<1>1. /\ TypeOK /\ PageInv /\ CutInv /\ ReportInv /\ ReadyInv /\ DeliveredIsApplied
    BY DEF SyncInv
<1>2. /\ phase = "frontiers" /\ phase' = "covered" /\ more' = FALSE
      /\ frontier' = advance_frontiers
      /\ UNCHANGED <<st, head, settled, ready, dirty, absorbed, revoked, cut, client,
                     page, served, todo, plan_cut, flagged>>
    BY DEF NextRound
<1>3. frontier' \in VV /\ (HeadsInv /\ ChainsArePrefixes /\ IndexesExact)'
    BY <1>2, FrontiersKeep
<1>4. TypeOK'
    BY <1>1, <1>2, <1>3 DEF TypeOK, Phases, client
<1>5. PageInv' /\ CutInv' /\ ReportInv'
    BY <1>1, <1>2 DEF PageInv, CutInv, PastCutoff, ReportInv, client
<1>6. ReadyInv'
    BY <1>1, <1>2 DEF ReadyInv, covered, covers, client
<1>7. DeliveredIsApplied' /\ NothingLeftDeliverable'
    BY <1>1, <1>2 DEF DeliveredIsApplied, leq, NothingLeftDeliverable, client
<1> QED
    BY <1>3, <1>4, <1>5, <1>6, <1>7 DEF SyncInv

LEMMA EndFetchKeeps ==
  ASSUME SyncInv, EndFetch
  PROVE  SyncInv'
<1>1. /\ TypeOK /\ PageInv /\ HeadsInv /\ ChainsArePrefixes /\ IndexesExact
      /\ CutInv /\ ReportInv /\ ReadyInv /\ DeliveredIsApplied
    BY DEF SyncInv
<1>2. /\ phase = "frontiers" /\ phase' = "idle" /\ ~more
      /\ \A h \in History : ~Deliverable(h)
      /\ frontier' = advance_frontiers
      /\ bodies' = bodies \cap waiting
      /\ page' = {} /\ served' = {} /\ plan_cut' = ZeroVV
      /\ UNCHANGED <<st, head, settled, ready, dirty, absorbed, revoked, cut, keys,
                     waiting_bodies, mheaders, mvv, merged, todo, more, flagged>>
    BY DEF EndFetch
<1>3. frontier' \in VV /\ (HeadsInv /\ ChainsArePrefixes /\ IndexesExact)'
    BY <1>2, FrontiersKeep
<1>4. todo = {} /\ dirty = {}
    BY <1>1, <1>2 DEF PageInv, ReadyInv
<1>5. TypeOK'
    BY <1>1, <1>2, <1>3, <1>4, VVParts DEF TypeOK, Phases
<1>6. PageInv' /\ CutInv' /\ ReportInv'
    BY <1>1, <1>2, <1>4 DEF PageInv, CutInv, PastCutoff, ReportInv
<1>7. \A h \in History : st[h] = "ready" => h \in ready /\ ~covered(h)
    BY <1>1, <1>4 DEF IndexesExact, ReadyInv
<1>8. ready \subseteq waiting
  <2> SUFFICES ASSUME NEW h \in ready
               PROVE  h \in waiting
    OBVIOUS
  <2>1. h \in History /\ st[h] = "ready"
    BY <1>1 DEF TypeOK, IndexesExact
  <2> QED
    BY <1>2, <1>7, <2>1 DEF waiting, Accepted, is_settled, Deliverable
<1>9. ReadyInv'
  <2>1. ready' \subseteq bodies'
    BY <1>1, <1>2, <1>8 DEF ReadyInv
  <2>2. \A h \in ready' : ~covered(h)'
    BY <1>1, <1>2, <1>7 DEF IndexesExact, covered, covers
  <2> QED
    BY <1>2, <1>4, <2>1, <2>2 DEF ReadyInv
<1>10. DeliveredIsApplied'
    BY <1>1, <1>2 DEF DeliveredIsApplied, leq
<1>11. NothingLeftDeliverable'
  <2>1. ASSUME NEW h \in History, st[h] = "ready"
        PROVE  ~(FirstUnsettled(h) /\ context_settled(h))
    <3> SUFFICES ASSUME FirstUnsettled(h), context_settled(h)
                 PROVE  FALSE
      OBVIOUS
    <3>1. \A g \in Unsettled(h.dev) : h.seq <= g.seq
      BY HeaderParts DEF Unsettled, FirstUnsettled
    <3>2. h \in Unsettled(h.dev)
      BY <1>1, HeaderParts, Typed DEF Unsettled, FirstUnsettled, IndexesExact
    <3> QED
      BY <1>2, <2>1, <3>1, <3>2 DEF IsFrontier, Deliverable
  <2>2. \A h \in History : /\ (covered(h)' <=> covered(h)) /\ (FirstUnsettled(h)' <=> FirstUnsettled(h))
                           /\ (context_settled(h)' <=> context_settled(h))
    BY <1>2 DEF covered, covers, FirstUnsettled, is_settled, Accepted, context_settled, leq
  <2> QED
    BY <1>2, <1>7, <2>1, <2>2 DEF NothingLeftDeliverable
<1> QED
    BY <1>3, <1>5, <1>6, <1>9, <1>10, <1>11 DEF SyncInv

LEMMA DeliverCoveredKeeps ==
  ASSUME SyncInv, deliver_covered
  PROVE  SyncInv'
<1>1. /\ TypeOK /\ PageInv /\ IndexesExact /\ CutInv /\ ReportInv /\ ReadyInv
      /\ DeliveredIsApplied
    BY DEF SyncInv
<1>2. PICK due : due = {h \in ready : h.item \in dirty /\ covered(h)}
    OBVIOUS
<1>3. /\ phase = "covered" /\ phase' = "frontiers"
      /\ st' = [h \in History |-> IF h \in due THEN "delivered" ELSE st[h]]
      /\ ready' = ready \ due
      /\ dirty' = {}
      /\ merged' = merged \cup {h \in due : Applies(h)}
      /\ mvv' = ApplyTo(mvv, {h \in due : Applies(h)})
      /\ more' = (due # {})
      /\ UNCHANGED <<head, frontier, settled, absorbed, revoked, cut, keys,
                     waiting_bodies, bodies, mheaders, page, served, todo, plan_cut, flagged>>
    BY <1>2 DEF deliver_covered
<1>4. due \subseteq ready /\ ready \subseteq History /\ \A h \in due : st[h] = "ready"
    BY <1>1, <1>2 DEF TypeOK, IndexesExact
<1>5. \A h \in due : Applies(h)
  <2> SUFFICES ASSUME NEW h \in due
               PROVE  Applies(h)
    OBVIOUS
  <2>1. h \in History /\ h \in bodies /\ covered(h)
    BY <1>1, <1>2, <1>4 DEF ReadyInv
  <2>2. settled[h.item][h.dev] <= mvv[h.item][h.dev]
    BY <1>1, <2>1, HeaderParts DEF DeliveredIsApplied, leq
  <2>3. /\ h.seq \in Nat /\ settled[h.item][h.dev] \in Nat /\ mvv[h.item][h.dev] \in Nat
    BY <1>1, <2>1, HeaderParts, Typed
  <2>4. covers(mvv[h.item], h)
    BY <2>1, <2>2, <2>3 DEF covered, covers
  <2> QED
    BY <2>1, <2>4 DEF Applies
<1>6. ASSUME NEW i \in Items, NEW d \in Devices
      PROVE  mvv'[i][d] \in Nat /\ mvv[i][d] <= mvv'[i][d]
  <2>1. PICK S : S = {h.seq : h \in {g \in {h \in due : Applies(h)} : g.item = i /\ g.dev = d}}
    OBVIOUS
  <2>2. \A x \in S : \E h \in History : x = h.seq
    BY <1>4, <2>1
  <2>3. mvv'[i][d] = CHOOSE n \in {mvv[i][d]} \cup S : \A m \in {mvv[i][d]} \cup S : m <= n
    BY <1>3, <2>1 DEF ApplyTo
  <2>4. mvv[i][d] \in Nat
    BY <1>1, Typed
  <2>5. PICK n \in Nat : n = mvv[i][d]
    BY <2>4
  <2>6. PICK m : m = mvv'[i][d]
    OBVIOUS
  <2>7. m = CHOOSE k \in {n} \cup S : \A j \in {n} \cup S : j <= k
    BY <2>3, <2>5, <2>6
  <2>8. m \in Nat /\ n <= m
    BY ONLY <2>2, <2>7, n \in Nat, HighestIs
  <2> QED
    BY <2>5, <2>6, <2>8
<1>7. mvv' \in [Items -> VV]
    BY <1>3, <1>6 DEF ApplyTo, VV
<1>8. \A h \in History : st'[h] = IF h \in due THEN "delivered" ELSE st[h]
    BY <1>3
<1>9. st' \in [History -> LinkStates]
    BY <1>1, <1>3, <1>8 DEF TypeOK, LinkStates
<1>10. TypeOK'
    BY <1>1, <1>3, <1>4, <1>7, <1>9 DEF TypeOK, Phases
<1>11. PageInv' /\ ReportInv'
    BY <1>1, <1>3 DEF PageInv, ReportInv
<1>12. \A h \in History : /\ Accepted(h)' <=> Accepted(h)
                          /\ st[h] = "delivered" => st'[h] = "delivered"
                          /\ st'[h] = "ready" <=> st[h] = "ready" /\ h \notin due
    BY <1>4, <1>8 DEF Accepted
<1>13. \A h \in History : (is_settled(h) => is_settled(h)') /\ (covered(h)' <=> covered(h))
    BY <1>3, <1>12 DEF is_settled, covered, covers
<1>14. /\ (HeadsInv /\ ChainsArePrefixes)'
       /\ \A h \in History : Accepted(h)' /\ h.seq < frontier'[h.dev] => is_settled(h)'
    BY <1>3, <1>12, <1>13, LinksKeep
<1>15. IndexesExact'
    BY <1>1, <1>3, <1>12, <1>14 DEF IndexesExact
<1>16. CutInv'
    BY <1>1, <1>3, <1>8 DEF CutInv, PastCutoff
<1>17. ReadyInv'
  <2>1. \A h \in ready' : ~covered(h)'
    BY <1>1, <1>2, <1>3, <1>4, <1>13 DEF ReadyInv
  <2> QED
    BY <1>1, <1>3, <2>1 DEF ReadyInv
<1>18. DeliveredIsApplied'
  <2>1. \A h \in History : st'[h] = "delivered" => h \in merged'
    BY <1>1, <1>3, <1>5, <1>8 DEF DeliveredIsApplied
  <2>2. \A i \in Items, d \in Devices : settled[i][d] <= mvv'[i][d]
    <3> SUFFICES ASSUME NEW i \in Items, NEW d \in Devices
                 PROVE  settled[i][d] <= mvv'[i][d]
      OBVIOUS
    <3>1. settled[i][d] <= mvv[i][d] /\ settled[i][d] \in Nat /\ mvv[i][d] \in Nat
      BY <1>1, Typed DEF DeliveredIsApplied, leq
    <3> QED
      BY <1>6, <3>1
  <2> QED
    BY <1>3, <2>1, <2>2 DEF DeliveredIsApplied, leq
<1>19. NothingLeftDeliverable'
    BY <1>3 DEF NothingLeftDeliverable
<1> QED
    BY <1>10, <1>11, <1>14, <1>15, <1>16, <1>17, <1>18, <1>19 DEF SyncInv

LEMMA DeliverFrontierKeeps ==
  ASSUME SyncInv, NEW h \in History, deliver_frontier(h)
  PROVE  SyncInv'
<1>1. /\ TypeOK /\ PageInv /\ HeadsInv /\ ChainsArePrefixes /\ IndexesExact /\ CutInv
      /\ ReportInv /\ ReadyInv /\ DeliveredIsApplied
    BY DEF SyncInv
<1>2. /\ phase = "frontiers" /\ Deliverable(h)
      /\ st' = [st EXCEPT ![h] = "delivered"]
      /\ frontier' = [frontier EXCEPT ![h.dev] = h.seq]
      /\ ready' = ready \ {h}
      /\ settled' = [settled EXCEPT ![h.item] = add(@, h)]
      /\ dirty' = dirty \cup {h.item}
      /\ merged' = IF Applies(h) THEN merged \cup {h} ELSE merged
      /\ mvv' = IF Applies(h) THEN [mvv EXCEPT ![h.item] = add(@, h)] ELSE mvv
      /\ more' = TRUE
      /\ UNCHANGED <<head, absorbed, revoked, cut, keys, waiting_bodies, bodies,
                     mheaders, phase, page, served, todo, plan_cut, flagged>>
    BY DEF deliver_frontier
<1>3. /\ st[h] = "ready" /\ h \in ready /\ h \in bodies /\ IsFrontier(h) /\ context_settled(h)
      /\ h.dev \in Devices /\ h.item \in Items /\ h.seq \in Nat /\ h.ctx \in VV
    BY <1>1, <1>2, HeaderParts DEF Deliverable, IndexesExact, ReadyInv
<1>4. h.seq <= head[h.dev]
    BY <1>1, <1>3 DEF ChainsArePrefixes, Accepted
<1>5. Applies(h)
  <2>1. leq(h.ctx, settled[h.item]) /\ leq(settled[h.item], mvv[h.item])
    BY <1>1, <1>3 DEF context_settled, DeliveredIsApplied
  <2>2. settled[h.item] \in VV /\ mvv[h.item] \in VV
    BY <1>1, <1>3, Typed
  <2>3. \A d \in Devices : h.ctx[d] \in Nat /\ settled[h.item][d] \in Nat /\ mvv[h.item][d] \in Nat
    BY <1>3, <2>2 DEF VV
  <2>4. leq(h.ctx, mvv[h.item])
    <3> SUFFICES ASSUME NEW d \in Devices
                 PROVE  h.ctx[d] <= mvv[h.item][d]
      BY DEF leq
    <3>1. h.ctx[d] <= settled[h.item][d] /\ settled[h.item][d] <= mvv[h.item][d]
      BY <2>1 DEF leq
    <3> QED
      BY <2>3, <3>1
  <2> QED
    BY <1>3, <2>4 DEF Applies
<1>6. /\ merged' = merged \cup {h}
      /\ mvv' = [mvv EXCEPT ![h.item] = add(@, h)]
    BY <1>2, <1>5
<1>7. settled' \in [Items -> VV] /\ mvv' \in [Items -> VV] /\ frontier' \in VV
    BY <1>1, <1>2, <1>3, <1>6, VVParts, SMTT(40) DEF TypeOK, VV
<1>8. \A g \in History : st'[g] = IF g = h THEN "delivered" ELSE st[g]
    BY <1>1, <1>2 DEF TypeOK
<1>9. st' \in [History -> LinkStates]
    BY <1>1, <1>2 DEF TypeOK, LinkStates
<1>10. TypeOK'
    BY <1>1, <1>2, <1>3, <1>6, <1>7, <1>9 DEF TypeOK
<1>11. PageInv'
    BY <1>1, <1>2 DEF PageInv
<1>12. \A i \in Items, d \in Devices :
          /\ settled'[i][d] = IF i = h.item THEN add(settled[i], h)[d] ELSE settled[i][d]
          /\ mvv'[i][d] = IF i = h.item THEN add(mvv[i], h)[d] ELSE mvv[i][d]
    BY <1>1, <1>2, <1>3, <1>6 DEF TypeOK
<1>13. \A i \in Items, d \in Devices : settled[i][d] <= settled'[i][d]
  <2> SUFFICES ASSUME NEW i \in Items, NEW d \in Devices
               PROVE  settled[i][d] <= settled'[i][d]
    OBVIOUS
  <2>1. settled[i] \in VV
    BY <1>1, Typed
  <2>2. settled[i][d] \in Nat /\ settled[i][d] <= add(settled[i], h)[d]
    BY <2>1, AddIs
  <2> QED
    BY <1>12, <2>2
<1>14. \A g \in History : (covered(g) => covered(g)') /\ (is_settled(g) => is_settled(g)')
    BY <1>1, <1>8, <1>10, <1>13, SettledGrows
<1>15. \A g \in History : Accepted(g)' <=> Accepted(g)
    BY <1>3, <1>8 DEF Accepted
<1>16. HeadsInv'
  <2>1. \A d \in Devices : frontier'[d] <= head[d] + 1
    <3> SUFFICES ASSUME NEW d \in Devices
                 PROVE  frontier'[d] <= head[d] + 1
      OBVIOUS
    <3>1. head[d] \in Nat /\ frontier[d] \in Nat
      BY <1>1, Typed
    <3>2. frontier'[d] = IF d = h.dev THEN h.seq ELSE frontier[d]
      BY <1>1, <1>2 DEF TypeOK, VV
    <3> QED
      BY <1>1, <1>3, <1>4, <3>1, <3>2 DEF HeadsInv
  <2> QED
    BY <1>1, <1>2, <1>15, <2>1 DEF HeadsInv
<1>17. ChainsArePrefixes'
    BY <1>1, <1>2, <1>15 DEF ChainsArePrefixes
<1>18. IndexesExact'
  <2>1. ready' = {g \in History : st'[g] = "ready"}
    BY <1>1, <1>2, <1>8 DEF IndexesExact
  <2>2. ASSUME NEW g \in History, Accepted(g)', g.seq < frontier'[g.dev]
        PROVE  is_settled(g)'
    <3>1. frontier'[g.dev] = IF g.dev = h.dev THEN h.seq ELSE frontier[g.dev]
      BY <1>1, <1>2, HeaderParts DEF TypeOK, VV
    <3>2. CASE g.dev = h.dev
      <4>1. g \notin Unsettled(h.dev)
        BY <1>3, <2>2, <3>1, <3>2, HeaderParts DEF IsFrontier
      <4>2. Accepted(g) /\ g.seq \in Nat /\ frontier[g.dev] \in Nat
        BY <1>1, <1>15, <2>2, HeaderParts, Typed
      <4>3. is_settled(g)
        BY <1>1, <3>2, <4>1, <4>2 DEF Unsettled, IndexesExact
      <4> QED
        BY <1>14, <4>3
    <3>3. CASE g.dev # h.dev
      BY <1>1, <1>14, <1>15, <2>2, <3>1, <3>3 DEF IndexesExact
    <3> QED
      BY <3>2, <3>3
  <2> QED
    BY <2>1, <2>2 DEF IndexesExact
<1>19. CutInv'
    BY <1>1, <1>2, <1>8 DEF CutInv, PastCutoff
<1>20. ReportInv'
  <2>1. ASSUME NEW i \in Items, NEW d \in Devices, settled'[i][d] > head[d]
        PROVE  settled[i][d] > head[d]
    <3>1. settled'[i][d] = settled[i][d] \/ (d = h.dev /\ settled'[i][d] = h.seq)
      <4>1. settled[i] \in VV
        BY <1>1, Typed
      <4> QED
        BY <1>12, <4>1, AddIs
    <3> QED
      BY <1>1, <1>3, <1>4, <2>1, <3>1, Typed
  <2> QED
    BY <1>1, <1>2, <2>1 DEF ReportInv
<1>21. ReadyInv'
  <2>1. \A g \in ready' : covered(g)' => g.item \in dirty'
    <3> SUFFICES ASSUME NEW g \in ready, covered(g)', g.item # h.item
                 PROVE  g.item \in dirty
      BY <1>2
    <3>1. g \in History /\ g.item \in Items
      BY <1>1, HeaderParts DEF TypeOK
    <3>2. settled'[g.item] = settled[g.item]
      BY <1>1, <1>2, <3>1 DEF TypeOK
    <3>3. covered(g)
      BY <3>2 DEF covered, covers
    <3> QED
      BY <1>1, <3>3 DEF ReadyInv
  <2> QED
    BY <1>1, <1>2, <2>1 DEF ReadyInv
<1>22. DeliveredIsApplied'
  <2>1. \A g \in History : st'[g] = "delivered" => g \in merged'
    BY <1>1, <1>6, <1>8 DEF DeliveredIsApplied
  <2>2. ASSUME NEW i \in Items, NEW d \in Devices
        PROVE  settled'[i][d] <= mvv'[i][d]
    <3>1. settled[i][d] <= mvv[i][d] /\ settled[i] \in VV /\ mvv[i] \in VV
          /\ settled[i][d] \in Nat /\ mvv[i][d] \in Nat
      BY <1>1, Typed DEF DeliveredIsApplied, leq
    <3>2. CASE i # h.item
      BY <1>12, <3>1, <3>2
    <3>3. CASE i = h.item /\ d # h.dev
      <4>1. add(settled[i], h)[d] = settled[i][d] /\ add(mvv[i], h)[d] = mvv[i][d]
        BY <3>1, <3>3, AddIs
      <4> QED
        BY <1>12, <3>1, <3>3, <4>1
    <3>4. CASE i = h.item /\ d = h.dev
      <4>1. /\ settled'[i][d] = add(settled[i], h)[d] /\ mvv'[i][d] = add(mvv[i], h)[d]
        BY <1>12, <3>4
      <4>2. /\ add(settled[i], h)[d] \in {settled[i][d], h.seq}
            /\ mvv[i][d] <= add(mvv[i], h)[d] /\ h.seq <= add(mvv[i], h)[d]
            /\ add(mvv[i], h)[d] \in {mvv[i][d], h.seq}
        BY <3>1, <3>4, VVParts
      <4> QED
        BY <1>3, <3>1, <4>1, <4>2
    <3> QED
      BY <3>2, <3>3, <3>4
  <2> QED
    BY <2>1, <2>2 DEF DeliveredIsApplied, leq
<1>23. NothingLeftDeliverable'
    BY <1>2 DEF NothingLeftDeliverable
<1> QED
    BY <1>10, <1>11, <1>16, <1>17, <1>18, <1>19, <1>20, <1>21, <1>22, <1>23 DEF SyncInv

LEMMA AbsorbSnapshotKeeps ==
  ASSUME SyncInv, NEW c \in Snapshots, absorb_snapshot(c)
  PROVE  SyncInv'
<1>1. /\ TypeOK /\ PageInv /\ IndexesExact /\ CutInv /\ ReportInv /\ ReadyInv
      /\ DeliveredIsApplied
    BY DEF SyncInv
<1>2. PICK taken : taken = join(mvv[c.item], meet(c.covered, MergeHeads(WithPage(c.item), c.item)))
    OBVIOUS
<1>3. /\ phase = "absorb" /\ c \in todo
      /\ todo' = todo \ {c}
      /\ mheaders' = WithPage(c.item)
      /\ mvv' = [mvv EXCEPT ![c.item] = taken]
      /\ settled' = [settled EXCEPT ![c.item] = join(@, meet(taken, plan_cut))]
      /\ dirty' = dirty \cup {c.item}
      /\ absorbed' = absorbed \cup {c.item}
      /\ UNCHANGED <<st, head, frontier, ready, revoked, cut, keys, waiting_bodies,
                     bodies, merged, phase, page, served, plan_cut, more, flagged>>
    BY <1>2 DEF absorb_snapshot
<1>4. /\ c.item \in Items /\ c.covered \in VV /\ WithPage(c.item) \subseteq History
      /\ mvv[c.item] \in VV /\ settled[c.item] \in VV /\ plan_cut \in VV
    BY <1>1, SnapshotParts, Typed DEF TypeOK, WithPage
<1>5. MergeHeads(WithPage(c.item), c.item) \in VV
  <2>1. PICK H : H = WithPage(c.item)
    OBVIOUS
  <2>2. ASSUME NEW d \in Devices
        PROVE  MergeHeads(H, c.item)[d] \in Nat
    <3>1. PICK S : S = {h.seq : h \in {g \in H : g.item = c.item /\ g.dev = d}}
      OBVIOUS
    <3>2. \A x \in S : \E h \in History : x = h.seq
      BY <1>4, <2>1, <3>1
    <3>3. PICK m : m = MergeHeads(H, c.item)[d]
      OBVIOUS
    <3>4. m = CHOOSE n \in {0} \cup S : \A k \in {0} \cup S : k <= n
      BY <3>1, <3>3 DEF MergeHeads
    <3>5. m \in Nat
      BY ONLY <3>2, <3>4, HighestIs
    <3> QED
      BY <3>3, <3>5
  <2>3. MergeHeads(H, c.item) \in VV
    BY <2>2 DEF MergeHeads, VV
  <2> QED
    BY <2>1, <2>3
<1>6. taken \in VV /\ \A d \in Devices : mvv[c.item][d] <= taken[d] /\ taken[d] \in Nat
    BY <1>2, <1>4, <1>5, VVParts
<1>7. PICK after : after = join(settled[c.item], meet(taken, plan_cut))
    OBVIOUS
<1>8. meet(taken, plan_cut) \in VV /\ after \in VV
    BY <1>4, <1>6, <1>7, VVParts
<1>9. ASSUME NEW d \in Devices
      PROVE  /\ after[d] \in Nat /\ settled[c.item][d] \in Nat
             /\ settled[c.item][d] <= after[d] /\ after[d] <= taken[d]
  <2>1. /\ settled[c.item][d] \in Nat /\ mvv[c.item][d] \in Nat /\ taken[d] \in Nat
        /\ mvv[c.item][d] <= taken[d] /\ after[d] \in Nat
    BY <1>4, <1>6, <1>8, VVParts
  <2>2. settled[c.item][d] <= mvv[c.item][d]
    BY <1>1, <1>4 DEF DeliveredIsApplied, leq
  <2>3. meet(taken, plan_cut)[d] <= taken[d] /\ meet(taken, plan_cut)[d] \in Nat
    BY <1>4, <1>6, <1>8, VVParts
  <2>4. after[d] \in {settled[c.item][d], meet(taken, plan_cut)[d]} /\ settled[c.item][d] <= after[d]
    BY <1>4, <1>7, <1>8, VVParts
  <2> QED
    BY <2>1, <2>2, <2>3, <2>4
<1>10. \A i \in Items : /\ settled'[i] = IF i = c.item THEN after ELSE settled[i]
                        /\ mvv'[i] = IF i = c.item THEN taken ELSE mvv[i]
    BY <1>1, <1>3, <1>4, <1>7 DEF TypeOK
<1>11. settled' \in [Items -> VV] /\ mvv' \in [Items -> VV]
    BY <1>1, <1>3, <1>6, <1>7, <1>8 DEF TypeOK
<1>12. TypeOK'
    BY <1>1, <1>3, <1>4, <1>11 DEF TypeOK
<1>13. PageInv'
    BY <1>1, <1>3 DEF PageInv
<1>14. \A i \in Items, d \in Devices : settled[i][d] <= settled'[i][d]
    BY <1>1, <1>9, <1>10, Typed
<1>15. \A h \in History : (covered(h) => covered(h)') /\ (is_settled(h) => is_settled(h)')
    BY <1>1, <1>3, <1>12, <1>14, SettledGrows
<1>16. \A h \in History : Accepted(h)' <=> Accepted(h)
    BY <1>3 DEF Accepted
<1>17. /\ (HeadsInv /\ ChainsArePrefixes)'
       /\ \A h \in History : Accepted(h)' /\ h.seq < frontier'[h.dev] => is_settled(h)'
    BY <1>3, <1>15, <1>16, LinksKeep
<1>18. IndexesExact'
    BY <1>1, <1>3, <1>17 DEF IndexesExact
<1>19. CutInv'
    BY <1>1, <1>3 DEF CutInv, PastCutoff
<1>20. ReportInv'
    BY <1>1, <1>3, <1>10 DEF ReportInv
<1>21. ReadyInv'
  <2>1. \A h \in ready : covered(h)' => h.item \in dirty'
    <3> SUFFICES ASSUME NEW h \in ready, covered(h)', h.item # c.item
                 PROVE  h.item \in dirty
      BY <1>3
    <3>1. h \in History /\ h.item \in Items
      BY <1>1, HeaderParts DEF TypeOK
    <3>2. settled'[h.item] = settled[h.item]
      BY <1>10, <3>1
    <3>3. covered(h)
      BY <3>2 DEF covered, covers
    <3> QED
      BY <1>1, <3>3 DEF ReadyInv
  <2> QED
    BY <1>1, <1>3, <2>1 DEF ReadyInv
<1>22. DeliveredIsApplied'
    BY <1>1, <1>3, <1>9, <1>10 DEF DeliveredIsApplied, leq
<1>23. NothingLeftDeliverable'
    BY <1>3 DEF NothingLeftDeliverable
<1> QED
    BY <1>12, <1>13, <1>17, <1>18, <1>19, <1>20, <1>21, <1>22, <1>23 DEF SyncInv

\* The records that a pass of the chain check takes: they go on from the head,
\* each names the one below it, and none is past a cut-off.
LEMMA WalkIs ==
  ASSUME SyncInv, NEW counting, NEW links, links = walk(counting)
  PROVE  /\ links \subseteq page
         /\ \A r \in links :
              /\ r.h.seq > head[r.h.dev] /\ ~PastCutoff(r.h) /\ r.h.prev < r.h.seq
              /\ head[r.h.dev] <= r.h.prev
              /\ r.h.prev = head[r.h.dev]
                   \/ \E q \in links : q.h.dev = r.h.dev /\ q.h.seq = r.h.prev
              /\ \A q \in links : q.h.dev = r.h.dev /\ q.h.seq < r.h.seq => q.h.seq <= r.h.prev
<1>1. TypeOK
    BY DEF SyncInv
<1>2. links \subseteq page
    BY DEF walk
<1>3. \A r \in page : /\ r.h.seq \in Nat /\ r.h.prev \in Nat /\ r.h.dev \in Devices
                      /\ head[r.h.dev] \in Nat
    BY <1>1, Typed, HeaderParts
<1>4. ASSUME NEW r \in links
      PROVE  /\ r.h.seq > head[r.h.dev] /\ ~PastCutoff(r.h) /\ r.h.prev < r.h.seq
             /\ head[r.h.dev] <= r.h.prev
             /\ r.h.prev = head[r.h.dev]
                  \/ \E q \in links : q.h.dev = r.h.dev /\ q.h.seq = r.h.prev
             /\ \A q \in links : q.h.dev = r.h.dev /\ q.h.seq < r.h.seq => q.h.seq <= r.h.prev
  <2>1. /\ r \in page /\ r.h.seq > head[r.h.dev]
        /\ \A q \in Above(r) \cup {r} : Passes(q, counting)
    BY DEF walk
  <2>2. ~PastCutoff(r.h) /\ LinksOn(r)
    BY <2>1 DEF Passes
  <2>3. \A q \in links : q.h.dev = r.h.dev /\ q.h.seq < r.h.seq => q \in Above(r)
    BY <1>2 DEF walk, Above
  <2>4. CASE Above(r) = {}
    <3>1. r.h.prev = head[r.h.dev]
      BY <2>2, <2>4 DEF LinksOn
    <3> QED
      BY <1>3, <2>1, <2>2, <2>3, <2>4, <3>1
  <2>5. CASE Above(r) # {}
    <3>1. PICK q \in Above(r) : q.h.seq = r.h.prev /\ \A p \in Above(r) : p.h.seq <= q.h.seq
      BY <2>2, <2>5 DEF LinksOn
    <3>2. q \in page /\ q.h.dev = r.h.dev /\ head[q.h.dev] < q.h.seq /\ q.h.seq < r.h.seq
      BY <3>1 DEF Above
    <3>3. Above(q) \subseteq Above(r)
      BY <1>3, <2>1, <3>2 DEF Above
    <3>4. q \in links
      BY <2>1, <3>1, <3>2, <3>3 DEF walk
    <3>5. \A p \in links : p.h.dev = r.h.dev /\ p.h.seq < r.h.seq => p.h.seq <= r.h.prev
      BY <2>3, <3>1
    <3> QED
      BY <1>3, <2>1, <2>2, <3>1, <3>2, <3>4, <3>5
  <2> QED
    BY <2>4, <2>5
<1> QED
    BY <1>2, <1>4

LEMMA CommitKeeps ==
  ASSUME SyncInv, commit
  PROVE  SyncInv'
<1>1. /\ TypeOK /\ PageInv /\ HeadsInv /\ ChainsArePrefixes /\ IndexesExact /\ CutInv
      /\ ReportInv /\ ReadyInv /\ DeliveredIsApplied
    BY DEF SyncInv
<1>2. PICK counting : counting = {h \in History : covered(h)}
    OBVIOUS
<1>3. PICK links : links = walk(counting)
    OBVIOUS
<1>4. PICK renewed : renewed = {r \in reserved : r.body \in {"verified", "waiting"}}
    OBVIOUS
<1>5. PICK updated : updated = links \cup renewed
    OBVIOUS
<1>6. PICK opened : opened = {r.h : r \in {q \in updated : q.body = "verified"}}
    OBVIOUS
<1>7. /\ phase = "absorb" /\ todo = {} /\ phase' = "covered" /\ more' = FALSE
      /\ st' = [h \in History |->
          IF \E r \in updated : r.h = h
          THEN from_body((CHOOSE r \in updated : r.h = h).body) ELSE st[h]]
      /\ head' = [d \in Devices |->
          LET seqs == {head[d]} \cup {r.h.seq : r \in {q \in links : q.h.dev = d}}
          IN CHOOSE n \in seqs : \A m \in seqs : m <= n]
      /\ ready' = ready \cup opened
      /\ dirty' = dirty \cup {h.item : h \in opened}
      /\ absorbed' = {}
      /\ flagged' = check_absorbed(head')
      /\ mheaders' = mheaders \cup {r.h : r \in links}
      /\ UNCHANGED <<frontier, settled, revoked, cut, keys, waiting_bodies, bodies,
                     mvv, merged, page, served, todo, plan_cut>>
    BY <1>2, <1>3, <1>4, <1>5, <1>6 DEF commit
<1>8. /\ links \subseteq page
      /\ \A r \in links :
           /\ r.h.seq > head[r.h.dev] /\ ~PastCutoff(r.h) /\ r.h.prev < r.h.seq
           /\ head[r.h.dev] <= r.h.prev
           /\ r.h.prev = head[r.h.dev]
                \/ \E q \in links : q.h.dev = r.h.dev /\ q.h.seq = r.h.prev
           /\ \A q \in links : q.h.dev = r.h.dev /\ q.h.seq < r.h.seq => q.h.seq <= r.h.prev
    BY <1>3, WalkIs
<1>9. \A r \in page : /\ r.h \in History /\ r.h.seq \in Nat /\ r.h.prev \in Nat
                      /\ r.h.dev \in Devices /\ head[r.h.dev] \in Nat /\ r.body \in Bodies
    BY <1>1, Typed, HeaderParts
<1>10. updated \subseteq page /\ renewed \subseteq page
       /\ \A r \in renewed : st[r.h] = "rejected"
    BY <1>4, <1>5, <1>8 DEF reserved
<1>11. \A r \in links : st[r.h] = "none"
  <2> SUFFICES ASSUME NEW r \in links, Accepted(r.h)
               PROVE  FALSE
    BY DEF Accepted
  <2>1. r \in page /\ r.h.seq > head[r.h.dev]
    BY <1>8
  <2>2. r.h \in History /\ r.h.seq \in Nat /\ head[r.h.dev] \in Nat
    BY <1>9, <2>1
  <2>3. r.h.seq <= head[r.h.dev]
    BY <1>1, <2>2 DEF ChainsArePrefixes
  <2> QED
    BY <2>1, <2>2, <2>3
<1>12. \A r \in updated : st'[r.h] = from_body(r.body)
  <2> SUFFICES ASSUME NEW r \in updated
               PROVE  st'[r.h] = from_body(r.body)
    OBVIOUS
  <2>1. \A q \in updated : q.h = r.h => q = r
    BY <1>1, <1>10 DEF PageInv
  <2>2. r.h \in History
    BY <1>9, <1>10
  <2>3. (CHOOSE q \in updated : q.h = r.h) = r
    BY <2>1
  <2> QED
    BY <1>7, <2>2, <2>3
<1>13. \A r \in updated : /\ from_body(r.body) \in {"ready", "waiting", "rejected", "bodiless"}
                          /\ from_body(r.body) = "ready" <=> r.body = "verified"
    BY <1>9, <1>10 DEF from_body, Bodies
<1>14. \A h \in History : (~\E r \in updated : r.h = h) => st'[h] = st[h]
    BY <1>7
<1>15. ASSUME NEW d \in Devices
       PROVE  /\ head'[d] \in Nat /\ head[d] \in Nat /\ head[d] <= head'[d]
              /\ head'[d] = head[d] \/ \E r \in links : r.h.dev = d /\ r.h.seq = head'[d]
              /\ \A r \in links : r.h.dev = d => r.h.seq <= head'[d]
  <2>1. PICK S : S = {r.h.seq : r \in {q \in links : q.h.dev = d}}
    OBVIOUS
  <2>2. \A x \in S : \E h \in History : x = h.seq
    BY <1>8, <1>9, <2>1
  <2>3. PICK n \in Nat : n = head[d]
    BY <1>1, Typed
  <2>4. PICK m : m = head'[d]
    OBVIOUS
  <2>5. m = CHOOSE k \in {n} \cup S : \A j \in {n} \cup S : j <= k
    BY <1>7, <2>1, <2>3, <2>4
  <2>6. m \in Nat /\ (m = n \/ m \in S) /\ n <= m /\ \A j \in S : j <= m
    BY ONLY <2>2, <2>5, n \in Nat, HighestIs
  <2> QED
    BY <2>1, <2>3, <2>4, <2>6
<1>16. \A h \in History : Accepted(h)' <=> Accepted(h) \/ \E r \in links : r.h = h
  <2> SUFFICES ASSUME NEW h \in History
               PROVE  Accepted(h)' <=> Accepted(h) \/ \E r \in links : r.h = h
    OBVIOUS
  <2>1. CASE \E r \in updated : r.h = h
    <3>1. PICK r \in updated : r.h = h
      BY <2>1
    <3>2. st'[h] # "none"
      BY <1>12, <1>13, <3>1
    <3>3. r \in links \/ st[h] = "rejected"
      BY <1>5, <1>10, <3>1
    <3> QED
      BY <3>1, <3>2, <3>3 DEF Accepted
  <2>2. CASE ~\E r \in updated : r.h = h
    BY <1>5, <1>14, <2>2 DEF Accepted
  <2> QED
    BY <2>1, <2>2
<1>17. \A h \in History : /\ st'[h] = "delivered" <=> st[h] = "delivered"
                          /\ st'[h] = "ready" <=> st[h] = "ready" \/ h \in opened
  <2> SUFFICES ASSUME NEW h \in History
               PROVE  /\ st'[h] = "delivered" <=> st[h] = "delivered"
                      /\ st'[h] = "ready" <=> st[h] = "ready" \/ h \in opened
    OBVIOUS
  <2>1. CASE \E r \in updated : r.h = h
    <3>1. PICK r \in updated : r.h = h
      BY <2>1
    <3>2. st[h] \in {"none", "rejected"}
      BY <1>5, <1>10, <1>11, <3>1
    <3>3. h \in opened <=> r.body = "verified"
      BY <1>1, <1>6, <1>10, <3>1 DEF PageInv
    <3> QED
      BY <1>12, <1>13, <3>1, <3>2, <3>3
  <2>2. CASE ~\E r \in updated : r.h = h
    BY <1>6, <1>14, <2>2
  <2> QED
    BY <2>1, <2>2
<1>18. \A h \in History : (is_settled(h)' <=> is_settled(h)) /\ (covered(h)' <=> covered(h))
    BY <1>7, <1>17 DEF is_settled, covered, covers
<1>19. opened \subseteq History /\ opened \subseteq bodies
    BY <1>1, <1>6, <1>9, <1>10 DEF PageInv
<1>20. TypeOK'
  <2>1. st' \in [History -> LinkStates]
    <3>1. \A h \in History : st'[h] \in LinkStates
      BY <1>1, <1>12, <1>13, <1>14, Typed DEF LinkStates
    <3> QED
      BY <1>7, <3>1
  <2>2. head' \in VV
    BY <1>7, <1>15 DEF VV
  <2>3. dirty' \subseteq Items /\ mheaders' \subseteq History
    BY <1>1, <1>7, <1>8, <1>9, <1>19, HeaderParts DEF TypeOK
  <2>4. flagged' \subseteq Items \X Devices
    BY <1>1, <1>7 DEF TypeOK, check_absorbed
  <2> QED
    BY <1>1, <1>7, <1>19, <2>1, <2>2, <2>3, <2>4 DEF TypeOK, Phases
<1>21. PageInv'
    BY <1>1, <1>7 DEF PageInv
<1>22. HeadsInv'
  <2>1. ASSUME NEW d \in Devices
        PROVE  \/ head'[d] = 0
               \/ \E h \in History : Accepted(h)' /\ h.dev = d /\ h.seq = head'[d]
    <3>1. CASE head'[d] = head[d]
      BY <1>1, <1>16, <3>1 DEF HeadsInv
    <3>2. CASE \E r \in links : r.h.dev = d /\ r.h.seq = head'[d]
      BY <1>8, <1>9, <1>16, <3>2
    <3> QED
      BY <1>15, <3>1, <3>2
  <2>2. \A h \in History : Accepted(h)' => h.prev < h.seq
    BY <1>1, <1>8, <1>16 DEF HeadsInv
  <2>3. \A d \in Devices : frontier'[d] <= head'[d] + 1
    <3> SUFFICES ASSUME NEW d \in Devices
                 PROVE  frontier[d] <= head'[d] + 1
      BY <1>7
    <3>1. frontier[d] \in Nat /\ frontier[d] <= head[d] + 1
      BY <1>1, Typed DEF HeadsInv
    <3> QED
      BY <1>15, <3>1
  <2> QED
    BY <2>1, <2>2, <2>3 DEF HeadsInv
<1>23. ChainsArePrefixes'
  <2> SUFFICES ASSUME NEW h \in History, Accepted(h)'
               PROVE  /\ h.seq <= head'[h.dev]
                      /\ h.prev = 0 \/ \E g \in History :
                                          Accepted(g)' /\ g.dev = h.dev /\ g.seq = h.prev
                      /\ \A g \in History :
                           Accepted(g)' /\ g.dev = h.dev /\ g.seq < h.seq => g.seq <= h.prev
    BY DEF ChainsArePrefixes
  <2>1. h.dev \in Devices /\ h.seq \in Nat /\ h.prev \in Nat
    BY HeaderParts
  <2>2. head[h.dev] \in Nat /\ head'[h.dev] \in Nat /\ head[h.dev] <= head'[h.dev]
    BY <1>15, <2>1
  <2>3. CASE Accepted(h)
    <3>1. h.seq <= head[h.dev]
      BY <1>1, <2>3 DEF ChainsArePrefixes
    <3>2. h.prev = 0 \/ \E g \in History : Accepted(g)' /\ g.dev = h.dev /\ g.seq = h.prev
      BY <1>1, <1>16, <2>3 DEF ChainsArePrefixes
    <3>3. ASSUME NEW g \in History, Accepted(g)', g.dev = h.dev, g.seq < h.seq
          PROVE  g.seq <= h.prev
      <4>1. g.seq \in Nat
        BY HeaderParts
      <4>2. ~\E r \in links : r.h = g
        BY <1>8, <2>1, <2>2, <3>1, <3>3, <4>1
      <4> QED
        BY <1>1, <1>16, <2>3, <3>3, <4>2 DEF ChainsArePrefixes
    <3> QED
      BY <2>1, <2>2, <3>1, <3>2, <3>3
  <2>4. CASE \E r \in links : r.h = h
    <3>1. PICK r \in links : r.h = h
      BY <2>4
    <3>2. h.seq <= head'[h.dev]
      BY <1>15, <2>1, <3>1
    <3>3. h.prev = 0 \/ \E g \in History : Accepted(g)' /\ g.dev = h.dev /\ g.seq = h.prev
      <4>1. CASE h.prev = head[h.dev]
        BY <1>1, <1>16, <2>1, <4>1 DEF HeadsInv
      <4>2. CASE \E q \in links : q.h.dev = h.dev /\ q.h.seq = h.prev
        BY <1>8, <1>9, <1>16, <4>2
      <4> QED
        BY <1>8, <3>1, <4>1, <4>2
    <3>4. ASSUME NEW g \in History, Accepted(g)', g.dev = h.dev, g.seq < h.seq
          PROVE  g.seq <= h.prev
      <4>1. g.seq \in Nat /\ head[h.dev] <= h.prev
        BY <1>8, <3>1, HeaderParts
      <4>2. CASE Accepted(g)
        <5>1. g.seq <= head[h.dev]
          BY <1>1, <3>4, <4>2 DEF ChainsArePrefixes
        <5> QED
          BY <2>1, <2>2, <4>1, <5>1
      <4>3. CASE \E q \in links : q.h = g
        BY <1>8, <3>1, <3>4, <4>3
      <4> QED
        BY <1>16, <3>4, <4>2, <4>3
    <3> QED
      BY <3>2, <3>3, <3>4
  <2> QED
    BY <1>16, <2>3, <2>4
<1>24. IndexesExact'
  <2>1. ready' = {h \in History : st'[h] = "ready"}
    BY <1>1, <1>7, <1>17, <1>19 DEF IndexesExact
  <2>2. ASSUME NEW h \in History, Accepted(h)', h.seq < frontier'[h.dev]
        PROVE  is_settled(h)'
    <3>1. CASE Accepted(h)
      BY <1>1, <1>7, <1>18, <2>2, <3>1 DEF IndexesExact
    <3>2. CASE \E r \in links : r.h = h
      <4>1. h.dev \in Devices /\ h.seq \in Nat /\ frontier[h.dev] \in Nat /\ head[h.dev] \in Nat
        BY <1>1, HeaderParts, Typed
      <4>2. frontier[h.dev] <= head[h.dev] + 1 /\ h.seq > head[h.dev]
        BY <1>1, <1>8, <3>2, <4>1 DEF HeadsInv
      <4>3. h.seq < frontier[h.dev]
        BY <1>7, <2>2
      <4> QED
        BY <4>1, <4>2, <4>3
    <3> QED
      BY <1>16, <2>2, <3>1, <3>2
  <2> QED
    BY <2>1, <2>2 DEF IndexesExact
<1>25. CutInv'
  <2> SUFFICES ASSUME NEW h \in History, PastCutoff(h)
               PROVE  st'[h] \in {"none", "delivered", "revoked"}
    BY <1>7 DEF CutInv, PastCutoff
  <2>1. st[h] \in {"none", "delivered", "revoked"}
    BY <1>1 DEF CutInv
  <2>2. ~\E r \in updated : r.h = h
    BY <1>5, <1>8, <1>10, <2>1
  <2> QED
    BY <1>14, <2>1, <2>2
<1>26. ReportInv'
  <2> SUFFICES ASSUME NEW i \in Items, NEW d \in Devices, settled[i][d] > head'[d]
               PROVE  <<i, d>> \in flagged'
    BY <1>7 DEF ReportInv
  <2>1. settled[i][d] > head[d]
    <3>1. settled[i][d] \in Nat
      BY <1>1, Typed
    <3> QED
      BY <1>15, <3>1
  <2>2. <<i, d>> \in flagged \/ i \in absorbed
    BY <1>1, <2>1 DEF ReportInv
  <2> QED
    BY <1>7, <2>2 DEF check_absorbed
<1>27. ReadyInv'
  <2>1. ready' \subseteq bodies'
    BY <1>1, <1>7, <1>19 DEF ReadyInv
  <2>2. \A h \in ready' : covered(h)' => h.item \in dirty'
    BY <1>1, <1>7, <1>18, <1>19 DEF ReadyInv, TypeOK
  <2> QED
    BY <1>7, <2>1, <2>2 DEF ReadyInv
<1>28. DeliveredIsApplied' /\ NothingLeftDeliverable'
    BY <1>1, <1>7, <1>17 DEF DeliveredIsApplied, leq, NothingLeftDeliverable
<1> QED
    BY <1>20, <1>21, <1>22, <1>23, <1>24, <1>25, <1>26, <1>27, <1>28 DEF SyncInv

----------------------------------------------------------------------------
(* Every step.                                                               *)

LEMMA SyncInit == Init => SyncInv
<1> SUFFICES ASSUME Init
             PROVE  SyncInv
    OBVIOUS
<1>1. \A h \in History : st[h] = "none"
    BY DEF Init
<1>2. /\ \A d \in Devices : head[d] = 0 /\ frontier[d] = 0
      /\ \A i \in Items, d \in Devices : settled[i][d] = 0 /\ mvv[i][d] = 0
    BY DEF Init, ZeroVV
<1>3. TypeOK
    BY VVParts DEF Init, TypeOK, LinkStates, Phases
<1>4. PageInv /\ CutInv /\ ReadyInv /\ ReportInv
    BY <1>1, <1>2 DEF Init, PageInv, CutInv, ReadyInv, ReportInv
<1>5. HeadsInv /\ ChainsArePrefixes /\ IndexesExact
    BY <1>1, <1>2 DEF Init, HeadsInv, ChainsArePrefixes, IndexesExact, Accepted
<1>6. DeliveredIsApplied /\ NothingLeftDeliverable
    BY <1>1, <1>2 DEF DeliveredIsApplied, NothingLeftDeliverable, leq
<1> QED
    BY <1>3, <1>4, <1>5, <1>6 DEF SyncInv

LEMMA StutterKeeps ==
  ASSUME SyncInv, UNCHANGED vars
  PROVE  SyncInv'
<1> USE DEF vars, log, client, cycle, SyncInv
<1>1. TypeOK' /\ PageInv' /\ CutInv' /\ ReportInv'
    BY DEF TypeOK, PageInv, CutInv, PastCutoff, ReportInv
<1>2. HeadsInv' /\ ChainsArePrefixes' /\ IndexesExact'
    BY DEF HeadsInv, ChainsArePrefixes, IndexesExact, Accepted, is_settled, covered, covers
<1>3. ReadyInv' /\ DeliveredIsApplied'
    BY DEF ReadyInv, DeliveredIsApplied, covered, covers, leq
<1>4. NothingLeftDeliverable'
    BY DEF NothingLeftDeliverable, FirstUnsettled, Accepted, is_settled, covered, covers,
           context_settled, leq
<1> QED
    BY <1>1, <1>2, <1>3, <1>4

LEMMA NextKeeps == SyncInv /\ [Next]_vars => SyncInv'
  BY BeginFetchKeeps, LearnWrapKeeps, VerifyOpKeeps, VerifyCoverKeeps, RetryWaitingKeeps,
     PlanCoversKeeps, AbsorbSnapshotKeeps, RefuseSnapshotKeeps, CommitKeeps,
     DeliverCoveredKeeps, DeliverFrontierKeeps, NextRoundKeeps, EndFetchKeeps,
     LearnRevocationKeeps, StutterKeeps DEF Next

\* The invariant holds in every reachable state.
LEMMA SyncInvariant == Spec => []SyncInv
  BY SyncInit, NextKeeps, PTL DEF Spec

----------------------------------------------------------------------------
(* The theorems.                                                             *)

\* Whatever pages an untrusted server sends, in whatever order, the accepted
\* links of every chain stay a linked prefix of it, the ready index stays exact,
\* and no link below a frontier is unsettled (walk, accept_link, set_body,
\* advance_frontiers).
THEOREM LogStaysSound == Spec => []LogSound
<1>1. SyncInv => LogSound
    BY DEF SyncInv, LogSound
<1> QED
    BY <1>1, SyncInvariant, PTL

\* After every Fetch cycle no ready link is covered and none is deliverable:
\* looking only at the dirty items and the frontiers loses nothing
\* (take_deliveries).
THEOREM NothingStaysDeliverable == Spec => []NothingLeftDeliverable
<1>1. SyncInv => NothingLeftDeliverable
    BY DEF SyncInv
<1> QED
    BY <1>1, SyncInvariant, PTL

\* After every Fetch cycle, a link with a rejected body that no snapshot covers is
\* below the cursor of the next Fetch, and an item that is settled past a head
\* was reported (cursor_entry, check_absorbed).
THEOREM NothingIsLeftOut == Spec => []NothingLeftOut
<1>1. ASSUME SyncInv
      PROVE  RejectedAskedAgain
  <2> SUFFICES ASSUME NEW h \in History, st[h] = "rejected", ~covered(h)
               PROVE  cursor_entry(h.dev) < h.seq
    BY DEF RejectedAskedAgain
  <2>1. TypeOK /\ HeadsInv /\ IndexesExact
    BY <1>1 DEF SyncInv
  <2>2. h.dev \in Devices /\ h.seq \in Nat /\ frontier[h.dev] \in Nat
    BY <2>1, HeaderParts, Typed
  <2>3. ~(h.seq < frontier[h.dev])
    BY <2>1 DEF IndexesExact, Accepted, is_settled
  <2> DEFINE A == AskAgain(h.dev)
  <2>4. h \in A
    BY <2>2, <2>3 DEF AskAgain
  <2>5. A \subseteq History /\ \A g \in A : Accepted(g)
    BY DEF AskAgain, Accepted
  <2> HIDE DEF A
  <2>6. \E g \in A : \A k \in A : g.seq <= k.seq
    <3>1. PICK S : S = {g.seq : g \in A}
      OBVIOUS
    <3>2. S \subseteq Nat /\ S # {}
      BY <2>4, <2>5, <3>1, HeaderParts
    <3>3. PICK n \in S : \A m \in S : n <= m
      BY <3>2, LeastElement
    <3> QED
      BY <3>1, <3>3
  <2>7. PICK g \in A : (\A k \in A : g.seq <= k.seq) /\ cursor_entry(h.dev) = g.prev
    BY <2>4, <2>6 DEF cursor_entry, A
  <2>8. g \in History /\ g.prev < g.seq /\ g.prev \in Nat /\ g.seq \in Nat
    BY <2>1, <2>5, <2>7, HeaderParts DEF HeadsInv
  <2>9. g.seq <= h.seq
    BY <2>4, <2>7
  <2> QED
    BY <2>2, <2>7, <2>8, <2>9
<1>2. SyncInv => PastHeadReported
    BY DEF SyncInv, ReportInv, PastHeadReported
<1>3. SyncInv => NothingLeftOut
    BY <1>1, <1>2 DEF NothingLeftOut
<1> QED
    BY <1>3, SyncInvariant, PTL

\* The log never claims more of an item than the merge holds, and every op it
\* delivered was applied with its body (deliver, apply_op, the pruning of
\* bodies at the end of a cycle).
THEOREM DeliveriesAreApplied == Spec => []DeliveredIsApplied
<1>1. SyncInv => DeliveredIsApplied
    BY DEF SyncInv
<1> QED
    BY <1>1, SyncInvariant, PTL

\* No step delivers an op past a cut-off that the device knows, whatever state
\* the op had reached when the revocation was learned (learn_revocation, walk).
THEOREM CutoffsAreKept == Spec => NoDeliveryPastCutoff
<1>1. ASSUME SyncInv, [Next]_vars, NEW h \in History,
             st[h] # "delivered", st'[h] = "delivered"
      PROVE  ~PastCutoff(h)
  <2>1. CutInv /\ IndexesExact /\ TypeOK
    BY <1>1 DEF SyncInv
  <2>2. CASE deliver_covered
    <3>1. h \in ready
      BY <1>1, <2>1, <2>2 DEF deliver_covered, TypeOK
    <3> QED
      BY <2>1, <3>1 DEF CutInv, IndexesExact
  <2>3. ASSUME NEW g \in History, deliver_frontier(g)
        PROVE  ~PastCutoff(h)
    <3>1. st[h] = "ready"
      BY <1>1, <2>1, <2>3 DEF deliver_frontier, Deliverable, TypeOK
    <3> QED
      BY <2>1, <3>1 DEF CutInv
  <2>4. CASE retry_waiting
    BY <1>1, <2>4 DEF retry_waiting, from_body, verdict
  <2>5. CASE commit
    <3>1. PICK U : /\ \A r \in U : r.body \in Bodies
                   /\ st' = [g \in History |-> IF \E r \in U : r.h = g
                               THEN from_body((CHOOSE r \in U : r.h = g).body) ELSE st[g]]
      <4>1. PICK U : /\ U = walk({g \in History : covered(g)})
                              \cup {r \in reserved : r.body \in {"verified", "waiting"}}
        OBVIOUS
      <4>2. \A r \in U : r.body \in Bodies
        BY <2>1, <4>1, Typed DEF walk, reserved
      <4>3. st' = [g \in History |-> IF \E r \in U : r.h = g
                     THEN from_body((CHOOSE r \in U : r.h = g).body) ELSE st[g]]
        BY <2>5, <4>1 DEF commit
      <4> QED
        BY <4>2, <4>3
    <3>2. \E r \in U : st'[h] = from_body(r.body)
      BY <1>1, <3>1
    <3> QED
      BY <1>1, <3>1, <3>2 DEF from_body, Bodies
  <2>6. ASSUME NEW d \in Retirable, NEW n \in Cutoffs, learn_revocation(d, n)
        PROVE  FALSE
    BY <1>1, <2>6 DEF learn_revocation
  <2>7. CASE UNCHANGED st
    BY <1>1, <2>7
  <2> QED
    BY <1>1, <2>2, <2>3, <2>4, <2>5, <2>6, <2>7
       DEF Next, BeginFetch, learn_wrap, verify_op, verify_cover, plan_covers, absorb_snapshot,
           refuse_snapshot, NextRound, EndFetch, vars, log
<1>2. SyncInv /\ [Next]_vars
        => [\A h \in History : st[h] # "delivered" /\ st'[h] = "delivered" => ~PastCutoff(h)]_vars
    BY <1>1
<1> QED
    BY <1>2, SyncInvariant, PTL DEF Spec, NoDeliveryPastCutoff

=============================================================================
