--------------------------- MODULE OwnChainProofs ---------------------------
(***************************************************************************)
(* Proofs about one device's own chain, for every length of the chain and  *)
(* any number of rotations, restores and requests given up.                *)
(***************************************************************************)
EXTENDS OwnChain, FiniteSetTheorems, WellFoundedInduction, TLAPS

\* Ops 1 to k are of the chain, and each of them was sent.
SentUpTo(k) ==
  k <= own_head(mem) /\ \A n \in 1..k : file.rows[n].own # "unsent"

\* The last op of a request.
EndOf(r) == r.from + Len(r.recs) - 1

\* Memory and file say the same of an op; the first send's generation, in the
\* row, is no later than the one memory still has without an answer.
RowAgrees(n) ==
  /\ file.rows[n].ver = mem.chain[n]
  /\ file.rows[n].own = "acked" <=> n <= mem.acked
  /\ file.rows[n].own = "unsent" => file.rows[n].gen = None
  /\ file.rows[n].own = "sent" => 0 < file.rows[n].gen /\ file.rows[n].gen <= mem.last
  /\ mem.unanswered[n] # None =>
       /\ file.rows[n].own = "sent" /\ file.rows[n].gen <= mem.unanswered[n]
       /\ mem.unanswered[n] <= mem.last

Linked ==
  /\ Len(file.rows) = own_head(mem) /\ file.gen = mem.last /\ file.key = mem.key
  /\ \A n \in 1..own_head(mem) : RowAgrees(n)
  /\ \A n \in Seqs : n > own_head(mem) => mem.unanswered[n] = None

\* What any copy of the chain holds, and any request carries, was sent.
CopiesSent ==
  /\ mem.last <= srv.gen
  /\ SentUpTo(Len(srv.stored)) /\ SentUpTo(Len(backup.stored)) /\ SentUpTo(Len(peer))
  /\ SentUpTo(mem.server_head)
  /\ \A r \in late \cup {call} : r.kind # "none" => 0 < r.from /\ SentUpTo(EndOf(r))

\* The awaited request is a part of the chain; what it carries beyond the
\* acknowledged ops is without an answer.
CallInv ==
  ~Idle =>
    /\ Len(call.recs) > 0
    /\ \A n \in call.from..EndOf(call) :
         /\ Version(call, n) = mem.chain[n]
         /\ n > mem.acked => mem.unanswered[n] # None
    /\ call.ok <= Len(call.recs)
    /\ call.answer # "none" => call.gen = srv.gen
    /\ call.answer = "stale" => call.ok < Len(call.recs)
    /\ call.kind = "upload" =>
         /\ call.from = mem.acked + 1 /\ EndOf(call) = own_head(mem)
         /\ mem.stale_from = None
    /\ call.kind = "heal" => call.answer \in {"none", "stored", "refused"}

\* After a stale answer each later op has an answer of the last generation, or
\* is of an earlier one.
StaleInv ==
  mem.stale_from # None =>
    \A n \in mem.stale_from..own_head(mem) : n > mem.acked =>
      /\ mem.unanswered[n] # None => mem.unanswered[n] < mem.last
      /\ file.rows[n].own = "sent" => mem.answered[n] # None

\* Requests given up are counted.
LateInv ==
  /\ IsFiniteSet(late) /\ Cardinality(late) <= left /\ \A r \in late : r.kind # "none"
  /\ \A n \in Seqs : mem.answered[n] <= mem.last

\* Every op version a copy holds was stored once, and was sent before.
EverInv ==
  /\ \A c \in {srv.stored, backup.stored, peer} : \A n \in 1..Len(c) : <<n, c[n]>> \in ever
  /\ \A e \in ever : e \in Seqs \X Epochs /\ SentUpTo(e[1])

\* Unless a request outlived its caller: what the server ever stored is what the
\* device holds, and until it is acknowledged the log counts it as unanswered;
\* what was first sent in this generation is still stored; an answer never
\* settles a stored op as refused.
HistoryInv ==
  ~Outlived =>
    /\ ~file.alarm
    /\ \A e \in ever : mem.chain[e[1]] = e[2]
    /\ \A e \in ever : e[1] > mem.acked =>
         /\ mem.unanswered[e[1]] # None
         /\ mem.unanswered[e[1]] = srv.gen => e[1] <= Len(srv.stored)
    /\ ~Idle /\ call.answer # "none" =>
         /\ call.answer # "conflict"
         /\ call.kind = "upload" =>
              \A e \in ever : e[1] >= call.from + call.ok => mem.unanswered[e[1]] # call.gen

OwnInv == TypeOK /\ Linked /\ CopiesSent /\ CallInv /\ StaleInv /\ LateInv /\ EverInv /\ HistoryInv

\* An op signed before the first rotation was first sent no earlier than any op
\* below it that is not acknowledged, in memory and in the file: every send takes
\* all of them, and an answer that settles one settles the later ones too.
FirstSends ==
  \A k, n \in 1..own_head(mem) : mem.acked < k /\ k < n /\ mem.chain[n] = 0 =>
    /\ mem.unanswered[n] # None =>
         mem.unanswered[k] # None /\ mem.unanswered[k] <= mem.unanswered[n]
    /\ file.rows[n].own = "sent" =>
         file.rows[k].own = "sent" /\ file.rows[k].gen <= file.rows[n].gen

\* No key is newer than the last rotation.
KeysKnown == mem.key <= top /\ srv.epoch <= top /\ backup.epoch <= top

\* What upload_request does to each op that is not acknowledged.
UploadSends ==
  /\ mem'.acked = mem.acked /\ mem'.key = mem.key /\ own_head(mem)' = own_head(mem)
  /\ \A n \in mem.acked + 1..own_head(mem) :
       /\ mem'.chain[n] = IF n \in reissue(mem) THEN mem.key ELSE mem.chain[n]
       /\ mem'.unanswered[n] = IF mem.unanswered[n] = None THEN mem.last ELSE mem.unanswered[n]
       /\ file'.rows[n].own = "sent"
       /\ file'.rows[n].gen = IF n \in reissue(mem) \/ file.rows[n].gen = None THEN mem.last
                              ELSE file.rows[n].gen

\* What an answer does to each op it leaves unacknowledged.
AnswerSettles ==
  /\ mem'.chain = mem.chain /\ mem'.key = mem.key /\ mem.acked <= mem'.acked
  /\ mem'.acked \in Nat
  /\ \A n \in mem'.acked + 1..own_head(mem) :
       /\ file'.rows[n].own = file.rows[n].own /\ file'.rows[n].gen = file.rows[n].gen
       /\ mem'.unanswered[n] = IF call.kind = "upload" /\ mem.unanswered[n] = srv.gen THEN None
                               ELSE mem.unanswered[n]

(***************************************************************************)
(* The largest of a bounded set, and the two CHOOSEs that take one         *)
(***************************************************************************)

\* A set of natural numbers has a least element.
LEMMA LeastElement ==
  ASSUME NEW T \in SUBSET Nat, T # {}
  PROVE  \E x \in T : \A y \in T : x <= y
  <1> DEFINE R == OpToRel(<, Nat)
  <1>1. IsWellFoundedOn(R, Nat)
    BY NatLessThanWellFounded
  <1>2. \A x, y \in Nat : y < x => <<y, x>> \in R
    BY DEF OpToRel
  <1> HIDE DEF R
  <1>3. PICK x \in T : \A y \in T : ~(<<y, x>> \in R)
    BY <1>1, WFMin
  <1>4. \A y \in T : ~(y < x) /\ x \in Nat /\ y \in Nat
    BY <1>2, <1>3
  <1>. QED
    BY <1>4

\* A bounded set of natural numbers has a largest element.
LEMMA LargestElement ==
  ASSUME NEW N \in Nat, NEW S \in SUBSET (0..N), S # {}
  PROVE  \E x \in S : \A y \in S : y <= x
  <1> DEFINE T == {t \in 0..N : \E x \in S : t + x = N}
  <1>1. \A x \in S : x \in 0..N /\ N - x \in 0..N /\ (N - x) + x = N
    OBVIOUS
  <1>2. \A x \in S : N - x \in T
    BY <1>1
  <1>3. PICK s \in S : TRUE
    OBVIOUS
  <1>4. T \in SUBSET Nat /\ T # {}
    <2>1. T \in SUBSET Nat
      OBVIOUS
    <2>2. N - s \in T
      BY <1>2, <1>3
    <2> HIDE DEF T
    <2>. QED
      BY <2>1, <2>2
  <1>5. PICK t \in T : \A u \in T : t <= u
    BY <1>4, LeastElement
  <1>6. PICK x \in S : t + x = N
    BY <1>5
  <1>7. \A y \in S : t <= N - y
    BY <1>2, <1>5
  <1>8. t \in Nat
    BY <1>5
  <1>9. \A y \in S : y <= x
    BY <1>1, <1>6, <1>7, <1>8
  <1>. QED
    BY <1>6, <1>9

\* upload stops at the first record it does not take, or at the end.
LEMMA AcceptedStops ==
  ASSUME NEW r \in Requests, NEW allowed \in BOOLEAN
  PROVE  /\ Accepted(r, allowed) \in 0..Len(r.recs)
         /\ \A n \in r.from..r.from + Accepted(r, allowed) - 1 : UploadTakes(r, n, allowed)
         /\ Accepted(r, allowed) < Len(r.recs) =>
              ~UploadTakes(r, r.from + Accepted(r, allowed), allowed)
  <1> DEFINE L == Len(r.recs)
             F == r.from
             ends == {k \in 0..L : \A n \in F..F + k - 1 : UploadTakes(r, n, allowed)}
             A == CHOOSE k \in ends : \A j \in ends : j <= k
  <1>1. L \in Nat /\ F \in Nat
    BY DEF Requests, Chains
  <1>2. Accepted(r, allowed) = A
    BY DEF Accepted
  <1> HIDE DEF L, F
  <1>3. \A n \in F..F + 0 - 1 : FALSE
    BY <1>1
  <1>4. 0 \in ends
    BY <1>1, <1>3
  <1>5. ends \in SUBSET (0..L) /\ ends # {}
    BY <1>4
  <1> HIDE DEF ends
  <1>6. \E k \in ends : \A j \in ends : j <= k
    BY <1>1, <1>5, LargestElement
  <1>7. A \in ends /\ \A j \in ends : j <= A
    BY <1>6
  <1> HIDE DEF A
  <1>8. A \in 0..L /\ \A n \in F..F + A - 1 : UploadTakes(r, n, allowed)
    BY <1>7 DEF ends
  <1>9. ASSUME A < L, UploadTakes(r, F + A, allowed)
        PROVE  FALSE
    <2>1. \A n \in F..F + (A + 1) - 1 : n = F + A \/ n \in F..F + A - 1
      BY <1>1, <1>8
    <2>2. A + 1 \in 0..L
      BY <1>1, <1>8, <1>9
    <2>3. A + 1 \in ends
      BY <1>8, <1>9, <2>1, <2>2 DEF ends
    <2>. QED
      BY <1>7, <1>8, <2>3, <1>1
  <1>. QED
    BY <1>2, <1>8, <1>9 DEF L, F

\* The healing request ends inside the chain, and carries servable ops.
LEMMA HealTopServable ==
  ASSUME mem \in Memories, mem.server_head <= own_head(mem)
  PROVE  /\ HealTop \in mem.server_head..own_head(mem)
         /\ \A k \in mem.server_head + 1..HealTop : Servable(k)
         /\ \A n \in mem.server_head..own_head(mem) :
              (\A k \in mem.server_head + 1..n : Servable(k)) => n <= HealTop
  <1> DEFINE a == mem.server_head
             b == own_head(mem)
             ends == {n \in a..b : \A k \in a + 1..n : Servable(k)}
             A == CHOOSE n \in ends : \A k \in ends : k <= n
  <1>1. a \in Nat /\ b \in Nat /\ a <= b
    BY DEF Memories, Chains, own_head
  <1>2. HealTop = A
    BY DEF HealTop
  <1> HIDE DEF a, b
  <1>3. \A k \in a + 1..a : FALSE
    BY <1>1
  <1>4. a \in ends
    BY <1>1, <1>3
  <1>5. ends \in SUBSET (0..b) /\ ends # {}
    BY <1>1, <1>4
  <1> HIDE DEF ends
  <1>6. \E n \in ends : \A k \in ends : k <= n
    BY <1>1, <1>5, LargestElement
  <1>7. A \in ends /\ \A k \in ends : k <= A
    BY <1>6
  <1> HIDE DEF A
  <1>. QED
    BY <1>2, <1>7 DEF ends, a, b

(***************************************************************************)
(* What a request leaves on the server                                     *)
(***************************************************************************)

\* Ops up to u of a request that starts at op f, after what s holds.
Extended(s, recs, f, u) == s \o SubSeq(recs, Len(s) - f + 2, u - f + 1)

\* Appending the part of a request beyond what is stored.
LEMMA AppendRange ==
  ASSUME NEW s \in Seq(Epochs), NEW recs \in Seq(Epochs), NEW f \in Nat \ {0}, NEW u \in Nat,
         f <= Len(s) + 1, Len(s) < u, u <= f + Len(recs) - 1
  PROVE  /\ Extended(s, recs, f, u) \in Seq(Epochs) /\ Len(Extended(s, recs, f, u)) = u
         /\ \A n \in 1..Len(s) : Extended(s, recs, f, u)[n] = s[n]
         /\ \A n \in Len(s) + 1..u : Extended(s, recs, f, u)[n] = recs[n - f + 1]
  <1> DEFINE a == Len(s) - f + 2
             b == u - f + 1
             new == SubSeq(recs, a, b)
             t == s \o new
  <1>1. Len(s) \in Nat /\ Len(recs) \in Nat
    OBVIOUS
  <1>2. a \in 1..Len(recs) + 1 /\ b \in a - 1..Len(recs) /\ b \in Nat /\ b - a + 1 = u - Len(s)
    BY <1>1
  <1>3. new \in Seq(Epochs) /\ Len(new) = u - Len(s)
    BY <1>1, <1>2 DEF new
  <1>4. \A i \in 1..Len(new) : new[i] = recs[a + i - 1]
    BY <1>1, <1>2, <1>3, SMTT(40)
  <1> HIDE DEF new
  <1>5. t \in Seq(Epochs) /\ Len(t) = u
    BY <1>1, <1>3
  <1>6. \A n \in 1..Len(s) : t[n] = s[n]
    BY <1>1, <1>3
  <1>7. \A n \in Len(s) + 1..u : t[n] = recs[n - f + 1]
    <2> SUFFICES ASSUME NEW n \in Len(s) + 1..u
                 PROVE  t[n] = recs[n - f + 1]
      OBVIOUS
    <2>1. t[n] = new[n - Len(s)] /\ n - Len(s) \in 1..Len(new)
      BY <1>1, <1>3
    <2>2. a + (n - Len(s)) - 1 = n - f + 1
      BY <1>1
    <2>. QED
      BY <1>4, <2>1, <2>2
  <1>8. Extended(s, recs, f, u) = t
    BY DEF Extended, new
  <1> HIDE DEF t
  <1>. QED
    BY <1>5, <1>6, <1>7, <1>8

\* A request only extends what is stored, by records it carries and up to the
\* last one it is answered as taken.
LEMMA StoreExtends ==
  ASSUME srv \in Servers, NEW r \in Requests, r.kind \in {"upload", "heal"}, 0 < r.from,
         EndOf(r) <= MaxSeq, NEW allowed \in BOOLEAN, Store(r, allowed)
  PROVE  /\ srv' \in Servers /\ srv'.gen = srv.gen
         /\ Outcome(r, allowed).ok \in 0..Len(r.recs)
         /\ Len(srv.stored) <= Len(srv'.stored)
         /\ \A n \in 1..Len(srv.stored) : srv'.stored[n] = srv.stored[n]
         /\ \A n \in Len(srv.stored) + 1..Len(srv'.stored) :
              n \in r.from..EndOf(r) /\ srv'.stored[n] = Version(r, n)
         /\ \/ Len(srv'.stored) = Len(srv.stored)
            \/ Len(srv'.stored) = r.from + Outcome(r, allowed).ok - 1
  <1> DEFINE ok == Outcome(r, allowed).ok
             u == r.from + ok - 1
             t == Extended(srv.stored, r.recs, r.from, u)
  <1>1. /\ srv.stored \in Seq(Epochs) /\ Len(srv.stored) \in Nat /\ Len(srv.stored) <= MaxSeq
        /\ r.recs \in Seq(Epochs) /\ Len(r.recs) \in Nat /\ r.from \in Nat
    BY DEF Servers, Requests, Chains
  <1> DEFINE Reaches == r.from <= u /\ Len(srv.stored) < u => r.from <= Len(srv.stored) + 1
  <1>2. ASSUME r.kind = "upload"
        PROVE  ok \in 0..Len(r.recs) /\ Reaches
    <2>1. ok = Accepted(r, allowed)
      BY <1>2 DEF Outcome
    <2>2. ok \in 0..Len(r.recs)
      BY <2>1, AcceptedStops
    <2>3. ASSUME r.from <= u, Len(srv.stored) < u
          PROVE  r.from <= Len(srv.stored) + 1
      <3>1. UploadTakes(r, u, allowed)
        BY <2>1, <2>2, <2>3, <1>1, AcceptedStops
      <3>. QED
        BY <3>1, <2>3, <2>2, <1>1 DEF UploadTakes
    <2>. QED
      BY <2>2, <2>3
  <1>3. ASSUME r.kind = "heal"
        PROVE  ok \in 0..Len(r.recs) /\ Reaches
    <2>1. CASE HealTakes(r, allowed)
      BY <1>1, <1>3, <2>1 DEF Outcome, HealTakes
    <2>2. CASE ~HealTakes(r, allowed)
      <3>1. ok = 0
        BY <1>3, <2>2 DEF Outcome
      <3>. QED
        BY <1>1, <3>1
    <2>. QED
      BY <2>1, <2>2
  <1>4. ok \in 0..Len(r.recs) /\ Reaches
    BY <1>2, <1>3
  <1>5. srv' = StoreUpTo(r, u)
    BY DEF Store
  <1>6. StoreUpTo(r, u) = IF u < r.from \/ u <= Len(srv.stored) THEN srv
                          ELSE [srv EXCEPT !.stored = t]
    BY DEF StoreUpTo, Extended
  <1> HIDE DEF ok, Reaches
  <1>7. CASE u < r.from \/ u <= Len(srv.stored)
    <2>1. srv' = srv
      BY <1>5, <1>6, <1>7
    <2>. QED
      BY <1>1, <1>4, <2>1 DEF ok
  <1>8. CASE ~(u < r.from \/ u <= Len(srv.stored))
    <2>1. /\ u \in Nat /\ r.from <= u /\ Len(srv.stored) < u
          /\ u <= r.from + Len(r.recs) - 1 /\ r.from <= Len(srv.stored) + 1
      BY <1>1, <1>4, <1>8 DEF Reaches
    <2>2. /\ t \in Seq(Epochs) /\ Len(t) = u
          /\ \A n \in 1..Len(srv.stored) : t[n] = srv.stored[n]
          /\ \A n \in Len(srv.stored) + 1..u : t[n] = r.recs[n - r.from + 1]
      <3>1. r.from \in Nat \ {0}
        BY <1>1
      <3> HIDE DEF u
      <3>2. PICK s \in Seq(Epochs) : s = srv.stored
        BY <1>1
      <3>3. PICK recs \in Seq(Epochs) : recs = r.recs
        BY <1>1
      <3>4. PICK f \in Nat \ {0} : f = r.from
        BY <3>1
      <3>5. PICK v \in Nat : v = u
        BY <2>1
      <3>6. f <= Len(s) + 1 /\ Len(s) < v /\ v <= f + Len(recs) - 1
        BY <2>1, <3>2, <3>3, <3>4, <3>5
      <3>7. /\ Extended(s, recs, f, v) \in Seq(Epochs) /\ Len(Extended(s, recs, f, v)) = v
            /\ \A n \in 1..Len(s) : Extended(s, recs, f, v)[n] = s[n]
            /\ \A n \in Len(s) + 1..v : Extended(s, recs, f, v)[n] = recs[n - f + 1]
        BY <3>6, AppendRange
      <3>. QED
        BY <3>2, <3>3, <3>4, <3>5, <3>7
    <2> HIDE DEF t
    <2>3. srv' = [srv EXCEPT !.stored = t]
      BY <1>5, <1>6, <1>8
    <2>4. u <= MaxSeq /\ MaxSeq \in Nat
      BY <1>1, <2>1, BoundsAssumption DEF EndOf
    <2>5. t \in Chains
      BY <2>2, <2>4 DEF Chains
    <2>6. srv' \in Servers /\ srv'.gen = srv.gen /\ srv'.stored = t
      BY <2>3, <2>5 DEF Servers
    <2>7. \A n \in Len(srv.stored) + 1..u : n \in r.from..EndOf(r)
      BY <1>1, <2>1 DEF EndOf
    <2>. QED
      BY <1>1, <1>4, <2>1, <2>2, <2>6, <2>7 DEF ok, Version
  <1>. QED
    BY <1>7, <1>8

(***************************************************************************)
(* The load                                                                *)
(***************************************************************************)

\* What a load restores: everything but the answers, which it takes from the
\* rows.
LEMMA LoadedIs ==
  ASSUME TypeOK, Linked
  PROVE  /\ Loaded(file) \in Memories
         /\ Loaded(file).chain = mem.chain /\ Loaded(file).acked = mem.acked
         /\ Loaded(file).key = mem.key /\ Loaded(file).last = mem.last
         /\ Loaded(file).server_head = 0 /\ Loaded(file).stale_from = None
         /\ \A n \in Seqs : Loaded(file).answered[n] = None
         /\ \A n \in Seqs : Loaded(file).unanswered[n] =
              IF n <= own_head(mem) /\ file.rows[n].own = "sent" THEN file.rows[n].gen ELSE None
  <1> DEFINE ch == [n \in 1..Len(file.rows) |-> file.rows[n].ver]
             done == {n \in 1..Len(file.rows) : file.rows[n].own = "acked"}
             un == Unanswered(file)
             an == [n \in Seqs |-> None]
  <1>1. /\ mem.chain \in Seq(Epochs) /\ Len(mem.chain) \in Nat /\ Len(mem.chain) <= MaxSeq
        /\ mem.acked \in Nat /\ mem.acked <= Len(mem.chain) /\ MaxSeq \in Nat
        /\ file.rows \in Seq(OwnRow) /\ Len(file.rows) = Len(mem.chain)
        /\ file.key \in Epochs /\ file.gen \in 0..MaxGen
    BY BoundsAssumption DEF TypeOK, Memories, Files, Chains, own_head, Linked
  <1>2. ch = mem.chain
    <2>1. \A n \in 1..Len(mem.chain) : ch[n] = mem.chain[n]
      BY <1>1 DEF Linked, RowAgrees, own_head
    <2>2. mem.chain = [n \in 1..Len(mem.chain) |-> mem.chain[n]]
      BY <1>1
    <2>. QED
      BY <1>1, <2>1, <2>2
  <1>3. Cardinality(done) = mem.acked
    <2>1. done = 1..mem.acked
      BY <1>1 DEF Linked, RowAgrees, own_head
    <2> HIDE DEF done
    <2>2. PICK a \in Nat : a = mem.acked
      BY <1>1
    <2>3. Cardinality(1..a) = IF 1 > a THEN 0 ELSE a - 1 + 1
      BY FS_Interval
    <2>. QED
      BY <2>1, <2>2, <2>3
  <1>4. un \in [Seqs -> 0..MaxGen]
    <2>1. \A n \in Seqs : n <= Len(file.rows) => file.rows[n].gen \in 0..MaxGen
      <3> SUFFICES ASSUME NEW n \in Seqs, n <= Len(file.rows)
                   PROVE  file.rows[n].gen \in 0..MaxGen
        OBVIOUS
      <3>1. n \in 1..Len(file.rows)
        BY <1>1 DEF Seqs
      <3>2. file.rows[n] \in OwnRow
        BY <1>1, <3>1
      <3>. QED
        BY <3>2 DEF OwnRow
    <2>. QED
      BY <2>1, BoundsAssumption DEF Unanswered, None
  <1>5. an \in [Seqs -> 0..MaxGen]
    BY BoundsAssumption DEF None
  <1>6. \A n \in Seqs : un[n] =
          IF n <= own_head(mem) /\ file.rows[n].own = "sent" THEN file.rows[n].gen ELSE None
    BY <1>1 DEF Unanswered, own_head
  <1>7. \A n \in Seqs : an[n] = None
    OBVIOUS
  <1>8. mem.chain \in Chains /\ mem.acked \in 0..MaxSeq /\ 0 \in 0..MaxSeq
    BY <1>1 DEF TypeOK, Memories
  <1>9. Loaded(file) = [chain |-> ch, key |-> file.key, acked |-> Cardinality(done),
                        unanswered |-> un, last |-> file.gen, fetched |-> FALSE,
                        server_head |-> 0, behind |-> FALSE, stale_from |-> None,
                        answered |-> an]
    BY DEF Loaded
  <1> HIDE DEF ch, done, un, an
  <1>10. Loaded(file) \in Memories
    BY <1>1, <1>2, <1>3, <1>4, <1>5, <1>8, <1>9 DEF Memories, None
  <1>. QED
    BY <1>2, <1>3, <1>6, <1>7, <1>9, <1>10 DEF Linked

(***************************************************************************)
(* Frames                                                                  *)
(***************************************************************************)

\* The numbers and sequences in a typed state.
LEMMA Basics ==
  ASSUME TypeOK
  PROVE  /\ MaxSeq \in Nat /\ MaxEpoch \in Nat /\ MaxGen \in Nat /\ MaxGen > 0
         /\ mem.chain \in Seq(Epochs) /\ own_head(mem) = Len(mem.chain)
         /\ own_head(mem) \in Nat /\ own_head(mem) <= MaxSeq
         /\ mem.acked \in Nat /\ mem.acked <= own_head(mem)
         /\ mem.stale_from \in Nat /\ mem.stale_from <= own_head(mem)
         /\ mem.server_head \in Nat /\ mem.last \in 0..MaxGen /\ mem.key \in Epochs
         /\ \A n \in Seqs : mem.unanswered[n] \in 0..MaxGen /\ mem.answered[n] \in 0..MaxGen
         /\ file.rows \in Seq(OwnRow) /\ Len(file.rows) \in Nat
         /\ srv.gen \in 1..MaxGen /\ srv.epoch \in Epochs
         /\ srv.stored \in Seq(Epochs) /\ Len(srv.stored) \in Nat
         /\ backup.stored \in Seq(Epochs) /\ Len(backup.stored) \in Nat
         /\ peer \in Seq(Epochs) /\ Len(peer) \in Nat
         /\ call.from \in Nat /\ call.recs \in Seq(Epochs) /\ Len(call.recs) \in Nat
         /\ call.ok \in Nat /\ call.gen \in 0..MaxGen
         /\ left \in Nat
  <1>1. mem.unanswered \in [Seqs -> 0..MaxGen] /\ mem.answered \in [Seqs -> 0..MaxGen]
    BY DEF TypeOK, Memories
  <1>2. /\ MaxSeq \in Nat /\ MaxEpoch \in Nat /\ MaxGen \in Nat /\ MaxGen > 0
        /\ left \in Nat
    BY BoundsAssumption DEF TypeOK
  <1>3. /\ mem.chain \in Seq(Epochs) /\ own_head(mem) = Len(mem.chain)
        /\ own_head(mem) \in Nat /\ own_head(mem) <= MaxSeq
        /\ mem.acked \in Nat /\ mem.acked <= own_head(mem)
        /\ mem.stale_from \in Nat /\ mem.stale_from <= own_head(mem)
        /\ mem.server_head \in Nat /\ mem.last \in 0..MaxGen /\ mem.key \in Epochs
    BY <1>2 DEF TypeOK, Memories, Chains, own_head
  <1>4. /\ file.rows \in Seq(OwnRow) /\ Len(file.rows) \in Nat
        /\ srv.gen \in 1..MaxGen /\ srv.epoch \in Epochs
        /\ srv.stored \in Seq(Epochs) /\ Len(srv.stored) \in Nat
        /\ backup.stored \in Seq(Epochs) /\ Len(backup.stored) \in Nat
        /\ peer \in Seq(Epochs) /\ Len(peer) \in Nat
    BY DEF TypeOK, Files, Servers, Chains, Gens
  <1>5. /\ call.from \in Nat /\ call.recs \in Seq(Epochs) /\ Len(call.recs) \in Nat
        /\ call.ok \in Nat /\ call.gen \in 0..MaxGen
    BY <1>2 DEF TypeOK, Requests, Chains
  <1>. QED
    BY <1>1, <1>2, <1>3, <1>4, <1>5

\* The same for each op of the chain.
LEMMA OpTypes ==
  ASSUME TypeOK, Linked
  PROVE  \A n \in 1..own_head(mem) :
           /\ n \in Nat /\ n > 0 /\ n \in Seqs /\ RowAgrees(n)
           /\ file.rows[n] \in OwnRow /\ file.rows[n].own \in {"unsent", "sent", "acked"}
           /\ file.rows[n].gen \in Nat /\ file.rows[n].gen <= MaxGen
           /\ mem.chain[n] \in Epochs
           /\ mem.unanswered[n] \in Nat /\ mem.answered[n] \in Nat
  <1> SUFFICES ASSUME NEW n \in 1..own_head(mem)
               PROVE  /\ n \in Nat /\ n > 0 /\ n \in Seqs /\ RowAgrees(n)
                      /\ file.rows[n] \in OwnRow
                      /\ file.rows[n].own \in {"unsent", "sent", "acked"}
                      /\ file.rows[n].gen \in Nat /\ file.rows[n].gen <= MaxGen
                      /\ mem.chain[n] \in Epochs
                      /\ mem.unanswered[n] \in Nat /\ mem.answered[n] \in Nat
    OBVIOUS
  <1>1. n \in Nat /\ n > 0 /\ n \in Seqs /\ n \in 1..Len(file.rows) /\ n \in 1..Len(mem.chain)
    BY Basics, SMTT(40) DEF Linked, Seqs
  <1>2. file.rows \in Seq(OwnRow) /\ mem.chain \in Seq(Epochs)
    BY Basics
  <1>3. file.rows[n] \in OwnRow /\ mem.chain[n] \in Epochs
    BY <1>1, <1>2
  <1>4. /\ file.rows[n].own \in {"unsent", "sent", "acked"}
        /\ file.rows[n].gen \in Nat /\ file.rows[n].gen <= MaxGen
    BY <1>3, BoundsAssumption DEF OwnRow
  <1>5. mem.unanswered[n] \in Nat /\ mem.answered[n] \in Nat
    BY <1>1, Basics, SMTT(40)
  <1>6. RowAgrees(n)
    BY DEF Linked
  <1>. QED
    BY <1>1, <1>3, <1>4, <1>5, <1>6

\* Steps of the device that leave the copies of its chain alone, and take no
\* sent row back.
LEMMA DeviceKeeps ==
  ASSUME TypeOK, CopiesSent, EverInv, UNCHANGED <<srv, backup, peer, ever>>,
         late' \subseteq late \cup {call},
         own_head(mem)' \in Nat, own_head(mem) <= own_head(mem)',
         \A n \in 1..own_head(mem) :
           file.rows[n].own # "unsent" => file'.rows[n].own # "unsent",
         mem'.last <= srv.gen,
         SentUpTo(mem.server_head)' \/ mem'.server_head = mem.server_head,
         call' = call \/ (call'.kind # "none" => 0 < call'.from /\ SentUpTo(EndOf(call))')
  PROVE  CopiesSent' /\ EverInv'
  <1>1. \A k \in Int : SentUpTo(k) =>
          k <= own_head(mem)' /\ \A n \in 1..k : file'.rows[n].own # "unsent"
    <2> SUFFICES ASSUME NEW k \in Int, SentUpTo(k)
                 PROVE  k <= own_head(mem)' /\ \A n \in 1..k : file'.rows[n].own # "unsent"
      OBVIOUS
    <2>1. own_head(mem) \in Nat /\ k <= own_head(mem)
      BY Basics DEF SentUpTo
    <2>2. \A n \in 1..k : n \in 1..own_head(mem) /\ file.rows[n].own # "unsent"
      BY <2>1 DEF SentUpTo
    <2>. QED
      BY <2>1, <2>2
  <1>3. \A r \in late \cup {call} : EndOf(r) \in Int
    <2>1. \A r \in late \cup {call} : r.from \in Nat /\ r.recs \in Seq(Epochs)
      BY BoundsAssumption DEF TypeOK, Requests, Chains
    <2>. QED
      BY <2>1 DEF EndOf
  <1>4. CopiesSent'
    <2>1. (mem.last <= srv.gen)'
      OBVIOUS
    <2>2. SentUpTo(Len(srv.stored))' /\ SentUpTo(Len(backup.stored))' /\ SentUpTo(Len(peer))'
      <3>1. /\ Len(srv.stored) \in Int /\ SentUpTo(Len(srv.stored))
            /\ Len(backup.stored) \in Int /\ SentUpTo(Len(backup.stored))
            /\ Len(peer) \in Int /\ SentUpTo(Len(peer))
        BY Basics DEF CopiesSent
      <3>. QED
        BY <1>1, <3>1 DEF SentUpTo
    <2>3. SentUpTo(mem.server_head)'
      <3>1. mem.server_head \in Int /\ SentUpTo(mem.server_head)
        BY Basics, SMTT(40) DEF CopiesSent
      <3>. QED
        BY <1>1, <3>1 DEF SentUpTo
    <2>4. ASSUME NEW r \in late \cup {call}, r.kind # "none"
          PROVE  0 < r.from /\ EndOf(r) <= own_head(mem)'
                 /\ \A n \in 1..EndOf(r) : file'.rows[n].own # "unsent"
      BY <1>1, <1>3, <2>4 DEF CopiesSent
    <2>5. ASSUME NEW r \in late' \cup {call'}, r.kind # "none"
          PROVE  0 < r.from /\ EndOf(r) <= own_head(mem)'
                 /\ \A n \in 1..EndOf(r) : file'.rows[n].own # "unsent"
      <3>1. CASE r \in late \cup {call}
        BY <3>1, <2>4, <2>5
      <3>2. CASE r = call' /\ call' # call
        BY <3>2, <2>5 DEF SentUpTo, EndOf
      <3>. QED
        BY <3>1, <3>2
    <2>. QED
      BY <2>1, <2>2, <2>3, <2>5 DEF CopiesSent, SentUpTo, EndOf
  <1>5. EverInv'
    <2>1. \A e \in ever : e \in Seqs \X Epochs /\ e[1] \in Int /\ SentUpTo(e[1])
      BY DEF EverInv, Seqs
    <2>. QED
      BY <1>1, <2>1 DEF EverInv, SentUpTo
  <1>. QED
    BY <1>4, <1>5

(***************************************************************************)
(* The device's steps                                                      *)
(***************************************************************************)

LEMMA WriteKeeps ==
  ASSUME OwnInv, write_op
  PROVE  OwnInv'
  <1> DEFINE h == own_head(mem)
             row == [ver |-> mem.key, own |-> "unsent", gen |-> None]
  <1>1. TypeOK /\ Linked /\ CopiesSent /\ StaleInv /\ LateInv /\ EverInv /\ HistoryInv
    BY DEF OwnInv
  <1>2. /\ h < MaxSeq /\ Idle /\ UNCHANGED <<srv, backup, top, peer, call, late, left, ever>>
        /\ mem' = [mem EXCEPT !.chain = Append(mem.chain, mem.key)]
        /\ file' = [file EXCEPT !.rows = Append(file.rows, row)]
    BY DEF write_op
  <1>3. row \in OwnRow /\ row.ver = mem.key /\ row.own = "unsent" /\ row.gen = None
    BY <1>1, Basics, BoundsAssumption DEF OwnRow, None
  <1> HIDE DEF row
  <1>4. /\ mem'.chain = Append(mem.chain, mem.key) /\ mem'.key = mem.key
        /\ mem'.acked = mem.acked /\ mem'.unanswered = mem.unanswered
        /\ mem'.last = mem.last /\ mem'.server_head = mem.server_head
        /\ mem'.stale_from = mem.stale_from /\ mem'.answered = mem.answered
    BY <1>1, <1>2 DEF TypeOK, Memories
  <1>5. /\ file'.rows = Append(file.rows, row) /\ file'.gen = file.gen
        /\ file'.key = file.key /\ (file'.alarm <=> file.alarm)
    BY <1>1, <1>2 DEF TypeOK, Files
  <1>6. /\ own_head(mem)' = h + 1 /\ h \in Nat /\ Len(file.rows) = h
        /\ Append(mem.chain, mem.key) \in Seq(Epochs)
        /\ \A n \in 1..h : mem'.chain[n] = mem.chain[n] /\ file'.rows[n] = file.rows[n]
        /\ mem'.chain[h + 1] = mem.key /\ file'.rows[h + 1] = row
        /\ Len(file'.rows) = h + 1 /\ file'.rows \in Seq(OwnRow)
    <2>1. /\ mem.chain \in Seq(Epochs) /\ file.rows \in Seq(OwnRow) /\ mem.key \in Epochs
          /\ Len(mem.chain) \in Nat /\ h = Len(mem.chain) /\ Len(file.rows) = h
      BY <1>1, Basics DEF Linked
    <2>. QED
      BY <1>3, <1>4, <1>5, <2>1 DEF own_head
  <1>7. TypeOK'
    <2>1. Append(mem.chain, mem.key) \in Chains
      BY <1>2, <1>4, <1>6, BoundsAssumption DEF Chains, own_head
    <2>2. mem' \in Memories
      BY <1>1, <1>2, <2>1 DEF TypeOK, Memories
    <2>3. file' \in Files
      BY <1>1, <1>2, <1>5, <1>6 DEF TypeOK, Files
    <2>4. (mem.acked <= own_head(mem) /\ mem.stale_from <= own_head(mem))'
      <3>1. mem.acked <= h /\ mem.stale_from <= h /\ mem.acked \in Nat /\ mem.stale_from \in Nat
        BY <1>1, Basics
      <3>. QED
        BY <1>4, <1>6, <3>1
    <2>. QED
      BY <1>1, <1>2, <2>2, <2>3, <2>4 DEF TypeOK
  <1>8. Linked'
    <2>1. h + 1 \in Seqs /\ mem.unanswered[h + 1] = None
      BY <1>1, <1>2, <1>6, BoundsAssumption, SMTT(40) DEF Linked, Seqs
    <2>2. mem.acked <= h /\ mem.acked \in Nat
      BY <1>1, Basics
    <2>3. ASSUME NEW n \in 1..h + 1
          PROVE  RowAgrees(n)'
      <3>1. CASE n \in 1..h
        BY <1>1, <1>4, <1>6, <3>1 DEF Linked, RowAgrees
      <3>2. CASE n = h + 1
        <4>1. ~(n <= mem'.acked) /\ mem'.unanswered[n] = None
          BY <1>4, <1>6, <2>1, <2>2, <3>2
        <4>2. file'.rows[n].ver = mem'.chain[n] /\ file'.rows[n].own = "unsent" /\ file'.rows[n].gen = None
          BY <1>3, <1>6, <3>2
        <4>. QED
          BY <4>1, <4>2 DEF RowAgrees
      <3>. QED
        BY <1>6, <3>1, <3>2
    <2>4. \A n \in Seqs : n > h + 1 => mem'.unanswered[n] = None
      BY <1>1, <1>4, <1>6 DEF Linked, Seqs
    <2>. QED
      BY <1>1, <1>4, <1>5, <1>6, <2>3, <2>4 DEF Linked
  <1>9. CopiesSent' /\ EverInv'
    BY <1>1, <1>2, <1>4, <1>5, <1>6, DeviceKeeps DEF CopiesSent
  <1>10. CallInv'
    BY <1>2 DEF CallInv, Idle
  <1>11. StaleInv'
    <2>1. h + 1 \in Seqs /\ mem.unanswered[h + 1] = None
      BY <1>1, <1>2, <1>6, BoundsAssumption, SMTT(40) DEF Linked, Seqs
    <2> SUFFICES ASSUME mem'.stale_from # None, NEW n \in mem'.stale_from..h + 1, n > mem'.acked
                 PROVE  /\ mem'.unanswered[n] # None => mem'.unanswered[n] < mem'.last
                        /\ file'.rows[n].own = "sent" => mem'.answered[n] # None
      BY <1>6 DEF StaleInv
    <2>2. CASE n = h + 1
      BY <1>3, <1>4, <1>6, <2>1, <2>2
    <2>3. CASE n \in mem.stale_from..h
      <3>1. n \in 1..h
        BY <1>1, <1>4, <1>6, <2>3, Basics, SMTT(40) DEF None
      <3>. QED
        BY <1>1, <1>4, <1>6, <2>3, <3>1 DEF StaleInv
    <2>. QED
      BY <1>1, <1>4, <1>6, <2>2, <2>3, Basics
  <1>12. LateInv'
    BY <1>1, <1>2, <1>4 DEF LateInv
  <1>13. HistoryInv'
    <2>1. \A e \in ever : e[1] \in 1..h
      BY <1>1, <1>6 DEF EverInv, SentUpTo, Seqs
    <2>. QED
      BY <1>1, <1>2, <1>4, <1>5, <1>6, <2>1 DEF HistoryInv, Outlived, Idle
  <1>. QED
    BY <1>7, <1>8, <1>9, <1>10, <1>11, <1>12, <1>13 DEF OwnInv

\* fetch and adopt_vault_key: a complete Fetch.
LEMMA ObserveKeeps ==
  ASSUME OwnInv, fetch \/ adopt_vault_key
  PROVE  OwnInv'
  <1> DEFINE h == own_head(mem)
             behind == Len(srv.stored) < mem.acked
             ahead == Len(srv.stored) > own_head(mem)
  <1>1. TypeOK /\ Linked /\ CopiesSent /\ StaleInv /\ LateInv /\ EverInv /\ HistoryInv
    BY DEF OwnInv
  <1>2. Idle /\ UNCHANGED <<srv, backup, top, peer, call, late, left, ever>>
    BY SMTT(40) DEF fetch, adopt_vault_key
  <1>3. PICK key \in Epochs :
          /\ mem' = [mem EXCEPT !.last = srv.gen, !.fetched = TRUE, !.key = key,
                                !.server_head = Len(srv.stored), !.behind = behind]
          /\ file' = [file EXCEPT !.gen = srv.gen, !.key = key, !.alarm = ahead]
    <2>1. CASE fetch
      BY <1>1, <2>1, ZenonT(60) DEF fetch, Observe, TypeOK, Memories, Files, Linked
    <2>2. CASE adopt_vault_key
      BY <1>1, <2>2 DEF adopt_vault_key, Observe, TypeOK, Memories, Files, Servers
    <2>. QED
      BY <2>1, <2>2
  <1>4. ahead = FALSE /\ Len(srv.stored) \in 0..MaxSeq
    BY <1>1, Basics, SMTT(40) DEF CopiesSent, SentUpTo
  <1>5. behind \in BOOLEAN /\ ahead \in BOOLEAN /\ srv.gen \in 0..MaxGen
    BY <1>1, Basics
  <1> HIDE DEF behind, ahead
  <1>6. mem' \in Memories
    BY <1>1, <1>3, <1>4, <1>5, Zenon DEF TypeOK, Memories
  <1>7. file' \in Files
    BY <1>1, <1>3, <1>5, Zenon DEF TypeOK, Files
  <1>8. /\ mem'.chain = mem.chain /\ mem'.key = key
        /\ mem'.acked = mem.acked /\ mem'.unanswered = mem.unanswered
        /\ mem'.last = srv.gen /\ mem'.server_head = Len(srv.stored)
        /\ mem'.stale_from = mem.stale_from /\ mem'.answered = mem.answered
    BY <1>1, <1>3 DEF TypeOK, Memories
  <1>9. /\ file'.rows = file.rows /\ file'.gen = srv.gen
        /\ file'.key = key /\ ~file'.alarm
    BY <1>1, <1>3, <1>4 DEF TypeOK, Files
  <1>10. /\ own_head(mem)' = h /\ h \in Nat /\ mem.last <= srv.gen
         /\ mem.last \in Nat /\ srv.gen \in Nat
    BY <1>1, <1>8, Basics DEF own_head, CopiesSent
  <1>11. TypeOK'
    BY <1>1, <1>2, <1>6, <1>7, <1>8, <1>10 DEF TypeOK
  <1>12. Linked'
    <2>1. ASSUME NEW n \in 1..h
          PROVE  RowAgrees(n)'
      <3>1. RowAgrees(n)
        BY <1>1 DEF Linked
      <3>2. n \in Seqs /\ mem.unanswered[n] \in Nat /\ file.rows[n].gen \in Nat
        BY <1>1, OpTypes
      <3>. QED
        BY <1>8, <1>9, <1>10, <3>1, <3>2 DEF RowAgrees
    <2>. QED
      BY <1>1, <1>8, <1>9, <1>10, <2>1 DEF Linked
  <1>13. CopiesSent' /\ EverInv'
    <2>1. SentUpTo(mem.server_head)'
      BY <1>1, <1>8, <1>9, <1>10 DEF SentUpTo, CopiesSent
    <2>. QED
      BY <1>1, <1>2, <1>8, <1>9, <1>10, <2>1, DeviceKeeps
  <1>14. CallInv'
    BY <1>2 DEF CallInv, Idle
  <1>15. StaleInv'
    <2> SUFFICES ASSUME mem.stale_from # None, NEW n \in mem.stale_from..h, n > mem.acked
                 PROVE  /\ mem.unanswered[n] # None => mem.unanswered[n] < srv.gen
                        /\ file.rows[n].own = "sent" => mem.answered[n] # None
      BY <1>8, <1>9, <1>10 DEF StaleInv
    <2>1. n \in 1..h
      BY <1>1, <1>10, Basics, SMTT(40) DEF None
    <2>2. mem.unanswered[n] \in Nat
      BY <1>1, <2>1, OpTypes
    <2>3. /\ mem.unanswered[n] # None => mem.unanswered[n] < mem.last
          /\ file.rows[n].own = "sent" => mem.answered[n] # None
      BY <1>1 DEF StaleInv
    <2>. QED
      BY <1>10, <2>2, <2>3
  <1>16. LateInv'
    BY <1>1, <1>2, <1>8, <1>10, Basics, SMTT(40) DEF LateInv
  <1>17. HistoryInv'
    BY <1>1, <1>2, <1>8, <1>9 DEF HistoryInv, Outlived, Idle
  <1>. QED
    BY <1>11, <1>12, <1>13, <1>14, <1>15, <1>16, <1>17 DEF OwnInv

LEMMA NoCallIdle ==
  NoCall \in Requests /\ NoCall.kind = "none"
  <1>1. <<>> \in Chains
    BY BoundsAssumption DEF Chains
  <1>. QED
    BY <1>1, BoundsAssumption DEF NoCall, Requests, None

\* No request counted as given up comes back: one that outlived its caller is
\* never forgotten.
LEMMA AbandonCounts ==
  ASSUME TypeOK, LateInv, Abandon
  PROVE  /\ call' = NoCall /\ late' \subseteq late \cup {call} /\ late' \subseteq Requests
         /\ left' \in 0..MaxLate /\ IsFiniteSet(late') /\ Cardinality(late') <= left'
         /\ (~Outlived' => ~Outlived) /\ \A r \in late' : r.kind # "none"
  <1>1. IsFiniteSet(late) /\ Cardinality(late) <= left /\ left \in 0..MaxLate /\ MaxLate \in Nat
    BY BoundsAssumption DEF LateInv, TypeOK
  <1>2. Cardinality(late) \in Nat
    BY <1>1, FS_CardinalityType
  <1>3. CASE UNCHANGED <<late, left>>
    BY <1>1, <1>3 DEF Abandon, TypeOK, Outlived, LateInv
  <1>4. CASE ~Idle /\ left < MaxLate /\ late' = late \cup {call} /\ left' = left + 1
    <2>1. PICK S : S = late
      OBVIOUS
    <2>2. PICK x : x = call
      OBVIOUS
    <2>3. /\ IsFiniteSet(S \cup {x})
          /\ Cardinality(S \cup {x}) = IF x \in S THEN Cardinality(S) ELSE Cardinality(S) + 1
      BY <1>1, <2>1, FS_AddElement
    <2>4. IsFiniteSet(late') /\ (Cardinality(late') = Cardinality(late)
                                 \/ Cardinality(late') = Cardinality(late) + 1)
      BY <1>4, <2>1, <2>2, <2>3
    <2>. QED
      BY <1>1, <1>2, <1>4, <2>4 DEF Abandon, TypeOK, Outlived, LateInv, Idle
  <1>. QED
    BY <1>3, <1>4 DEF Abandon

\* The device starts again from its file.
LEMMA ReloadKeeps ==
  ASSUME OwnInv, mem' = Loaded(file), UNCHANGED <<srv, backup, top, peer, file, ever>>,
         call' \in Requests, call'.kind = "none",
         late' \subseteq late \cup {call}, late' \subseteq Requests, left' \in 0..MaxLate,
         IsFiniteSet(late'), Cardinality(late') <= left', ~Outlived' => ~Outlived,
         \A r \in late' : r.kind # "none"
  PROVE  OwnInv'
  <1> DEFINE h == own_head(mem)
  <1>1. TypeOK /\ Linked /\ CopiesSent /\ StaleInv /\ LateInv /\ EverInv /\ HistoryInv
    BY DEF OwnInv
  <1>2. /\ mem' \in Memories /\ mem'.chain = mem.chain /\ mem'.acked = mem.acked
        /\ mem'.key = mem.key /\ mem'.last = mem.last
        /\ mem'.server_head = 0 /\ mem'.stale_from = None
        /\ \A n \in Seqs : mem'.answered[n] = None
        /\ \A n \in Seqs : mem'.unanswered[n] =
             IF n <= h /\ file.rows[n].own = "sent" THEN file.rows[n].gen ELSE None
    BY <1>1, LoadedIs
  <1>3. /\ own_head(mem)' = h /\ h \in Nat /\ mem.acked <= h /\ mem.acked \in Nat
        /\ mem.last \in Nat /\ srv.gen \in Nat /\ mem.last <= srv.gen /\ h <= MaxSeq
        /\ MaxSeq \in Nat
    BY <1>1, <1>2, Basics DEF own_head, CopiesSent
  <1>4. call' \in Requests /\ call'.kind = "none"
    OBVIOUS
  <1>5. \A n \in 1..h : mem'.unanswered[n] = IF file.rows[n].own = "sent" THEN file.rows[n].gen
                                             ELSE None
    BY <1>2, <1>3 DEF Seqs
  <1>6. TypeOK'
    BY <1>1, <1>2, <1>3, <1>4 DEF TypeOK, None
  <1>7. Linked'
    <2>1. ASSUME NEW n \in 1..h
          PROVE  RowAgrees(n)'
      <3>1. RowAgrees(n) /\ file.rows[n].gen \in Nat
        BY <1>1, OpTypes
      <3>. QED
        BY <1>2, <1>5, <3>1 DEF RowAgrees, None
    <2>2. \A n \in Seqs : n > h => mem'.unanswered[n] = None
      BY <1>2, <1>3 DEF Seqs
    <2>. QED
      BY <1>1, <1>2, <1>3, <2>1, <2>2 DEF Linked
  <1>8. CopiesSent' /\ EverInv'
    <2>1. SentUpTo(mem.server_head)'
      BY <1>2, <1>3 DEF SentUpTo
    <2>. QED
      BY <1>1, <1>2, <1>3, <1>4, <2>1, DeviceKeeps
  <1>9. CallInv'
    BY <1>4 DEF CallInv, Idle
  <1>10. StaleInv'
    BY <1>2 DEF StaleInv
  <1>11. LateInv'
    BY <1>2, <1>3 DEF LateInv, None
  <1>12. HistoryInv'
    <2> SUFFICES ASSUME ~Outlived'
                 PROVE  /\ ~file.alarm
                        /\ \A e \in ever : mem.chain[e[1]] = e[2]
                        /\ \A e \in ever : e[1] > mem.acked =>
                             /\ mem'.unanswered[e[1]] # None
                             /\ mem'.unanswered[e[1]] = srv.gen => e[1] <= Len(srv.stored)
      BY <1>2, <1>4 DEF HistoryInv, Idle
    <2>1. ~Outlived
      OBVIOUS
    <2>2. ~file.alarm /\ \A e \in ever : mem.chain[e[1]] = e[2]
      BY <1>1, <2>1 DEF HistoryInv
    <2>3. ASSUME NEW e \in ever, e[1] > mem.acked
          PROVE  /\ mem'.unanswered[e[1]] # None
                 /\ mem'.unanswered[e[1]] = srv.gen => e[1] <= Len(srv.stored)
      <3>1. PICK n \in 1..h : n = e[1]
        BY <1>1, <1>3 DEF EverInv, SentUpTo, Seqs
      <3>2. RowAgrees(n) /\ mem.unanswered[n] \in Nat /\ file.rows[n].gen \in Nat
        BY <1>1, OpTypes
      <3>3. mem.unanswered[n] # None /\ (mem.unanswered[n] = srv.gen => n <= Len(srv.stored))
        BY <1>1, <2>1, <2>3, <3>1 DEF HistoryInv
      <3>4. /\ mem'.unanswered[n] = file.rows[n].gen /\ file.rows[n].gen # 0
            /\ file.rows[n].gen <= mem.unanswered[n] /\ mem.unanswered[n] <= mem.last
        BY <1>5, <3>2, <3>3 DEF RowAgrees
      <3>. QED
        BY <1>3, <3>1, <3>2, <3>3, <3>4 DEF None
    <2>. QED
      BY <2>2, <2>3
  <1>. QED
    BY <1>6, <1>7, <1>8, <1>9, <1>10, <1>11, <1>12 DEF OwnInv

LEMMA RefusedKeeps ==
  ASSUME OwnInv, reissue_refused
  PROVE  OwnInv'
  <1>1. TypeOK /\ LateInv /\ call.kind = "none"
    BY DEF OwnInv, reissue_refused, MayUpload, Idle
  <1>2. /\ mem' = Loaded(file) /\ UNCHANGED <<srv, backup, top, peer, file, call, late, left, ever>>
    BY DEF reissue_refused
  <1>. QED
    BY <1>1, <1>2, ReloadKeeps DEF LateInv, TypeOK, Outlived

LEMMA CrashKeeps ==
  ASSUME OwnInv, Crash
  PROVE  OwnInv'
  <1>1. TypeOK /\ LateInv
    BY DEF OwnInv
  <1>2. Abandon /\ mem' = Loaded(file) /\ UNCHANGED <<srv, backup, top, peer, file, ever>>
    BY DEF Crash
  <1>. QED
    BY <1>1, <1>2, AbandonCounts, NoCallIdle, ReloadKeeps

\* GiveUp and healing_refused: the call ends and nothing else changes.
LEMMA CallEndsKeeps ==
  ASSUME OwnInv, GiveUp \/ healing_refused
  PROVE  OwnInv'
  <1>1. TypeOK /\ Linked /\ CopiesSent /\ StaleInv /\ LateInv /\ EverInv /\ HistoryInv
    BY DEF OwnInv
  <1>2. /\ call' = NoCall /\ late' \subseteq late \cup {call} /\ late' \subseteq Requests
        /\ left' \in 0..MaxLate /\ IsFiniteSet(late') /\ Cardinality(late') <= left'
        /\ (~Outlived' => ~Outlived) /\ \A r \in late' : r.kind # "none"
    <2>1. CASE GiveUp
      BY <1>1, <2>1, AbandonCounts DEF GiveUp
    <2>2. CASE healing_refused
      BY <1>1, <2>2 DEF healing_refused, LateInv, TypeOK, Outlived
    <2>. QED
      BY <2>1, <2>2
  <1>3. UNCHANGED <<srv, backup, top, peer, mem, file, ever>>
    BY DEF GiveUp, healing_refused
  <1>4. call' \in Requests /\ call'.kind = "none"
    BY <1>2, NoCallIdle
  <1>5. TypeOK'
    BY <1>1, <1>2, <1>3, <1>4 DEF TypeOK, own_head
  <1>6. Linked'
    BY <1>1, <1>3 DEF Linked, RowAgrees, own_head
  <1>7. CopiesSent' /\ EverInv'
    BY <1>1, <1>2, <1>3, <1>4, Basics, DeviceKeeps DEF own_head, CopiesSent
  <1>8. CallInv' /\ StaleInv' /\ LateInv' /\ HistoryInv'
    BY <1>1, <1>2, <1>3, <1>4 DEF CallInv, StaleInv, LateInv, HistoryInv, Idle, own_head
  <1>. QED
    BY <1>5, <1>6, <1>7, <1>8 DEF OwnInv

\* What is re-issued has an answer, and so was never stored.
LEMMA ReissuedNeverStored ==
  ASSUME OwnInv
  PROVE  \A n \in reissue(mem) :
           /\ n \in 1..own_head(mem) /\ n > mem.acked /\ mem.unanswered[n] = None
           /\ ~Outlived => \A e \in ever : e[1] # n
  <1>1. TypeOK /\ Linked /\ StaleInv /\ HistoryInv
    BY DEF OwnInv
  <1> SUFFICES ASSUME NEW n \in reissue(mem)
               PROVE  /\ n \in 1..own_head(mem) /\ n > mem.acked /\ mem.unanswered[n] = None
                      /\ ~Outlived => \A e \in ever : e[1] # n
    OBVIOUS
  <1>2. /\ n \in 1..own_head(mem) /\ mem.stale_from # None /\ n >= mem.stale_from
        /\ ~(n <= mem.acked) /\ ~(mem.unanswered[n] # None /\ mem.unanswered[n] # mem.last)
    BY DEF reissue, Stale, may_have_been_served
  <1>3. /\ mem.acked \in Nat /\ n \in Nat /\ own_head(mem) \in Nat /\ mem.stale_from \in Nat
        /\ mem.last \in Nat /\ mem.unanswered[n] \in Nat
    BY <1>1, <1>2, Basics, OpTypes
  <1>4. n > mem.acked /\ n \in mem.stale_from..own_head(mem)
    BY <1>2, <1>3
  <1>5. mem.unanswered[n] # None => mem.unanswered[n] < mem.last
    BY <1>1, <1>2, <1>4 DEF StaleInv
  <1>6. mem.unanswered[n] = None
    BY <1>2, <1>3, <1>5
  <1>7. ASSUME ~Outlived, NEW e \in ever, e[1] = n
        PROVE  FALSE
    BY <1>1, <1>4, <1>6, <1>7 DEF HistoryInv
  <1>. QED
    BY <1>2, <1>4, <1>6, <1>7

LEMMA UploadRequestKeeps ==
  ASSUME OwnInv, upload_request
  PROVE  OwnInv' /\ UploadSends
  <1> DEFINE h == own_head(mem)
             a == mem.acked
             again == reissue(mem)
             ch == [n \in 1..own_head(mem) |-> IF n \in again THEN mem.key ELSE mem.chain[n]]
             fu == [n \in Seqs |-> IF n \in again THEN None ELSE mem.unanswered[n]]
             un == [n \in Seqs |-> IF n \in Unacknowledged /\ fu[n] = None THEN mem.last
                                   ELSE fu[n]]
             an == [n \in Seqs |-> IF n \in again THEN None ELSE mem.answered[n]]
             Reissued(r, n) == IF n \in again THEN [r EXCEPT !.ver = mem.key, !.gen = None] ELSE r
             Sent(r) == [r EXCEPT !.own = "sent", !.gen = sent_generation(r, mem.last)]
             rows == [n \in 1..Len(file.rows) |->
                        IF n \in Unacknowledged THEN Sent(Reissued(file.rows[n], n))
                        ELSE file.rows[n]]
             recs == SubSeq(ch, mem.acked + 1, own_head(mem))
  <1>1. TypeOK /\ Linked /\ CopiesSent /\ StaleInv /\ LateInv /\ EverInv /\ HistoryInv
    BY DEF OwnInv
  <1>2. /\ UNCHANGED <<srv, backup, top, peer, late, left, ever>>
        /\ mem.last # None /\ call.kind = "none" /\ Unacknowledged # {}
        /\ call' = [NoCall EXCEPT !.kind = "upload", !.from = mem.acked + 1, !.recs = recs]
        /\ file' = [file EXCEPT !.rows = rows]
    BY <1>1 DEF upload_request, MayUpload, Idle, TypeOK, Memories
  <1>3. mem' = [mem EXCEPT !.chain = ch, !.unanswered = un, !.answered = an, !.stale_from = None]
    BY <1>1 DEF upload_request, record_sent, TypeOK, Memories
  <1>4. /\ h \in Nat /\ a \in Nat /\ a < h /\ h <= MaxSeq /\ MaxSeq \in Nat /\ MaxGen \in Nat
        /\ mem.last \in Nat /\ mem.last > 0 /\ mem.last <= MaxGen /\ mem.key \in Epochs
        /\ mem.chain \in Seq(Epochs) /\ Len(mem.chain) = h /\ Len(file.rows) = h
        /\ Unacknowledged = a + 1..h
    <2>1. /\ h \in Nat /\ a \in Nat /\ a <= h /\ h <= MaxSeq /\ MaxSeq \in Nat /\ MaxGen \in Nat
          /\ mem.last \in 0..MaxGen /\ mem.key \in Epochs
          /\ mem.chain \in Seq(Epochs) /\ Len(mem.chain) = h /\ Len(file.rows) = h
          /\ Unacknowledged = a + 1..h
      BY <1>1, Basics DEF Linked, Unacknowledged
    <2>2. Unacknowledged # {} /\ mem.last # 0
      BY <1>2 DEF None
    <2>3. ASSUME a = h
          PROVE  FALSE
      <3>1. \A n \in a + 1..h : FALSE
        BY <2>1, <2>3
      <3>. QED
        BY <2>1, <2>2, <3>1
    <2>4. a < h
      BY <2>1, <2>3
    <2>5. mem.last \in Nat /\ mem.last > 0 /\ mem.last <= MaxGen
      BY <2>1, <2>2
    <2>. QED
      BY <2>1, <2>4, <2>5
  <1>5. \A n \in again : /\ n \in 1..h /\ n > a /\ mem.unanswered[n] = None
                         /\ ~Outlived => \A e \in ever : e[1] # n
    BY ReissuedNeverStored
  <1> HIDE DEF again
  <1>6. ch \in Seq(Epochs) /\ Len(ch) = h
        /\ \A n \in 1..h : ch[n] = IF n \in again THEN mem.key ELSE mem.chain[n]
    BY <1>4
  <1> HIDE DEF ch
  <1>7. /\ un \in [Seqs -> 0..MaxGen] /\ an \in [Seqs -> 0..MaxGen]
        /\ \A n \in Seqs : an[n] = IF n \in again THEN None ELSE mem.answered[n]
        /\ \A n \in Seqs : un[n] = IF n \in a + 1..h /\ fu[n] = None THEN mem.last ELSE fu[n]
        /\ \A n \in Seqs : fu[n] = IF n \in again THEN None ELSE mem.unanswered[n]
    BY <1>1, <1>4, Basics, SMTT(40) DEF None
  <1>8. \A n \in Seqs : un[n] = IF n \in a + 1..h /\ mem.unanswered[n] = None THEN mem.last
                                ELSE mem.unanswered[n]
    BY <1>4, <1>5, <1>7
  <1>9. Len(rows) = h
        /\ \A n \in 1..h : rows[n] = IF n \in a + 1..h THEN Sent(Reissued(file.rows[n], n))
                                     ELSE file.rows[n]
    BY <1>4
  <1>10. ASSUME NEW n \in a + 1..h
         PROVE  /\ Sent(Reissued(file.rows[n], n)) \in OwnRow
                /\ Sent(Reissued(file.rows[n], n)).own = "sent"
                /\ Sent(Reissued(file.rows[n], n)).ver = ch[n]
                /\ Sent(Reissued(file.rows[n], n)).gen =
                     IF n \in again \/ file.rows[n].gen = None THEN mem.last ELSE file.rows[n].gen
    <2>1. n \in 1..h
      BY <1>4
    <2>2. PICK r \in OwnRow : r = file.rows[n]
      BY <1>1, <2>1, OpTypes
    <2>3. r.ver = mem.chain[n]
      BY <1>1, <2>1, <2>2 DEF Linked, RowAgrees
    <2>4. CASE n \in again
      <3>1. Reissued(r, n) = [r EXCEPT !.ver = mem.key, !.gen = None]
        BY <2>4
      <3>. QED
        <4>0. None \in 0..MaxGen /\ mem.last \in 0..MaxGen /\ mem.key \in Epochs
          BY <1>4 DEF None
        <4>1. PICK q \in OwnRow : q = [r EXCEPT !.ver = mem.key, !.gen = None]
          BY <4>0, Zenon DEF OwnRow
        <4>2. q.gen = None /\ q.ver = mem.key
          BY <4>1 DEF OwnRow
        <4>3. Sent(q) = [q EXCEPT !.own = "sent", !.gen = mem.last]
          BY <4>2 DEF sent_generation
        <4>4. /\ Sent(q) \in OwnRow /\ Sent(q).own = "sent" /\ Sent(q).ver = mem.key
              /\ Sent(q).gen = mem.last
          <5>1. [q EXCEPT !.own = "sent", !.gen = mem.last] \in OwnRow
            BY <4>0, Zenon DEF OwnRow
          <5>2. PICK t \in OwnRow : t = [q EXCEPT !.own = "sent", !.gen = mem.last]
            BY <5>1
          <5>3. t.own = "sent" /\ t.ver = q.ver /\ t.gen = mem.last
            BY <5>2 DEF OwnRow
          <5> HIDE DEF Sent
          <5>. QED
            BY <4>2, <4>3, <5>2, <5>3
        <4>5. Sent(Reissued(file.rows[n], n)) = Sent(q)
          BY <2>2, <3>1, <4>1
        <4> HIDE DEF Sent, Reissued
        <4>. QED
          BY <1>6, <2>1, <2>4, <4>4, <4>5
    <2>5. CASE n \notin again
      <3>1. Reissued(r, n) = r
        BY <2>5, SMTT(40)
      <3>. QED
        <4>1. PICK g \in 0..MaxGen : g = IF r.gen = None THEN mem.last ELSE r.gen
          BY <1>4 DEF OwnRow
        <4>2. Sent(r) = [r EXCEPT !.own = "sent", !.gen = g]
          BY <4>1 DEF sent_generation
        <4>3. /\ Sent(r) \in OwnRow /\ Sent(r).own = "sent" /\ Sent(r).ver = r.ver
              /\ Sent(r).gen = g
          BY <4>2 DEF OwnRow
        <4>4. Sent(Reissued(file.rows[n], n)) = Sent(r)
          BY <2>2, <3>1
        <4> HIDE DEF Sent, Reissued
        <4>. QED
          BY <1>6, <2>1, <2>2, <2>3, <2>5, <4>1, <4>3, <4>4
    <2>. QED
      BY <2>4, <2>5
  <1>11. /\ rows \in Seq(OwnRow)
         /\ \A n \in 1..a : rows[n] = file.rows[n]
         /\ \A n \in a + 1..h :
              /\ rows[n].own = "sent" /\ rows[n].ver = ch[n]
              /\ rows[n].gen = IF n \in again \/ file.rows[n].gen = None THEN mem.last
                               ELSE file.rows[n].gen
    <2>1. \A n \in 1..h : rows[n] \in OwnRow
      BY <1>1, <1>4, <1>9, <1>10, OpTypes
    <2>2. rows \in Seq(OwnRow)
      <3>1. rows = [n \in 1..h |-> rows[n]]
        BY <1>4
      <3> HIDE DEF rows
      <3>. QED
        BY <1>4, <2>1, <3>1
    <2>3. \A n \in 1..a : n \in 1..h /\ n \notin a + 1..h
      BY <1>4
    <2>4. \A n \in a + 1..h : n \in 1..h
      BY <1>4
    <2>. QED
      BY <1>9, <1>10, <2>2, <2>3, <2>4, ZenonT(60)
  <1>12. /\ recs \in Seq(Epochs) /\ Len(recs) = h - a
         /\ \A n \in a + 1..h : recs[n - (a + 1) + 1] = ch[n]
    <2>1. a + 1 \in 1..Len(ch) /\ h \in 1..Len(ch)
      BY <1>4, <1>6
    <2>2. recs \in Seq(Epochs) /\ Len(recs) = h - a
      BY <1>4, <1>6, <2>1, SMTT(40)
    <2>3. \A i \in 1..h - a : recs[i] = ch[a + i]
      BY <1>4, <1>6, <2>1, SMTT(40)
    <2>4. \A n \in a + 1..h : n - (a + 1) + 1 \in 1..h - a /\ a + (n - (a + 1) + 1) = n
      BY <1>4, SMTT(40)
    <2>. QED
      BY <2>2, <2>3, <2>4
  <1> HIDE DEF ch, un, an, rows, recs, fu
  <1>13. /\ mem'.chain = ch /\ mem'.key = mem.key /\ mem'.acked = a /\ mem'.unanswered = un
         /\ mem'.last = mem.last /\ mem'.server_head = mem.server_head
         /\ mem'.stale_from = None /\ mem'.answered = an
    BY <1>1, <1>3 DEF TypeOK, Memories
  <1>14. /\ file'.rows = rows /\ file'.gen = file.gen /\ file'.key = file.key
         /\ (file'.alarm <=> file.alarm)
    BY <1>1, <1>2 DEF TypeOK, Files
  <1>15. /\ call'.kind = "upload" /\ call'.from = a + 1 /\ call'.recs = recs
         /\ call'.answer = "none" /\ call'.ok = 0 /\ call'.gen = None
    BY <1>2 DEF NoCall
  <1>16. own_head(mem)' = h
    BY <1>6, <1>13 DEF own_head
  <1>17. TypeOK'
    <2>1. ch \in Chains /\ recs \in Chains
      BY <1>4, <1>6, <1>12 DEF Chains
    <2>2. mem' \in Memories
      <3>1. None \in 0..MaxSeq
        BY <1>4 DEF None
      <3>. QED
        BY <1>1, <1>3, <1>7, <2>1, <3>1, Zenon DEF TypeOK, Memories
    <2>3. file' \in Files
      BY <1>1, <1>2, <1>11 DEF TypeOK, Files
    <2>4. call' \in Requests
      <3>1. a + 1 \in 0..MaxSeq
        BY <1>4
      <3>. QED
        BY <1>2, <2>1, <3>1, NoCallIdle, Zenon DEF Requests
    <2>. QED
      BY <1>1, <1>2, <1>4, <1>13, <1>16, <2>2, <2>3, <2>4 DEF TypeOK, None
  <1>18. Linked'
    <2>1. ASSUME NEW n \in 1..h
          PROVE  RowAgrees(n)'
      <3>1. /\ RowAgrees(n) /\ n \in Seqs /\ n \in Nat /\ mem.unanswered[n] \in Nat
            /\ file.rows[n].gen \in Nat /\ file.rows[n].own \in {"unsent", "sent", "acked"}
        BY <1>1, OpTypes
      <3>2. CASE n \in 1..a
        <4>1. n \notin again /\ un[n] = mem.unanswered[n] /\ ch[n] = mem.chain[n]
              /\ rows[n] = file.rows[n]
          BY <1>4, <1>5, <1>6, <1>8, <1>11, <3>1, <3>2
        <4>. QED
          BY <1>13, <1>14, <3>1, <4>1 DEF RowAgrees
      <3>3. CASE n \in a + 1..h
        <4>1. ~(n <= a)
          BY <1>4, <3>3
        <4>2. file.rows[n].own # "acked" /\ file.rows[n].gen <= mem.last
          BY <1>4, <3>1, <4>1 DEF RowAgrees, None
        <4>3. /\ rows[n].own = "sent" /\ rows[n].ver = ch[n]
              /\ rows[n].gen = IF n \in again \/ file.rows[n].gen = None THEN mem.last
                               ELSE file.rows[n].gen
              /\ un[n] = IF mem.unanswered[n] = None THEN mem.last ELSE mem.unanswered[n]
          BY <1>8, <1>11, <3>1, <3>3
        <4>4. 0 < rows[n].gen /\ rows[n].gen <= mem.last
          BY <1>4, <3>1, <4>2, <4>3 DEF None
        <4>5. rows[n].gen <= un[n] /\ un[n] <= mem.last
          <5>1. CASE mem.unanswered[n] = None
            BY <1>4, <4>3, <4>4, <5>1
          <5>2. CASE mem.unanswered[n] # None
            <6>1. n \notin again /\ file.rows[n].own = "sent" /\ 0 < file.rows[n].gen
                  /\ file.rows[n].gen <= mem.unanswered[n] /\ mem.unanswered[n] <= mem.last
              BY <1>5, <3>1, <5>2 DEF RowAgrees
            <6>. QED
              BY <4>3, <5>2, <6>1 DEF None
          <5>. QED
            BY <5>1, <5>2
        <4>. QED
          BY <1>13, <1>14, <4>1, <4>3, <4>4, <4>5 DEF RowAgrees
      <3>. QED
        BY <1>4, <3>2, <3>3
    <2>2. \A n \in Seqs : n > h => un[n] = None
      BY <1>1, <1>4, <1>8 DEF Linked, Seqs
    <2>. QED
      BY <1>1, <1>9, <1>13, <1>14, <1>16, <2>1, <2>2 DEF Linked, rows
  <1>19. CopiesSent' /\ EverInv'
    <2>1. \A n \in 1..h : file'.rows[n].own # "unsent"
      <3> SUFFICES ASSUME NEW n \in 1..h
                   PROVE  rows[n].own # "unsent"
        BY <1>14
      <3>1. CASE n \in 1..a
        <4>1. file.rows[n].own = "acked"
          BY <1>1, <1>4, <3>1 DEF Linked, RowAgrees
        <4>. QED
          BY <1>11, <3>1, <4>1
      <3>2. CASE n \in a + 1..h
        BY <1>11, <3>2
      <3>. QED
        BY <1>4, <3>1, <3>2
    <2>2. EndOf(call)' = h
      BY <1>4, <1>12, <1>15, SMTT(40) DEF EndOf
    <2>3. 0 < call'.from /\ SentUpTo(EndOf(call))'
      BY <1>4, <1>15, <1>16, <2>1, <2>2 DEF SentUpTo
    <2>4. late' \subseteq late \cup {call} /\ mem'.last <= srv.gen
      BY <1>1, <1>2, <1>13 DEF CopiesSent
    <2>. QED
      BY <1>1, <1>2, <1>4, <1>13, <1>16, <2>1, <2>3, <2>4, DeviceKeeps
  <1>20. CallInv'
    <2>1. EndOf(call)' = h
      <3>1. EndOf(call)' = a + 1 + (h - a) - 1
        BY <1>12, <1>15 DEF EndOf
      <3>. QED
        BY <1>4, <3>1
    <2>2. ASSUME NEW n \in a + 1..h
          PROVE  Version(call', n) = mem'.chain[n] /\ mem'.unanswered[n] # None
      <3>1. n \in Seqs
        BY <1>4 DEF Seqs
      <3>. QED
        <4>1. Version(call', n) = recs[n - (a + 1) + 1]
          BY <1>15 DEF Version
        <4>2. un[n] # None
          BY <1>4, <1>8, <3>1 DEF None
        <4>. QED
          BY <1>12, <1>13, <4>1, <4>2
    <2>3. Len(call'.recs) > 0 /\ call'.ok <= Len(call'.recs)
      BY <1>4, <1>12, <1>15
    <2>. QED
      BY <1>13, <1>15, <1>16, <2>1, <2>2, <2>3 DEF CallInv, Version
  <1>21. StaleInv'
    BY <1>13 DEF StaleInv
  <1>22. LateInv'
    <2>1. \A n \in Seqs : an[n] <= mem.last
      BY <1>1, <1>4, <1>7 DEF LateInv, None
    <2>. QED
      BY <1>1, <1>2, <1>13, <2>1 DEF LateInv
  <1>23. HistoryInv'
    <2> SUFFICES ASSUME ~Outlived
                 PROVE  /\ ~file.alarm
                        /\ \A e \in ever : ch[e[1]] = e[2]
                        /\ \A e \in ever : e[1] > a =>
                             /\ un[e[1]] # None
                             /\ un[e[1]] = srv.gen => e[1] <= Len(srv.stored)
      BY <1>2, <1>13, <1>14, <1>15 DEF HistoryInv, Outlived
    <2>1. /\ ~file.alarm
          /\ \A e \in ever : mem.chain[e[1]] = e[2]
          /\ \A e \in ever : e[1] > a =>
               /\ mem.unanswered[e[1]] # None
               /\ mem.unanswered[e[1]] = srv.gen => e[1] <= Len(srv.stored)
      BY <1>1 DEF HistoryInv
    <2>2. \A e \in ever : e[1] \in 1..h /\ e[1] \in Seqs /\ e[1] \notin again
      BY <1>1, <1>4, <1>5 DEF EverInv, SentUpTo, Seqs
    <2>3. \A e \in ever : ch[e[1]] = mem.chain[e[1]]
      BY <1>6, <2>2
    <2>4. \A e \in ever : e[1] > a => un[e[1]] = mem.unanswered[e[1]]
      BY <1>8, <2>1, <2>2
    <2>. QED
      BY <2>1, <2>3, <2>4
  <1>24. UploadSends
    <2>1. \A n \in a + 1..h : n \in 1..h /\ n \in Seqs
      BY <1>4 DEF Seqs
    <2>. QED
      BY <1>6, <1>8, <1>11, <1>13, <1>14, <1>16, <2>1 DEF UploadSends, again
  <1>. QED
    BY <1>17, <1>18, <1>19, <1>20, <1>21, <1>22, <1>23, <1>24 DEF OwnInv

\* MarkAcked changes nothing but the state of the rows up to u.
LEMMA MarkedRows ==
  ASSUME TypeOK, Linked, NEW u \in Nat, u <= own_head(mem)
  PROVE  /\ MarkAcked(file.rows, mem.acked, u) \in Seq(OwnRow)
         /\ Len(MarkAcked(file.rows, mem.acked, u)) = own_head(mem)
         /\ \A n \in 1..own_head(mem) :
              /\ MarkAcked(file.rows, mem.acked, u)[n].ver = file.rows[n].ver
              /\ MarkAcked(file.rows, mem.acked, u)[n].gen = file.rows[n].gen
              /\ MarkAcked(file.rows, mem.acked, u)[n].own =
                   IF n <= Max2(mem.acked, u) THEN "acked" ELSE file.rows[n].own
  <1> DEFINE h == own_head(mem)
             a == mem.acked
             R == MarkAcked(file.rows, mem.acked, u)
             Marked(n) == [file.rows[n] EXCEPT !.own = "acked"]
  <1>1. h \in Nat /\ Len(file.rows) = h /\ a \in Nat
    BY Basics DEF Linked
  <1>2. R = [n \in 1..h |-> IF a < n /\ n <= u THEN Marked(n) ELSE file.rows[n]]
    BY <1>1 DEF MarkAcked
  <1>3. ASSUME NEW n \in 1..h
        PROVE  /\ R[n] \in OwnRow /\ R[n].ver = file.rows[n].ver /\ R[n].gen = file.rows[n].gen
               /\ R[n].own = IF n <= Max2(a, u) THEN "acked" ELSE file.rows[n].own
    <2>1. PICK r \in OwnRow : r = file.rows[n]
      BY OpTypes
    <2>2. /\ [r EXCEPT !.own = "acked"] \in OwnRow /\ [r EXCEPT !.own = "acked"].ver = r.ver
          /\ [r EXCEPT !.own = "acked"].gen = r.gen /\ [r EXCEPT !.own = "acked"].own = "acked"
      BY DEF OwnRow
    <2>3. CASE a < n /\ n <= u
      <3>1. R[n] = [r EXCEPT !.own = "acked"]
        BY <1>2, <2>1, <2>3
      <3>2. n <= Max2(a, u)
        BY <1>1, <2>3 DEF Max2
      <3> HIDE DEF R
      <3>. QED
        BY <2>1, <2>2, <3>1, <3>2
    <2>4. CASE ~(a < n /\ n <= u)
      <3>1. R[n] = r
        BY <1>2, <2>1, <2>4
      <3>2. n <= Max2(a, u) => n <= a
        BY <1>1, <2>4 DEF Max2
      <3>3. n <= a => r.own = "acked"
        BY <2>1, OpTypes DEF RowAgrees
      <3> HIDE DEF R
      <3>. QED
        BY <2>1, <3>1, <3>2, <3>3
    <2>. QED
      BY <2>3, <2>4
  <1>4. R = [n \in 1..h |-> R[n]]
    BY <1>2
  <1> HIDE DEF R
  <1>5. R \in Seq(OwnRow) /\ Len(R) = h
    BY <1>1, <1>3, <1>4
  <1>. QED
    BY <1>3, <1>5 DEF R

\* An answer is applied: ops up to u are acknowledged, a part of the others is
\* no longer without an answer.
LEMMA AnswerKeeps ==
  ASSUME OwnInv, call.kind # "none", UNCHANGED <<srv, backup, top, peer, late, left, ever>>,
         call' \in Requests, call'.kind = "none", NEW u \in Nat, u <= EndOf(call),
         mem' \in Memories, mem'.chain = mem.chain, mem'.key = mem.key,
         mem'.server_head = mem.server_head, mem'.last = srv.gen,
         mem'.acked = Max2(mem.acked, u), mem'.stale_from <= own_head(mem),
         \A n \in Seqs : /\ mem'.unanswered[n] = None \/ mem'.unanswered[n] = mem.unanswered[n]
                         /\ n <= mem'.acked => mem'.unanswered[n] = None
                         /\ mem'.answered[n] <= srv.gen,
         file' \in Files, file'.rows = MarkAcked(file.rows, mem.acked, u),
         file'.gen = srv.gen, file'.key = file.key, StaleInv',
         ~Outlived => /\ ~file'.alarm
                      /\ \A e \in ever : e[1] > mem'.acked =>
                           mem'.unanswered[e[1]] = mem.unanswered[e[1]]
  PROVE  OwnInv'
  <1> DEFINE h == own_head(mem)
  <1>1. TypeOK /\ Linked /\ CopiesSent /\ LateInv /\ EverInv /\ HistoryInv
    BY DEF OwnInv
  <1>2. u <= h /\ \A n \in 1..u : file.rows[n].own # "unsent"
    <2>1. SentUpTo(EndOf(call))
      BY <1>1 DEF CopiesSent
    <2>2. EndOf(call) \in Int /\ h \in Nat
      BY <1>1, Basics DEF EndOf
    <2>. QED
      BY <2>1, <2>2 DEF SentUpTo
  <1>3. /\ own_head(mem)' = h /\ h \in Nat /\ mem.acked \in Nat /\ mem.acked <= h
        /\ mem.last \in Nat /\ srv.gen \in Nat /\ mem.last <= srv.gen
    BY <1>1, Basics DEF own_head, CopiesSent
  <1>4. mem'.acked \in Nat /\ mem'.acked <= h /\ mem'.acked >= mem.acked /\ mem'.acked >= u
    BY <1>2, <1>3 DEF Max2
  <1>5. /\ Len(file'.rows) = h
        /\ \A n \in 1..h : /\ file'.rows[n].ver = file.rows[n].ver
                           /\ file'.rows[n].gen = file.rows[n].gen
                           /\ file'.rows[n].own = IF n <= mem'.acked THEN "acked"
                                                  ELSE file.rows[n].own
    BY <1>1, <1>2, MarkedRows
  <1>6. TypeOK'
    BY <1>1, <1>3, <1>4 DEF TypeOK
  <1>7. Linked'
    <2>1. ASSUME NEW n \in 1..h
          PROVE  RowAgrees(n)'
      <3>1. /\ RowAgrees(n) /\ n \in Seqs /\ n \in Nat
            /\ file.rows[n].gen \in Nat /\ mem.unanswered[n] \in Nat
        BY <1>1, OpTypes
      <3>2. CASE n <= mem'.acked
        <4>1. file'.rows[n].own = "acked" /\ mem'.unanswered[n] = None
          BY <1>5, <3>1, <3>2
        <4>. QED
          BY <1>5, <3>1, <3>2, <4>1 DEF RowAgrees
      <3>3. CASE ~(n <= mem'.acked)
        <4>1. ~(n <= mem.acked)
          BY <1>3, <1>4, <3>1, <3>3
        <4>2. file'.rows[n].own = file.rows[n].own
          BY <1>5, <3>3
        <4>. QED
          BY <1>3, <1>5, <3>1, <3>3, <4>1, <4>2 DEF RowAgrees
      <3>. QED
        BY <3>2, <3>3
    <2>2. \A n \in Seqs : n > h => mem'.unanswered[n] = None
      BY <1>1 DEF Linked
    <2>. QED
      BY <1>1, <1>3, <1>5, <2>1, <2>2 DEF Linked
  <1>8. CopiesSent' /\ EverInv'
    <2>1. \A n \in 1..h : file.rows[n].own # "unsent" => file'.rows[n].own # "unsent"
      BY <1>5
    <2>. QED
      BY <1>1, <1>3, <2>1, DeviceKeeps
  <1>9. CallInv'
    BY DEF CallInv, Idle
  <1>10. LateInv'
    BY <1>1 DEF LateInv
  <1>11. HistoryInv'
    <2> SUFFICES ASSUME ~Outlived
                 PROVE  /\ ~file'.alarm
                        /\ \A e \in ever : mem.chain[e[1]] = e[2]
                        /\ \A e \in ever : e[1] > mem'.acked =>
                             /\ mem'.unanswered[e[1]] # None
                             /\ mem'.unanswered[e[1]] = srv.gen => e[1] <= Len(srv.stored)
      BY DEF HistoryInv, Outlived, Idle
    <2>1. \A e \in ever : e[1] \in Nat
      BY <1>1 DEF EverInv, Seqs
    <2>2. \A e \in ever : e[1] > mem'.acked => e[1] > mem.acked
      BY <1>3, <1>4, <2>1
    <2>3. /\ \A e \in ever : mem.chain[e[1]] = e[2]
          /\ \A e \in ever : e[1] > mem.acked =>
               /\ mem.unanswered[e[1]] # None
               /\ mem.unanswered[e[1]] = srv.gen => e[1] <= Len(srv.stored)
      BY <1>1 DEF HistoryInv
    <2>. QED
      BY <2>2, <2>3
  <1>. QED
    BY <1>6, <1>7, <1>8, <1>9, <1>10, <1>11 DEF OwnInv

LEMMA HealingResponseKeeps ==
  ASSUME OwnInv, apply_healing_response
  PROVE  OwnInv' /\ AnswerSettles
  <1> DEFINE u == EndOf(call)
             A == Max2(mem.acked, u)
             un == [k \in Seqs |-> IF k <= A THEN None ELSE mem.unanswered[k]]
             an == [k \in Seqs |-> IF k <= A THEN None ELSE mem.answered[k]]
             rows == MarkAcked(file.rows, mem.acked, u)
  <1>1. TypeOK /\ Linked /\ CopiesSent /\ CallInv /\ StaleInv /\ LateInv /\ EverInv /\ HistoryInv
    BY DEF OwnInv
  <1>2. /\ call.kind = "heal" /\ call.answer = "stored" /\ call' = NoCall
        /\ UNCHANGED <<srv, backup, top, peer, late, left, ever>>
    BY DEF apply_healing_response
  <1>3. call.gen = srv.gen /\ 0 < call.from /\ Len(call.recs) > 0 /\ u <= own_head(mem)
    BY <1>1, <1>2 DEF CallInv, Idle, CopiesSent, SentUpTo
  <1>4. /\ mem' = [mem EXCEPT !.last = srv.gen, !.acked = A, !.unanswered = un, !.answered = an]
        /\ file' = [file EXCEPT !.rows = rows, !.gen = srv.gen]
    <2>1. mem' = acknowledge([mem EXCEPT !.last = srv.gen], u)
      BY <1>3 DEF apply_healing_response, EndOf
    <2>2. file' = [file EXCEPT !.rows = rows, !.gen = srv.gen]
      BY <1>3 DEF apply_healing_response, EndOf
    <2>. QED
      BY <1>1, <2>1, <2>2 DEF acknowledge, TypeOK, Memories
  <1>5. /\ u \in Nat /\ mem.acked \in Nat /\ own_head(mem) \in Nat /\ own_head(mem) <= MaxSeq
        /\ mem.acked <= own_head(mem) /\ MaxSeq \in Nat /\ MaxGen \in Nat
        /\ mem.last <= srv.gen /\ mem.last \in Nat /\ srv.gen \in 0..MaxGen
    <2>1. call.from \in Nat /\ Len(call.recs) \in Nat
      BY <1>1, Basics
    <2>2. u \in Nat
      BY <1>3, <2>1 DEF EndOf
    <2>3. /\ mem.acked \in Nat /\ own_head(mem) \in Nat /\ own_head(mem) <= MaxSeq
          /\ mem.acked <= own_head(mem) /\ MaxSeq \in Nat /\ MaxGen \in Nat
          /\ mem.last \in 0..MaxGen /\ srv.gen \in 1..MaxGen
      BY <1>1, Basics
    <2>. QED
      BY <1>1, <2>2, <2>3 DEF CopiesSent
  <1>6. A \in 0..MaxSeq /\ A >= mem.acked
    BY <1>3, <1>5 DEF Max2
  <1>7. /\ un \in [Seqs -> 0..MaxGen] /\ an \in [Seqs -> 0..MaxGen]
        /\ \A n \in Seqs : un[n] = IF n <= A THEN None ELSE mem.unanswered[n]
        /\ \A n \in Seqs : an[n] = IF n <= A THEN None ELSE mem.answered[n]
    BY <1>1, <1>5, Basics, SMTT(40) DEF None
  <1>8. rows \in Seq(OwnRow)
    BY <1>1, <1>3, <1>5, MarkedRows
  <1> HIDE DEF u, A, un, an, rows
  <1>9. mem' \in Memories /\ file' \in Files
    <2>1. mem' \in Memories
      BY <1>1, <1>4, <1>5, <1>6, <1>7, Zenon DEF TypeOK, Memories
    <2>2. file' \in Files
      BY <1>1, <1>4, <1>5, <1>8, Zenon DEF TypeOK, Files
    <2>. QED
      BY <2>1, <2>2
  <1>10. /\ mem'.chain = mem.chain /\ mem'.key = mem.key /\ mem'.last = srv.gen
         /\ mem'.server_head = mem.server_head /\ mem'.acked = A
         /\ mem'.stale_from = mem.stale_from /\ mem'.unanswered = un /\ mem'.answered = an
    BY <1>1, <1>4 DEF TypeOK, Memories
  <1>11. /\ file'.rows = rows /\ file'.gen = srv.gen /\ file'.key = file.key
         /\ (file'.alarm <=> file.alarm)
    BY <1>1, <1>4 DEF TypeOK, Files
  <1>12. \A n \in Seqs : n \in Nat /\ mem.answered[n] \in Nat /\ mem.answered[n] <= mem.last
    BY <1>1, Basics, SMTT(40) DEF LateInv, Seqs
  <1>13. \A n \in Seqs : /\ mem'.unanswered[n] = None \/ mem'.unanswered[n] = mem.unanswered[n]
                         /\ n <= mem'.acked => mem'.unanswered[n] = None
                         /\ mem'.answered[n] <= srv.gen
    BY <1>5, <1>7, <1>10, <1>12 DEF None
  <1>14. StaleInv'
    <2> SUFFICES ASSUME mem.stale_from # None, NEW n \in mem.stale_from..own_head(mem), n > A
                 PROVE  /\ un[n] # None => un[n] < srv.gen
                        /\ rows[n].own = "sent" => an[n] # None
      BY <1>10, <1>11 DEF StaleInv, own_head
    <2>1. n \in 1..own_head(mem) /\ n > mem.acked /\ ~(n <= A)
      BY <1>1, <1>5, <1>6, Basics, SMTT(40) DEF None
    <2>2. n \in Seqs /\ mem.unanswered[n] \in Nat
      BY <1>1, <2>1, OpTypes
    <2>3. un[n] = mem.unanswered[n] /\ an[n] = mem.answered[n]
      BY <1>7, <2>1, <2>2
    <2>4. rows[n].own = "sent" => file.rows[n].own = "sent"
      BY <1>1, <1>3, <1>5, <2>1, MarkedRows DEF rows, A
    <2>5. /\ mem.unanswered[n] # None => mem.unanswered[n] < mem.last
          /\ file.rows[n].own = "sent" => mem.answered[n] # None
      BY <1>1, <2>1 DEF StaleInv
    <2>. QED
      BY <1>5, <2>2, <2>3, <2>4, <2>5
  <1>15. ~Outlived => /\ ~file'.alarm
                      /\ \A e \in ever : e[1] > mem'.acked =>
                           mem'.unanswered[e[1]] = mem.unanswered[e[1]]
    <2>1. \A e \in ever : e[1] \in Seqs /\ e[1] \in Nat
      BY <1>1 DEF EverInv, Seqs
    <2>2. \A e \in ever : e[1] > A => un[e[1]] = mem.unanswered[e[1]]
      BY <1>6, <1>7, <2>1
    <2>. QED
      BY <1>1, <1>10, <1>11, <2>2 DEF HistoryInv
  <1>16. mem'.stale_from <= own_head(mem) /\ call.kind # "none"
    BY <1>1, <1>2, <1>10, Basics
  <1>17. PICK v \in Nat : v = u
    BY <1>5
  <1>18. /\ v <= EndOf(call) /\ mem'.acked = Max2(mem.acked, v)
         /\ file'.rows = MarkAcked(file.rows, mem.acked, v)
    BY <1>5, <1>10, <1>11, <1>17 DEF u, A, rows
  <1>19. AnswerSettles
    <2>1. /\ A \in Nat /\ mem.acked <= A /\ A = Max2(mem.acked, v) /\ v <= own_head(mem)
          /\ own_head(mem) \in Nat
      BY <1>3, <1>5, <1>6, <1>10, <1>17, <1>18
    <2>2. ASSUME NEW n \in A + 1..own_head(mem)
          PROVE  /\ rows[n].own = file.rows[n].own /\ rows[n].gen = file.rows[n].gen
                 /\ un[n] = mem.unanswered[n]
      <3>1. n \in 1..own_head(mem) /\ ~(n <= A)
        BY <2>1
      <3>2. n \in Seqs
        BY <1>5, <3>1 DEF Seqs
      <3>3. /\ MarkAcked(file.rows, mem.acked, v)[n].own = file.rows[n].own
            /\ MarkAcked(file.rows, mem.acked, v)[n].gen = file.rows[n].gen
        BY <1>1, <2>1, <3>1, MarkedRows
      <3>. QED
        BY <1>7, <1>11, <1>18, <3>1, <3>2, <3>3
    <2>. QED
      BY <1>2, <1>10, <1>11, <2>1, <2>2 DEF AnswerSettles
  <1>. QED
    BY <1>2, <1>9, <1>10, <1>11, <1>13, <1>14, <1>15, <1>16, <1>18, <1>19, NoCallIdle, AnswerKeeps

LEMMA UploadResponseKeeps ==
  ASSUME OwnInv, apply_upload_response
  PROVE  OwnInv' /\ AnswerSettles
  <1> DEFINE u == call.from + call.ok - 1
             rest == u + 1..EndOf(call)
             A == Max2(mem.acked, u)
             un == [k \in Seqs |-> IF k \in rest /\ (IF k <= A THEN None ELSE mem.unanswered[k]) = srv.gen
                                   THEN None ELSE IF k <= A THEN None ELSE mem.unanswered[k]]
             an == [k \in Seqs |-> IF k \in rest THEN srv.gen
                                   ELSE IF k <= A THEN None ELSE mem.answered[k]]
             sf == IF call.answer = "stale" THEN u + 1 ELSE mem.stale_from
             rows == MarkAcked(file.rows, mem.acked, u)
             conflict == (call.answer = "conflict")
  <1>1. TypeOK /\ Linked /\ CopiesSent /\ CallInv /\ StaleInv /\ LateInv /\ EverInv /\ HistoryInv
    BY DEF OwnInv
  <1>2. /\ call.kind = "upload" /\ call.answer # "none" /\ call' = NoCall
        /\ UNCHANGED <<srv, backup, top, peer, late, left, ever>>
    BY DEF apply_upload_response
  <1>3. /\ call.gen = srv.gen /\ 0 < call.from /\ call.ok <= Len(call.recs)
        /\ call.from = mem.acked + 1 /\ EndOf(call) = own_head(mem) /\ mem.stale_from = None
        /\ call.answer = "stale" => call.ok < Len(call.recs)
    BY <1>1, <1>2 DEF CallInv, Idle, CopiesSent
  <1>4. /\ mem' = [mem EXCEPT !.last = srv.gen, !.acked = A, !.unanswered = un, !.answered = an,
                              !.stale_from = sf]
        /\ file' = [file EXCEPT !.rows = rows, !.gen = srv.gen, !.alarm = conflict]
    <2>1. rest = u + 1..call.from + Len(call.recs) - 1
      BY DEF EndOf
    <2> HIDE DEF rest
    <2> DEFINE m == [mem EXCEPT !.last = srv.gen]
               done == acknowledge(m, u)
    <2>2. mem' = [done EXCEPT !.unanswered = record_answered(done, rest, srv.gen),
                              !.answered = [n \in Seqs |-> IF n \in rest THEN srv.gen ELSE @[n]],
                              !.stale_from = IF call.answer = "stale" THEN u + 1 ELSE @]
      BY <1>3, <2>1 DEF apply_upload_response
    <2>3. done = [mem EXCEPT !.last = srv.gen, !.acked = A,
                    !.unanswered = [k \in Seqs |-> IF k <= A THEN None ELSE mem.unanswered[k]],
                    !.answered = [k \in Seqs |-> IF k <= A THEN None ELSE mem.answered[k]]]
      BY <1>1 DEF acknowledge, TypeOK, Memories
    <2>4. file' = [file EXCEPT !.rows = rows, !.gen = srv.gen, !.alarm = conflict]
      BY <1>3 DEF apply_upload_response
    <2> HIDE DEF done
    <2>5. mem' = [mem EXCEPT !.last = srv.gen, !.acked = A, !.unanswered = un, !.answered = an,
                             !.stale_from = sf]
      BY <1>1, <2>2, <2>3 DEF record_answered, TypeOK, Memories
    <2>. QED
      BY <2>4, <2>5
  <1>5. /\ u \in Nat /\ mem.acked \in Nat /\ own_head(mem) \in Nat /\ own_head(mem) <= MaxSeq
        /\ mem.acked <= own_head(mem) /\ MaxSeq \in Nat /\ MaxGen \in Nat
        /\ mem.last <= srv.gen /\ mem.last \in Nat /\ srv.gen \in 0..MaxGen /\ srv.gen > 0
        /\ u = mem.acked + call.ok /\ u <= own_head(mem)
        /\ call.answer = "stale" => u < own_head(mem)
    <2>1. call.from \in Nat /\ Len(call.recs) \in Nat /\ call.ok \in Nat
      BY <1>1, Basics
    <2>2. /\ mem.acked \in Nat /\ own_head(mem) \in Nat /\ own_head(mem) <= MaxSeq
          /\ mem.acked <= own_head(mem) /\ MaxSeq \in Nat /\ MaxGen \in Nat
          /\ mem.last \in 0..MaxGen /\ srv.gen \in 1..MaxGen
      BY <1>1, Basics
    <2>3. u \in Nat /\ u = mem.acked + call.ok
      BY <1>3, <2>1, <2>2, SMTT(40)
    <2>4. own_head(mem) = mem.acked + Len(call.recs)
      BY <1>3, <2>1, <2>2 DEF EndOf
    <2>. QED
      <3> HIDE DEF u
      <3>1. u <= own_head(mem) /\ (call.answer = "stale" => u < own_head(mem))
        BY <1>3, <2>1, <2>2, <2>3, <2>4
      <3>2. mem.last <= srv.gen
        BY <1>1 DEF CopiesSent
      <3>. QED
        BY <2>2, <2>3, <3>1, <3>2
  <1>6. A = u /\ A \in 0..MaxSeq /\ sf \in 0..MaxSeq /\ sf <= own_head(mem)
        /\ rest = A + 1..own_head(mem)
    <2> HIDE DEF u
    <2>0. call.ok \in Nat
      BY <1>1, Basics
    <2>1. A = u
      BY <1>5, <2>0 DEF Max2
    <2>2. sf \in 0..MaxSeq /\ sf <= own_head(mem)
      BY <1>3, <1>5 DEF None
    <2>. QED
      BY <1>3, <1>5, <2>1, <2>2
  <1> HIDE DEF u, A
  <1>7. /\ un \in [Seqs -> 0..MaxGen] /\ an \in [Seqs -> 0..MaxGen]
        /\ \A n \in Seqs : n <= A => un[n] = None
        /\ \A n \in Seqs : ~(n <= A) /\ n \notin rest => un[n] = mem.unanswered[n]
        /\ \A n \in Seqs : ~(n <= A) /\ n \in rest =>
             un[n] = IF mem.unanswered[n] = srv.gen THEN None ELSE mem.unanswered[n]
        /\ \A n \in Seqs : an[n] = IF n \in rest THEN srv.gen
                                   ELSE IF n <= A THEN None ELSE mem.answered[n]
    <2>1. \A n \in Seqs : mem.unanswered[n] \in 0..MaxGen /\ mem.answered[n] \in 0..MaxGen
      BY <1>1, Basics
    <2>2. None \in 0..MaxGen
      BY <1>5 DEF None
    <2> HIDE DEF rest
    <2>. QED
      BY <1>5, <2>1, <2>2
  <1>8. rows \in Seq(OwnRow) /\ conflict \in BOOLEAN
    BY <1>1, <1>5, MarkedRows
  <1> HIDE DEF un, an, sf, rows, rest, conflict
  <1>9. mem' \in Memories /\ file' \in Files
    <2>1. mem' \in Memories
      BY <1>1, <1>4, <1>5, <1>6, <1>7, Zenon DEF TypeOK, Memories
    <2>2. file' \in Files
      BY <1>1, <1>4, <1>5, <1>8, Zenon DEF TypeOK, Files
    <2>. QED
      BY <2>1, <2>2
  <1>10. /\ mem'.chain = mem.chain /\ mem'.key = mem.key /\ mem'.last = srv.gen
         /\ mem'.server_head = mem.server_head /\ mem'.acked = A
         /\ mem'.stale_from = sf /\ mem'.unanswered = un /\ mem'.answered = an
    BY <1>1, <1>4 DEF TypeOK, Memories
  <1>11. /\ file'.rows = rows /\ file'.gen = srv.gen /\ file'.key = file.key
         /\ (file'.alarm <=> conflict)
    BY <1>1, <1>4 DEF TypeOK, Files
  <1>12. \A n \in Seqs : /\ n \in Nat /\ mem.answered[n] \in Nat /\ mem.answered[n] <= mem.last
                         /\ mem.unanswered[n] \in Nat
    <2>1. \A n \in Seqs : mem.answered[n] <= mem.last
      BY <1>1 DEF LateInv
    <2>2. \A n \in Seqs : n \in Nat /\ mem.answered[n] \in Nat /\ mem.unanswered[n] \in Nat
      BY <1>1, Basics, SMTT(40) DEF Seqs
    <2>. QED
      BY <2>1, <2>2
  <1>13. \A n \in Seqs : /\ mem'.unanswered[n] = None \/ mem'.unanswered[n] = mem.unanswered[n]
                         /\ n <= mem'.acked => mem'.unanswered[n] = None
                         /\ mem'.answered[n] <= srv.gen
    BY <1>5, <1>7, <1>10, <1>12 DEF None
  <1>14. StaleInv'
    <2> SUFFICES ASSUME sf # None, NEW n \in sf..own_head(mem), n > A
                 PROVE  /\ un[n] # None => un[n] < srv.gen
                        /\ rows[n].own = "sent" => an[n] # None
      BY <1>10, <1>11 DEF StaleInv, own_head
    <2>1. n \in 1..own_head(mem) /\ ~(n <= A) /\ n \in rest
      BY <1>5, <1>6
    <2>2. /\ n \in Seqs /\ mem.unanswered[n] \in Nat
          /\ mem.unanswered[n] # None => mem.unanswered[n] <= mem.last
      BY <1>1, <2>1, OpTypes DEF RowAgrees
    <2>3. an[n] = srv.gen /\ un[n] = IF mem.unanswered[n] = srv.gen THEN None ELSE mem.unanswered[n]
      BY <1>7, <2>1, <2>2
    <2>. QED
      BY <1>5, <2>2, <2>3 DEF None
  <1>15. ~Outlived => /\ ~file'.alarm
                      /\ \A e \in ever : e[1] > mem'.acked =>
                           mem'.unanswered[e[1]] = mem.unanswered[e[1]]
    <2> SUFFICES ASSUME ~Outlived
                 PROVE  /\ ~conflict
                        /\ \A e \in ever : e[1] > A => un[e[1]] = mem.unanswered[e[1]]
      BY <1>10, <1>11
    <2>1. /\ ~conflict
          /\ \A e \in ever : e[1] >= call.from + call.ok => mem.unanswered[e[1]] # srv.gen
      BY <1>1, <1>2, <1>3 DEF HistoryInv, Idle, conflict
    <2>2. \A e \in ever : e[1] \in Seqs /\ e[1] \in Nat
      BY <1>1 DEF EverInv, Seqs
    <2>3. call.from \in Nat /\ call.ok \in Nat /\ A = call.from + call.ok - 1
      BY <1>1, <1>6, Basics DEF u
    <2>4. \A e \in ever : e[1] > A => ~(e[1] <= A) /\ mem.unanswered[e[1]] # srv.gen
      BY <2>1, <2>2, <2>3
    <2>. QED
      BY <1>7, <2>1, <2>2, <2>4
  <1>16. mem'.stale_from <= own_head(mem) /\ call.kind # "none"
    BY <1>2, <1>6, <1>10
  <1>17. PICK v \in Nat : v = u
    BY <1>5
  <1>18. /\ v <= EndOf(call) /\ mem'.acked = Max2(mem.acked, v)
         /\ file'.rows = MarkAcked(file.rows, mem.acked, v)
    BY <1>3, <1>5, <1>10, <1>11, <1>17 DEF A, rows
  <1>19. AnswerSettles
    <2>1. /\ A \in Nat /\ mem.acked <= A /\ A = Max2(mem.acked, v) /\ v <= own_head(mem)
          /\ own_head(mem) \in Nat
      <3>1. call.ok \in Nat
        BY <1>1, Basics
      <3>. QED
        BY <1>5, <1>6, <1>10, <1>17, <1>18, <3>1
    <2>2. ASSUME NEW n \in A + 1..own_head(mem)
          PROVE  /\ rows[n].own = file.rows[n].own /\ rows[n].gen = file.rows[n].gen
                 /\ un[n] = IF mem.unanswered[n] = srv.gen THEN None ELSE mem.unanswered[n]
      <3>1. n \in 1..own_head(mem) /\ ~(n <= A) /\ n \in rest
        BY <1>6, <2>1
      <3>2. n \in Seqs
        BY <1>5, <3>1 DEF Seqs
      <3>3. /\ MarkAcked(file.rows, mem.acked, v)[n].own = file.rows[n].own
            /\ MarkAcked(file.rows, mem.acked, v)[n].gen = file.rows[n].gen
        BY <1>1, <2>1, <3>1, MarkedRows
      <3>. QED
        BY <1>7, <1>11, <1>18, <3>1, <3>2, <3>3
    <2>. QED
      BY <1>2, <1>10, <1>11, <2>1, <2>2 DEF AnswerSettles
  <1>. QED
    BY <1>2, <1>9, <1>10, <1>11, <1>13, <1>14, <1>15, <1>16, <1>18, <1>19, NoCallIdle, AnswerKeeps

LEMMA HealingRequestKeeps ==
  ASSUME OwnInv, healing_request
  PROVE  OwnInv'
  <1> DEFINE h == own_head(mem)
             s == mem.server_head
             recs == SubSeq(mem.chain, mem.server_head + 1, HealTop)
  <1>1. TypeOK /\ Linked /\ CopiesSent /\ StaleInv /\ LateInv /\ EverInv /\ HistoryInv
    BY DEF OwnInv
  <1>2. /\ UNCHANGED <<srv, backup, top, peer, mem, file, late, left, ever>>
        /\ HealTop > s
        /\ call' = [NoCall EXCEPT !.kind = "heal", !.from = s + 1, !.recs = recs]
    BY DEF healing_request
  <1>3. /\ h \in Nat /\ h <= MaxSeq /\ MaxSeq \in Nat /\ s \in Nat /\ s <= h /\ Len(mem.chain) = h
        /\ mem.chain \in Seq(Epochs) /\ mem.acked \in Nat
    BY <1>1, Basics DEF CopiesSent, SentUpTo
  <1>4. HealTop \in s..h /\ \A k \in s + 1..HealTop : Servable(k)
    BY <1>1, <1>3, HealTopServable DEF TypeOK
  <1>5. PICK t \in Nat : t = HealTop
    BY <1>3, <1>4
  <1>6. s < t /\ t <= h /\ \A k \in s + 1..t : Servable(k)
    BY <1>2, <1>3, <1>4, <1>5
  <1>7. /\ recs \in Seq(Epochs) /\ Len(recs) = t - s
        /\ \A n \in s + 1..t : recs[n - (s + 1) + 1] = mem.chain[n]
    <2>1. recs = SubSeq(mem.chain, s + 1, t)
      BY <1>5
    <2>2. s + 1 \in 1..Len(mem.chain) /\ t \in 1..Len(mem.chain)
      BY <1>3, <1>6
    <2> HIDE DEF recs
    <2>3. recs \in Seq(Epochs) /\ Len(recs) = t - s
      BY <1>3, <1>6, <2>1, <2>2
    <2>4. \A i \in 1..t - s : recs[i] = mem.chain[s + i]
      <3>1. PICK c \in Seq(Epochs) : c = mem.chain
        BY <1>3
      <3>2. PICK s1 \in Nat : s1 = s + 1
        BY <1>3
      <3>3. recs = SubSeq(c, s1, t) /\ s1 \in 1..Len(c) /\ t \in 1..Len(c)
        BY <2>1, <2>2, <3>1, <3>2
      <3>4. \A i \in 1..t - s1 + 1 : recs[i] = c[s1 + i - 1]
        BY <3>3
      <3>. QED
        BY <1>3, <3>1, <3>2, <3>4, SMTT(40)
    <2>5. \A n \in s + 1..t : n - (s + 1) + 1 \in 1..t - s /\ s + (n - (s + 1) + 1) = n
      BY <1>3, SMTT(40)
    <2>. QED
      BY <2>3, <2>4, <2>5
  <1> HIDE DEF recs
  <1>8. /\ call'.kind = "heal" /\ call'.from = s + 1 /\ call'.recs = recs
        /\ call'.answer = "none" /\ call'.ok = 0 /\ call'.gen = None
    BY <1>2 DEF NoCall
  <1>9. ASSUME NEW n \in s + 1..t
        PROVE  n \in 1..h /\ file.rows[n].own # "unsent" /\ (n > mem.acked => mem.unanswered[n] # None)
    <2>1. n \in 1..h /\ n \in Nat /\ RowAgrees(n)
      BY <1>1, <1>3, <1>6, OpTypes
    <2>2. n <= mem.acked \/ mem.unanswered[n] # None
      BY <1>6 DEF Servable, may_have_been_served
    <2>. QED
      BY <1>3, <2>1, <2>2 DEF RowAgrees
  <1>10. EndOf(call)' = t
    <2>1. EndOf(call)' = s + 1 + (t - s) - 1
      BY <1>7, <1>8 DEF EndOf
    <2>. QED
      BY <1>3, <2>1
  <1>11. TypeOK'
    <2>1. recs \in Chains
      BY <1>3, <1>6, <1>7 DEF Chains
    <2>2. call' \in Requests
      <3>1. s + 1 \in 0..MaxSeq
        BY <1>3, <1>6
      <3>. QED
        BY <1>2, <2>1, <3>1, NoCallIdle, Zenon DEF Requests
    <2>. QED
      BY <1>1, <1>2, <2>2 DEF TypeOK, own_head
  <1>12. Linked'
    BY <1>1, <1>2 DEF Linked, RowAgrees, own_head
  <1>13. CopiesSent' /\ EverInv'
    <2>1. \A n \in 1..t : file.rows[n].own # "unsent"
      <3>1. \A n \in 1..s : file.rows[n].own # "unsent"
        BY <1>1 DEF CopiesSent, SentUpTo
      <3>2. \A n \in 1..t : n \in 1..s \/ n \in s + 1..t
        BY <1>3
      <3>. QED
        BY <1>9, <3>1, <3>2
    <2>2. own_head(mem)' = h
      BY <1>2 DEF own_head
    <2>3. 0 < call'.from /\ SentUpTo(EndOf(call))'
      BY <1>2, <1>3, <1>6, <1>8, <1>10, <2>1, <2>2 DEF SentUpTo
    <2>4. late' \subseteq late \cup {call} /\ mem'.last <= srv.gen
      BY <1>1, <1>2 DEF CopiesSent
    <2>. QED
      BY <1>1, <1>2, <1>3, <2>2, <2>3, <2>4, DeviceKeeps
  <1>14. CallInv'
    <2>1. ASSUME NEW n \in s + 1..t
          PROVE  Version(call', n) = mem.chain[n] /\ (n > mem.acked => mem.unanswered[n] # None)
      <3>1. Version(call', n) = recs[n - (s + 1) + 1]
        BY <1>8 DEF Version
      <3>. QED
        BY <1>7, <1>9, <3>1
    <2>2. Len(call'.recs) > 0 /\ call'.ok <= Len(call'.recs)
      BY <1>3, <1>6, <1>7, <1>8
    <2>. QED
      BY <1>2, <1>8, <1>10, <2>1, <2>2 DEF CallInv, Version
  <1>15. StaleInv' /\ LateInv' /\ HistoryInv'
    BY <1>1, <1>2, <1>8 DEF StaleInv, LateInv, HistoryInv, Outlived, own_head
  <1>. QED
    BY <1>11, <1>12, <1>13, <1>14, <1>15 DEF OwnInv

(***************************************************************************)
(* The server's steps                                                      *)
(***************************************************************************)

\* The server moves the copies it and the other device hold, or is restored,
\* which ends every request.
LEMMA CopyKeeps ==
  ASSUME OwnInv, UNCHANGED <<mem, file, ever, left>>,
         srv' \in Servers, backup' \in [stored: Chains, epoch: Epochs], top' \in Epochs,
         peer' \in Chains,
         srv'.stored \in {srv.stored, backup.stored, peer},
         backup'.stored \in {srv.stored, backup.stored, peer},
         peer' \in {srv.stored, backup.stored, peer},
         \/ /\ UNCHANGED <<call, late>> /\ srv'.gen = srv.gen
            /\ Len(srv.stored) <= Len(srv'.stored)
         \/ call' = NoCall /\ late' = {} /\ srv'.gen = srv.gen + 1
  PROVE  OwnInv'
  <1>1. TypeOK /\ Linked /\ CopiesSent /\ CallInv /\ StaleInv /\ LateInv /\ EverInv /\ HistoryInv
    BY DEF OwnInv
  <1>2. call' \in Requests /\ late' \subseteq late /\ (call' = call \/ call'.kind = "none")
    BY <1>1, NoCallIdle DEF TypeOK
  <1>3. own_head(mem)' = own_head(mem)
    BY DEF own_head
  <1>4. TypeOK'
    BY <1>1, <1>2 DEF TypeOK, own_head
  <1>5. Linked' /\ StaleInv'
    BY <1>1 DEF Linked, RowAgrees, StaleInv, own_head
  <1>6. mem.last <= srv'.gen
    BY <1>1, Basics, SMTT(40) DEF CopiesSent
  <1>7. CopiesSent'
    <2>1. SentUpTo(Len(srv.stored)) /\ SentUpTo(Len(backup.stored)) /\ SentUpTo(Len(peer))
          /\ SentUpTo(mem.server_head)
      BY <1>1 DEF CopiesSent
    <2>2. \A c \in {srv.stored, backup.stored, peer} :
            Len(c) <= own_head(mem) /\ \A n \in 1..Len(c) : file.rows[n].own # "unsent"
      BY <2>1 DEF SentUpTo
    <2>3. SentUpTo(Len(srv.stored))' /\ SentUpTo(Len(backup.stored))' /\ SentUpTo(Len(peer))'
      BY <1>3, <2>2 DEF SentUpTo
    <2>4. SentUpTo(mem.server_head)'
      BY <1>3, <2>1 DEF SentUpTo
    <2>5. ASSUME NEW r \in late' \cup {call'}, r.kind # "none"
          PROVE  0 < r.from /\ EndOf(r) <= own_head(mem)
                 /\ \A n \in 1..EndOf(r) : file.rows[n].own # "unsent"
      <3>1. r \in late \cup {call}
        BY <1>2, <2>5
      <3>. QED
        BY <1>1, <2>5, <3>1 DEF CopiesSent, SentUpTo
    <2>. QED
      BY <1>3, <1>6, <2>3, <2>4, <2>5 DEF CopiesSent, SentUpTo, EndOf
  <1>8. CallInv'
    BY <1>1, <1>2, <1>3, NoCallIdle DEF CallInv, Idle, EndOf, Version
  <1>9. LateInv' /\ (~Outlived' => ~Outlived)
    <2>1. CASE UNCHANGED late
      BY <1>1, <2>1 DEF LateInv, Outlived
    <2>2. CASE late' = {}
      <3>1. IsFiniteSet({}) /\ Cardinality({}) = 0
        BY FS_EmptySet
      <3>2. IsFiniteSet(late) /\ Cardinality(late) <= left /\ left \in Nat
        BY <1>1, Basics DEF LateInv
      <3>3. Cardinality(late) \in Nat
        BY <3>2, FS_CardinalityType
      <3>. QED
        BY <1>1, <2>2, <3>1, <3>2, <3>3 DEF LateInv, Outlived
    <2>. QED
      BY <2>1, <2>2
  <1>10. EverInv'
    BY <1>1, <1>3 DEF EverInv, SentUpTo
  <1>11. HistoryInv'
    <2> SUFFICES ASSUME ~Outlived, ~Outlived'
                 PROVE  HistoryInv'
      BY <1>9 DEF HistoryInv
    <2>1. /\ ~file.alarm
          /\ \A e \in ever : mem.chain[e[1]] = e[2]
          /\ \A e \in ever : e[1] > mem.acked =>
               /\ mem.unanswered[e[1]] # None
               /\ mem.unanswered[e[1]] = srv.gen => e[1] <= Len(srv.stored)
      BY <1>1 DEF HistoryInv
    <2>2. \A e \in ever : e[1] > mem.acked /\ mem.unanswered[e[1]] = srv'.gen =>
            e[1] <= Len(srv'.stored)
      <3>1. CASE srv'.gen = srv.gen /\ Len(srv.stored) <= Len(srv'.stored)
        <4>1. \A e \in ever : e[1] \in Nat
          BY <1>1 DEF EverInv, Seqs
        <4>2. Len(srv.stored) \in Nat /\ Len(srv'.stored) \in Nat
          BY <1>1, Basics
        <4>. QED
          BY <2>1, <3>1, <4>1, <4>2
      <3>2. CASE srv'.gen = srv.gen + 1
        <4> SUFFICES ASSUME NEW e \in ever, mem.unanswered[e[1]] = srv'.gen
                     PROVE  FALSE
          OBVIOUS
        <4>1. PICK n \in 1..own_head(mem) : n = e[1]
          BY <1>1, Basics DEF EverInv, SentUpTo, Seqs
        <4>2. RowAgrees(n) /\ mem.unanswered[n] \in Nat
          BY <1>1, OpTypes
        <4>3. srv.gen \in Nat /\ srv.gen > 0 /\ mem.last \in Nat
          <5>1. srv.gen \in 1..MaxGen /\ mem.last \in 0..MaxGen /\ MaxGen \in Nat
            BY ONLY <1>1, Basics
          <5>. QED
            BY ONLY <5>1
        <4>4. mem.last <= srv.gen
          BY <1>1 DEF CopiesSent
        <4>. QED
          BY <3>2, <4>1, <4>2, <4>3, <4>4 DEF RowAgrees, None
      <3>. QED
        BY <3>1, <3>2
    <2>3. (~Idle /\ call.answer # "none")' => UNCHANGED call /\ ~Idle /\ call.answer # "none"
      BY <1>2 DEF Idle
    <2>. QED
      BY <1>1, <2>1, <2>2, <2>3 DEF HistoryInv
  <1>. QED
    BY <1>4, <1>5, <1>7, <1>8, <1>9, <1>10, <1>11 DEF OwnInv

LEMMA CopyStepsKeep ==
  ASSUME OwnInv, rotate \/ take_backup \/ restore \/ peer_fetch \/ peer_heal
                 \/ \E e \in Epochs : heal_account(e)
  PROVE  OwnInv'
  <1>1. TypeOK
    BY DEF OwnInv
  <1>2. CASE rotate
    <2>1. top + 1 \in Epochs
      BY <1>1, <1>2, BoundsAssumption DEF rotate, TypeOK, Epochs
    <2>2. /\ srv' = [srv EXCEPT !.epoch = top + 1] /\ top' = top + 1
          /\ UNCHANGED <<backup, peer, mem, file, call, late, left, ever>>
      BY <1>2 DEF rotate
    <2>3. srv' \in Servers /\ srv'.stored = srv.stored /\ srv'.gen = srv.gen
      BY <1>1, <2>1, <2>2 DEF TypeOK, Servers
    <2>4. Len(srv.stored) <= Len(srv'.stored)
      BY <1>1, <2>3, Basics
    <2>. QED
      BY <1>1, <2>1, <2>2, <2>3, <2>4, CopyKeeps DEF TypeOK
  <1>3. CASE take_backup
    BY <1>1, <1>3, Basics, CopyKeeps DEF take_backup, TypeOK, Servers
  <1>4. CASE restore
    <2>1. srv.gen + 1 \in Gens
      BY <1>1, <1>4, BoundsAssumption DEF restore, TypeOK, Servers, Gens
    <2>. QED
      BY <1>1, <1>4, <2>1, CopyKeeps DEF restore, TypeOK, Servers
  <1>5. CASE \E e \in Epochs : heal_account(e)
    <2>1. PICK e \in Epochs :
            /\ srv' = [srv EXCEPT !.epoch = e]
            /\ UNCHANGED <<backup, top, peer, mem, file, call, late, left, ever>>
      BY <1>5 DEF heal_account
    <2>2. srv' \in Servers /\ srv'.stored = srv.stored /\ srv'.gen = srv.gen
      BY <1>1, <2>1 DEF TypeOK, Servers
    <2>3. Len(srv.stored) <= Len(srv'.stored)
      BY <1>1, <2>2, Basics
    <2>. QED
      BY <1>1, <2>1, <2>2, <2>3, CopyKeeps DEF TypeOK
  <1>6. CASE peer_fetch
    BY <1>1, <1>6, Basics, CopyKeeps DEF peer_fetch, TypeOK, Servers
  <1>7. CASE peer_heal
    <2>1. Len(srv.stored) <= Len(peer)
      BY <1>7 DEF peer_heal, IsStrictPrefix, IsPrefix
    <2>. QED
      BY <1>1, <1>7, <2>1, CopyKeeps DEF peer_heal, TypeOK, Servers
  <1>. QED
    BY <1>2, <1>3, <1>4, <1>5, <1>6, <1>7

\* What the server stores of a request was sent, and enters the history.
LEMMA StoreRecords ==
  ASSUME OwnInv, NEW r \in Requests, r \in late \cup {call}, r.kind # "none",
         NEW allowed \in BOOLEAN, Store(r, allowed),
         UNCHANGED <<backup, peer, mem, file>>
  PROVE  /\ srv' \in Servers /\ srv'.gen = srv.gen /\ Len(srv.stored) <= Len(srv'.stored)
         /\ SentUpTo(Len(srv.stored))' /\ EverInv'
         /\ \A e \in ever' :
              \/ e \in ever
              \/ \E k \in Len(srv.stored) + 1..Len(srv'.stored) :
                   e = <<k, Version(r, k)>> /\ k \in r.from..EndOf(r)
         /\ Outcome(r, allowed).ok \in 0..Len(r.recs)
         /\ \/ Len(srv'.stored) = Len(srv.stored)
            \/ Len(srv'.stored) = r.from + Outcome(r, allowed).ok - 1
  <1> DEFINE L == Len(srv.stored)
             M == Len(srv'.stored)
             h == own_head(mem)
  <1>1. TypeOK /\ CopiesSent /\ EverInv
    BY DEF OwnInv
  <1>2. 0 < r.from /\ EndOf(r) <= h /\ \A n \in 1..EndOf(r) : file.rows[n].own # "unsent"
    BY <1>1 DEF CopiesSent, SentUpTo
  <1>3. h \in Nat /\ h <= MaxSeq /\ MaxSeq \in Nat /\ L \in Nat /\ srv \in Servers
    BY <1>1, Basics DEF TypeOK
  <1>4. r.from \in Nat /\ EndOf(r) \in Int /\ r.kind \in {"upload", "heal"}
    <2>1. r.from \in 0..MaxSeq /\ r.recs \in Seq(Epochs) /\ r.kind \in {"none", "upload", "heal"}
      BY DEF Requests, Chains
    <2>. QED
      BY <1>3, <2>1 DEF EndOf
  <1>5. EndOf(r) <= MaxSeq
    BY <1>2, <1>3, <1>4
  <1>6. /\ srv' \in Servers /\ srv'.gen = srv.gen
        /\ Outcome(r, allowed).ok \in 0..Len(r.recs)
        /\ L <= M
        /\ \A n \in 1..L : srv'.stored[n] = srv.stored[n]
        /\ \A n \in L + 1..M : n \in r.from..EndOf(r) /\ srv'.stored[n] = Version(r, n)
        /\ M = L \/ M = r.from + Outcome(r, allowed).ok - 1
    BY <1>2, <1>3, <1>4, <1>5, StoreExtends
  <1>7. M \in Nat /\ M <= MaxSeq /\ srv'.stored \in Seq(Epochs)
    BY <1>6 DEF Servers, Chains
  <1>8. M <= h /\ \A n \in 1..M : file.rows[n].own # "unsent"
    <2>1. L <= h /\ \A n \in 1..L : file.rows[n].own # "unsent"
      BY <1>1 DEF CopiesSent, SentUpTo
    <2>2. \A n \in 1..M : n \in 1..L \/ n \in L + 1..M
      BY <1>3, <1>7
    <2>3. \A n \in L + 1..M : n \in 1..EndOf(r) /\ n <= h
      BY <1>2, <1>3, <1>4, <1>6, <1>7
    <2>4. M <= h
      BY <1>3, <1>6, <1>7, <2>1, <2>3, SMTT(40)
    <2>. QED
      BY <1>2, <2>1, <2>2, <2>3, <2>4
  <1>9. own_head(mem)' = h
    BY DEF own_head
  <1>10. SentUpTo(Len(srv.stored))'
    BY <1>8, <1>9 DEF SentUpTo
  <1>11. ever' = ever \cup {<<n, srv'.stored[n]>> : n \in 1..M}
    BY DEF Store
  <1>12. ASSUME NEW e \in ever'
         PROVE  \/ e \in ever
                \/ \E k \in L + 1..M : e = <<k, Version(r, k)>> /\ k \in r.from..EndOf(r)
    <2>1. CASE e \in ever
      BY <2>1
    <2>2. CASE \E n \in 1..M : e = <<n, srv'.stored[n]>>
      <3>1. PICK n \in 1..M : e = <<n, srv'.stored[n]>>
        BY <2>2
      <3>2. CASE n \in 1..L
        BY <1>1, <1>6, <3>1, <3>2 DEF EverInv
      <3>3. CASE n \in L + 1..M
        BY <1>6, <3>1, <3>3
      <3>. QED
        BY <1>3, <1>7, <3>2, <3>3
    <2>. QED
      BY <1>11, <2>1, <2>2
  <1>13. EverInv'
    <2>1. \A c \in {srv'.stored, backup.stored, peer} : \A n \in 1..Len(c) : <<n, c[n]>> \in ever'
      BY <1>1, <1>11 DEF EverInv
    <2>2. ASSUME NEW e \in ever'
          PROVE  e \in Seqs \X Epochs /\ e[1] <= h /\ \A n \in 1..e[1] : file.rows[n].own # "unsent"
      <3>1. CASE e \in ever
        BY <1>1, <3>1 DEF EverInv, SentUpTo
      <3>2. CASE \E n \in 1..M : e = <<n, srv'.stored[n]>>
        <4>1. PICK n \in 1..M : e = <<n, srv'.stored[n]>>
          BY <3>2
        <4>2. n \in Seqs /\ srv'.stored[n] \in Epochs /\ n <= h /\ n \in Nat
          BY <1>3, <1>7, <1>8 DEF Seqs
        <4>3. \A i \in 1..n : i \in 1..M
          BY <1>7
        <4>4. e[1] = n
          BY <4>1
        <4>. QED
          BY <1>8, <4>1, <4>2, <4>3, <4>4
      <3>. QED
        BY <1>11, <3>1, <3>2
    <2>. QED
      BY <1>9, <2>1, <2>2 DEF EverInv, SentUpTo
  <1>. QED
    BY <1>6, <1>10, <1>12, <1>13

\* A request of a caller that gave up: from now on one has outlived its caller.
LEMMA ServeLateKeeps ==
  ASSUME OwnInv, NEW r \in late, NEW allowed \in BOOLEAN, serve_late(r, allowed)
  PROVE  OwnInv'
  <1>1. TypeOK /\ Linked /\ CopiesSent /\ CallInv /\ StaleInv /\ LateInv /\ EverInv
    BY DEF OwnInv
  <1>2. /\ Store(r, allowed) /\ late' = late \ {r}
        /\ UNCHANGED <<backup, top, peer, mem, file, call, left>>
    BY DEF serve_late
  <1>3. r \in Requests /\ r.kind # "none"
    BY <1>1 DEF TypeOK, LateInv
  <1>4. /\ srv' \in Servers /\ srv'.gen = srv.gen /\ SentUpTo(Len(srv.stored))' /\ EverInv'
    BY <1>2, <1>3, StoreRecords
  <1>5. own_head(mem)' = own_head(mem)
    BY <1>2 DEF own_head
  <1>6. TypeOK'
    BY <1>1, <1>2, <1>4, <1>5 DEF TypeOK
  <1>7. Linked' /\ StaleInv'
    BY <1>1, <1>2 DEF Linked, RowAgrees, StaleInv, own_head
  <1>8. CopiesSent'
    <2>1. SentUpTo(Len(backup.stored))' /\ SentUpTo(Len(peer))' /\ SentUpTo(mem.server_head)'
      BY <1>1, <1>2, <1>5 DEF CopiesSent, SentUpTo
    <2>2. ASSUME NEW q \in late' \cup {call'}, q.kind # "none"
          PROVE  0 < q.from /\ EndOf(q) <= own_head(mem)
                 /\ \A n \in 1..EndOf(q) : file.rows[n].own # "unsent"
      <3>1. q \in late \cup {call}
        BY <1>2, <2>2
      <3>. QED
        BY <1>1, <2>2, <3>1 DEF CopiesSent, SentUpTo
    <2>. QED
      BY <1>1, <1>2, <1>4, <1>5, <2>1, <2>2 DEF CopiesSent, SentUpTo, EndOf
  <1>9. CallInv'
    BY <1>1, <1>2, <1>4, <1>5 DEF CallInv, Idle, EndOf, Version
  <1>10. LateInv' /\ Outlived'
    <2>1. IsFiniteSet(late) /\ Cardinality(late) <= left /\ left \in Nat
      BY <1>1, Basics DEF LateInv
    <2>2. PICK S : S = late
      OBVIOUS
    <2>3. Cardinality(S) \in Nat
      BY <2>1, <2>2, FS_CardinalityType
    <2>4. IsFiniteSet(S \ {r}) /\ Cardinality(S \ {r}) = Cardinality(S) - 1
      BY <2>1, <2>2, FS_RemoveElement
    <2>5. IsFiniteSet(late') /\ Cardinality(late') = Cardinality(late) - 1
      BY <1>2, <2>2, <2>4
    <2>6. Cardinality(late') < left' /\ Cardinality(late') <= left'
      BY <1>2, <2>1, <2>2, <2>3, <2>5
    <2>. QED
      BY <1>1, <1>2, <2>1, <2>3, <2>5, <2>6 DEF LateInv, Outlived
  <1>11. HistoryInv'
    BY <1>10 DEF HistoryInv
  <1>. QED
    BY <1>4, <1>6, <1>7, <1>8, <1>9, <1>10, <1>11 DEF OwnInv

\* The awaited request.
LEMMA ServeCallKeeps ==
  ASSUME OwnInv, NEW allowed \in BOOLEAN, serve_call(allowed)
  PROVE  OwnInv'
  <1>1. TypeOK /\ Linked /\ CopiesSent /\ CallInv /\ StaleInv /\ LateInv /\ EverInv /\ HistoryInv
    BY DEF OwnInv
  <1>2. PICK r \in Requests : r = call
    BY <1>1 DEF TypeOK
  <1> DEFINE ok == Outcome(r, allowed).ok
             answer == Outcome(r, allowed).answer
  <1>3. /\ r.kind # "none" /\ Store(r, allowed)
        /\ call' = [r EXCEPT !.answer = answer, !.ok = ok, !.gen = srv.gen]
        /\ UNCHANGED <<backup, top, peer, mem, file, late, left>>
    BY <1>2 DEF serve_call, Idle
  <1>4. /\ srv' \in Servers /\ srv'.gen = srv.gen /\ Len(srv.stored) <= Len(srv'.stored)
        /\ SentUpTo(Len(srv.stored))' /\ EverInv'
        /\ \A e \in ever' :
              \/ e \in ever
              \/ \E k \in Len(srv.stored) + 1..Len(srv'.stored) :
                   e = <<k, Version(r, k)>> /\ k \in r.from..EndOf(r)
        /\ ok \in 0..Len(r.recs)
        /\ \/ Len(srv'.stored) = Len(srv.stored)
           \/ Len(srv'.stored) = r.from + ok - 1
    BY <1>2, <1>3, StoreRecords
  <1>5. /\ answer \in {"stored", "stale", "conflict", "refused"}
        /\ answer = "stale" => r.kind = "upload" /\ ok < Len(r.recs)
        /\ answer = "conflict" => /\ r.kind = "upload" /\ ok < Len(r.recs)
                                  /\ r.from + ok <= Len(srv.stored)
        /\ r.kind = "upload" /\ ok < Len(r.recs) => ~UploadTakes(r, r.from + ok, allowed)
        /\ r.kind = "heal" => answer \in {"stored", "refused"}
    <2>1. CASE r.kind = "upload"
      <3>1. ok = Accepted(r, allowed) /\ answer = UploadVerdict(r, allowed)
        BY <2>1 DEF Outcome
      <3>2. ok \in 0..Len(r.recs) /\ (ok < Len(r.recs) => ~UploadTakes(r, r.from + ok, allowed))
        BY <3>1, AcceptedStops
      <3> HIDE DEF ok, answer
      <3>3. answer = IF ok = Len(r.recs) THEN "stored"
                     ELSE IF r.from + ok <= Len(srv.stored) THEN "conflict"
                     ELSE IF ~allowed \/ r.from > Len(srv.stored) + 1 THEN "refused"
                     ELSE "stale"
        BY <3>1 DEF UploadVerdict
      <3>4. Len(r.recs) \in Nat
        BY DEF Requests, Chains
      <3>5. ok # Len(r.recs) => ok < Len(r.recs)
        BY <3>2, <3>4
      <3>. QED
        BY <2>1, <3>2, <3>3, <3>5
    <2>2. CASE r.kind # "upload"
      <3>1. answer \in {"stored", "refused"}
        BY <2>2 DEF Outcome
      <3> HIDE DEF answer
      <3>. QED
        BY <2>2, <3>1
    <2>. QED
      BY <2>1, <2>2
  <1> HIDE DEF ok, answer
  <1>6. own_head(mem)' = own_head(mem) /\ own_head(mem) \in Nat /\ Len(srv.stored) \in Nat
    BY <1>1, <1>3, Basics DEF own_head
  <1>7. /\ r.from \in Nat /\ Len(r.recs) \in Nat /\ Len(r.recs) <= MaxSeq /\ MaxSeq \in Nat
        /\ srv.gen \in 0..MaxGen /\ ok \in 0..MaxSeq /\ EndOf(r) \in Int
    <2>1. r.from \in 0..MaxSeq /\ r.recs \in Seq(Epochs) /\ Len(r.recs) <= MaxSeq
      BY DEF Requests, Chains
    <2>2. srv.gen \in 1..MaxGen /\ MaxSeq \in Nat /\ MaxGen \in Nat
      BY <1>1, Basics
    <2>. QED
      BY <1>4, <2>1, <2>2 DEF EndOf
  <1>8. /\ call' \in Requests /\ call'.kind = r.kind /\ call'.from = r.from
        /\ call'.recs = r.recs /\ call'.answer = answer /\ call'.ok = ok /\ call'.gen = srv.gen
    BY <1>3, <1>5, <1>7 DEF Requests
  <1>9. TypeOK'
    BY <1>1, <1>3, <1>4, <1>6, <1>8 DEF TypeOK
  <1>10. Linked' /\ StaleInv' /\ LateInv'
    BY <1>1, <1>3 DEF Linked, RowAgrees, StaleInv, LateInv, own_head
  <1>11. CopiesSent'
    <2>1. SentUpTo(Len(backup.stored))' /\ SentUpTo(Len(peer))' /\ SentUpTo(mem.server_head)'
      BY <1>1, <1>3, <1>6 DEF CopiesSent, SentUpTo
    <2>2. EndOf(call') = EndOf(r)
      BY <1>8 DEF EndOf
    <2>3. ASSUME NEW q \in late' \cup {call'}, q.kind # "none"
          PROVE  0 < q.from /\ EndOf(q) <= own_head(mem)
                 /\ \A n \in 1..EndOf(q) : file.rows[n].own # "unsent"
      <3>1. CASE q \in late
        BY <1>1, <2>3, <3>1 DEF CopiesSent, SentUpTo
      <3>2. CASE q = call'
        BY <1>1, <1>2, <1>3, <1>8, <2>2, <3>2 DEF CopiesSent, SentUpTo
      <3>. QED
        BY <1>3, <3>1, <3>2
    <2>. QED
      BY <1>1, <1>3, <1>4, <1>6, <2>1, <2>3 DEF CopiesSent, SentUpTo, EndOf
  <1>12. /\ Len(r.recs) > 0 /\ 0 < r.from /\ EndOf(r) <= own_head(mem)
         /\ \A n \in r.from..EndOf(r) : /\ Version(r, n) = mem.chain[n]
                                        /\ n > mem.acked => mem.unanswered[n] # None
         /\ r.kind = "upload" => /\ r.from = mem.acked + 1 /\ EndOf(r) = own_head(mem)
                                 /\ mem.stale_from = None
    BY <1>1, <1>2, <1>3 DEF CallInv, Idle, CopiesSent, SentUpTo
  <1>13. CallInv'
    <2>1. EndOf(call)' = EndOf(r) /\ \A n \in r.from..EndOf(r) : Version(call', n) = Version(r, n)
      BY <1>8 DEF EndOf, Version
    <2>2. ok <= Len(r.recs)
      BY <1>4, <1>7
    <2>. QED
      BY <1>3, <1>4, <1>5, <1>6, <1>8, <1>12, <2>1, <2>2 DEF CallInv, Version
  <1>14. HistoryInv'
    <2> SUFFICES ASSUME ~Outlived
                 PROVE  /\ ~file.alarm
                        /\ \A e \in ever' : mem.chain[e[1]] = e[2]
                        /\ \A e \in ever' : e[1] > mem.acked =>
                             /\ mem.unanswered[e[1]] # None
                             /\ mem.unanswered[e[1]] = srv.gen => e[1] <= Len(srv'.stored)
                        /\ answer # "conflict"
                        /\ r.kind = "upload" =>
                             \A e \in ever' : e[1] >= r.from + ok => mem.unanswered[e[1]] # srv.gen
      BY <1>3, <1>4, <1>8 DEF HistoryInv, Outlived
    <2>1. /\ ~file.alarm
          /\ \A e \in ever : mem.chain[e[1]] = e[2]
          /\ \A e \in ever : e[1] > mem.acked =>
               /\ mem.unanswered[e[1]] # None
               /\ mem.unanswered[e[1]] = srv.gen => e[1] <= Len(srv.stored)
      BY <1>1 DEF HistoryInv
    <2>2. \A e \in ever' : e[1] \in Nat /\ e[1] > 0 /\ e[1] <= own_head(mem)
      BY <1>3, <1>4, <1>6 DEF EverInv, SentUpTo, Seqs
    <2>3. Len(srv'.stored) \in Nat
      BY <1>4 DEF Servers, Chains
    <2>4. ASSUME NEW e \in ever'
          PROVE  /\ mem.chain[e[1]] = e[2]
                 /\ e[1] > mem.acked =>
                      /\ mem.unanswered[e[1]] # None
                      /\ mem.unanswered[e[1]] = srv.gen => e[1] <= Len(srv'.stored)
      <3>1. CASE e \in ever
        BY <1>4, <1>6, <2>1, <2>2, <2>3, <3>1
      <3>2. CASE \E k \in Len(srv.stored) + 1..Len(srv'.stored) :
                   e = <<k, Version(r, k)>> /\ k \in r.from..EndOf(r)
        <4>1. PICK k \in Len(srv.stored) + 1..Len(srv'.stored) :
                e = <<k, Version(r, k)>> /\ k \in r.from..EndOf(r)
          BY <3>2
        <4>2. e[1] = k /\ e[2] = Version(r, k) /\ k <= Len(srv'.stored)
          BY <1>6, <2>3, <4>1
        <4>. QED
          BY <1>12, <4>1, <4>2
      <3>. QED
        BY <1>4, <3>1, <3>2
    <2>5. ASSUME r.kind = "upload", ok < Len(r.recs), r.from + ok <= Len(srv.stored)
          PROVE  FALSE
      <3>1. PICK n \in Nat : n = r.from + ok
        BY <1>7
      <3>2. n \in 1..Len(srv.stored) /\ n \in r.from..EndOf(r)
        BY <1>4, <1>6, <1>7, <1>12, <2>5, <3>1 DEF EndOf
      <3>3. <<n, srv.stored[n]>> \in ever
        BY <1>1, <3>2 DEF EverInv
      <3>4. <<n, srv.stored[n]>>[1] = n /\ <<n, srv.stored[n]>>[2] = srv.stored[n]
        OBVIOUS
      <3>5. srv.stored[n] = Version(r, n)
        BY <1>12, <2>1, <3>2, <3>3, <3>4
      <3>6. UploadTakes(r, n, allowed)
        BY <1>6, <3>2, <3>5 DEF UploadTakes
      <3>. QED
        BY <1>5, <2>5, <3>1, <3>6
    <2>6. answer # "conflict"
      BY <1>5, <2>5
    <2>7. ASSUME r.kind = "upload", NEW e \in ever', e[1] >= r.from + ok,
                 mem.unanswered[e[1]] = srv.gen
          PROVE  FALSE
      <3>1. e[1] > mem.acked
        <4>1. mem.acked \in Nat
          BY <1>1, Basics
        <4>. QED
          BY <1>4, <1>7, <1>12, <2>2, <2>7, <4>1
      <3>2. e[1] <= Len(srv'.stored)
        BY <2>4, <2>7, <3>1
      <3>3. r.from + ok <= Len(srv.stored)
        BY <1>4, <1>6, <1>7, <2>2, <2>3, <2>7, <3>2, SMTT(40)
      <3>4. r.from + ok <= EndOf(r)
        BY <1>6, <1>7, <1>12, <2>2, <2>7
      <3>5. ok < Len(r.recs)
        BY <1>7, <3>4 DEF EndOf
      <3>. QED
        BY <2>5, <2>7, <3>3, <3>5
    <2>. QED
      BY <2>1, <2>4, <2>6, <2>7
  <1>. QED
    BY <1>4, <1>9, <1>10, <1>11, <1>13, <1>14 DEF OwnInv

(***************************************************************************)
(* The theorems                                                            *)
(***************************************************************************)

LEMMA InitHolds ==
  ASSUME Init
  PROVE  OwnInv
  <1>1. /\ srv = [stored |-> <<>>, epoch |-> 0, gen |-> 1]
        /\ backup = [stored |-> <<>>, epoch |-> 0] /\ top = 0 /\ peer = <<>>
        /\ file = [rows |-> <<>>, gen |-> None, key |-> 0, alarm |-> FALSE]
        /\ mem = Loaded(file) /\ call = NoCall /\ late = {} /\ left = 0 /\ ever = {}
    BY DEF Init
  <1>2. /\ MaxSeq \in Nat /\ MaxEpoch \in Nat /\ MaxGen \in Nat /\ MaxGen > 0 /\ MaxLate \in Nat
        /\ 0 \in Epochs /\ 1 \in Gens /\ <<>> \in Chains
    BY BoundsAssumption DEF Epochs, Gens, Chains
  <1>3. file.rows = <<>> /\ file.gen = 0 /\ file.key = 0 /\ ~file.alarm /\ Len(file.rows) = 0
    BY <1>1 DEF None
  <1>4. /\ mem \in Memories /\ mem.chain = <<>> /\ mem.acked = 0 /\ mem.key = 0 /\ mem.last = 0
        /\ mem.server_head = 0 /\ mem.stale_from = 0
        /\ \A n \in Seqs : mem.answered[n] = 0 /\ mem.unanswered[n] = 0
    <2> DEFINE ch == [n \in 1..Len(file.rows) |-> file.rows[n].ver]
               done == {n \in 1..Len(file.rows) : file.rows[n].own = "acked"}
               un == Unanswered(file)
               an == [n \in Seqs |-> None]
    <2>1. \A n \in 1..Len(file.rows) : FALSE
      BY <1>3
    <2>2. ch = <<>>
      BY <1>3, <2>1
    <2>3. done = {}
      BY <2>1
    <2>4. Cardinality(done) = 0
      BY <2>3, FS_EmptySet
    <2>5. \A n \in Seqs : un[n] = 0 /\ an[n] = 0
      BY <1>3, <2>1 DEF Unanswered, None, Seqs
    <2>6. un \in [Seqs -> 0..MaxGen] /\ an \in [Seqs -> 0..MaxGen]
      BY <1>2, <2>5 DEF Unanswered
    <2>7. mem = [chain |-> ch, key |-> file.key, acked |-> Cardinality(done),
                 unanswered |-> un, last |-> file.gen, fetched |-> FALSE,
                 server_head |-> 0, behind |-> FALSE, stale_from |-> None,
                 answered |-> an]
      BY <1>1 DEF Loaded
    <2> HIDE DEF ch, done, un, an
    <2>8. 0 \in 0..MaxSeq /\ 0 \in 0..MaxGen /\ None = 0
      BY <1>2 DEF None
    <2>9. mem \in Memories
      BY <1>2, <1>3, <2>2, <2>4, <2>6, <2>7, <2>8 DEF Memories
    <2>. QED
      BY <1>3, <2>2, <2>4, <2>5, <2>7, <2>8, <2>9
  <1>5. own_head(mem) = 0
    BY <1>4 DEF own_head
  <1>6. TypeOK
    <2>1. file \in Files
      BY <1>1, <1>2 DEF Files, None
    <2>2. srv \in Servers /\ backup \in [stored: Chains, epoch: Epochs]
      BY <1>1, <1>2 DEF Servers
    <2>. QED
      BY <1>1, <1>2, <1>4, <1>5, <2>1, <2>2, NoCallIdle DEF TypeOK
  <1>7. Linked
    BY <1>3, <1>4, <1>5 DEF Linked, None
  <1>8. CopiesSent /\ EverInv
    <2>1. Len(srv.stored) = 0 /\ Len(backup.stored) = 0 /\ Len(peer) = 0 /\ srv.gen = 1
      BY <1>1
    <2>. QED
      <3>1. SentUpTo(0)
        BY <1>5 DEF SentUpTo
      <3>2. \A r \in late \cup {call} : r.kind = "none"
        BY <1>1, NoCallIdle
      <3>3. CopiesSent
        BY <1>4, <2>1, <3>1, <3>2 DEF CopiesSent
      <3>4. \A c \in {srv.stored, backup.stored, peer} : \A n \in 1..Len(c) : FALSE
        BY <2>1
      <3>. QED
        BY <1>1, <3>3, <3>4 DEF EverInv
  <1>9. CallInv /\ StaleInv
    BY <1>1, <1>4, NoCallIdle DEF CallInv, StaleInv, Idle, None
  <1>10. LateInv /\ HistoryInv
    BY <1>1, <1>3, <1>4, FS_EmptySet, NoCallIdle DEF LateInv, HistoryInv, Idle
  <1>. QED
    BY <1>6, <1>7, <1>8, <1>9, <1>10 DEF OwnInv

LEMMA NextKeeps ==
  ASSUME OwnInv, [Next]_vars
  PROVE  OwnInv'
  <1>1. CASE Next
    BY <1>1, WriteKeeps, ObserveKeeps, UploadRequestKeeps, RefusedKeeps, UploadResponseKeeps,
       HealingRequestKeeps, HealingResponseKeeps, CallEndsKeeps, CrashKeeps, ServeCallKeeps,
       ServeLateKeeps, CopyStepsKeep DEF Next
  <1>2. CASE UNCHANGED vars
    BY <1>2 DEF vars, OwnInv, TypeOK, Linked, RowAgrees, CopiesSent, CallInv, StaleInv, LateInv,
       EverInv, HistoryInv, SentUpTo, EndOf, own_head, Idle, Outlived, Version
  <1>. QED
    BY <1>1, <1>2

LEMMA OwnInvAlways == Spec => []OwnInv
  BY InitHolds, NextKeeps, PTL DEF Spec

LEMMA RestartSafeFollows ==
  ASSUME OwnInv
  PROVE  RestartSafe
  <1>1. TypeOK /\ Linked /\ CopiesSent
    BY DEF OwnInv
  <1>2. own_head(mem) \in Nat /\ own_head(mem) = Len(file.rows) /\ mem.acked \in Nat
        /\ mem.last \in Nat
    BY <1>1, Basics DEF Linked
  <1>3. LoadForgetsNothing
    <2>1. /\ Loaded(file).chain = mem.chain /\ Loaded(file).acked = mem.acked
          /\ Loaded(file).last = mem.last
          /\ \A n \in Seqs : Loaded(file).unanswered[n] =
               IF n <= own_head(mem) /\ file.rows[n].own = "sent" THEN file.rows[n].gen ELSE None
      BY <1>1, LoadedIs
    <2>2. ASSUME NEW n \in 1..own_head(mem), may_have_been_served(mem, n)
          PROVE  may_have_been_served(Loaded(file), n)
      <3>1. /\ n \in Seqs /\ n \in Nat /\ RowAgrees(n) /\ mem.unanswered[n] \in Nat
            /\ file.rows[n].gen \in Nat
        BY <1>1, OpTypes
      <3>2. CASE n <= mem.acked
        BY <2>1, <3>2 DEF may_have_been_served
      <3>3. CASE mem.unanswered[n] # None /\ mem.unanswered[n] # mem.last
        <4>1. /\ file.rows[n].own = "sent" /\ 0 < file.rows[n].gen
              /\ file.rows[n].gen <= mem.unanswered[n] /\ mem.unanswered[n] <= mem.last
          BY <3>1, <3>3 DEF RowAgrees
        <4>2. Loaded(file).unanswered[n] = file.rows[n].gen
          BY <1>2, <2>1, <3>1, <4>1
        <4>3. file.rows[n].gen # None /\ file.rows[n].gen # mem.last
          BY <1>2, <3>1, <3>3, <4>1 DEF None
        <4>. QED
          BY <2>1, <4>2, <4>3 DEF may_have_been_served
      <3>. QED
        BY <2>2, <3>2, <3>3 DEF may_have_been_served
    <2>. QED
      BY <2>1, <2>2 DEF LoadForgetsNothing
  <1>4. FileLoads
    <2>1. ASSUME NEW n \in 1..Len(file.rows)
          PROVE  /\ file.rows[n].own = "acked" => \A k \in 1..n : file.rows[k].own = "acked"
                 /\ file.rows[n].own = "sent" => file.rows[n].gen # None /\ file.gen # None
                 /\ file.rows[n].own = "unsent" => n > Len(srv.stored)
      <3>1. n \in 1..own_head(mem) /\ n \in Nat /\ RowAgrees(n) /\ file.rows[n].gen \in Nat
        BY <1>1, <1>2, OpTypes
      <3>2. ASSUME file.rows[n].own = "acked", NEW k \in 1..n
            PROVE  file.rows[k].own = "acked"
        <4>1. n <= mem.acked
          BY <3>1, <3>2 DEF RowAgrees
        <4>2. k \in 1..own_head(mem) /\ k <= mem.acked
          BY <1>2, <3>1, <4>1
        <4>. QED
          BY <1>1, <4>2 DEF Linked, RowAgrees
      <3>3. file.rows[n].own = "sent" => file.rows[n].gen # None /\ file.gen # None
        BY <1>1, <1>2, <3>1 DEF RowAgrees, Linked, None
      <3>4. file.rows[n].own = "unsent" => n > Len(srv.stored)
        <4>1. \A k \in 1..Len(srv.stored) : file.rows[k].own # "unsent"
          BY <1>1 DEF CopiesSent, SentUpTo
        <4>2. Len(srv.stored) \in Nat
          BY <1>1, Basics
        <4>. QED
          BY <3>1, <4>1, <4>2
      <3>. QED
        BY <3>2, <3>3, <3>4
    <2>2. ASSUME ~Idle, NEW n \in mem.acked + 1..call.from + Len(call.recs) - 1
          PROVE  file.rows[n].own = "sent"
      <3>1. SentUpTo(EndOf(call))
        BY <1>1, <2>2 DEF CopiesSent, Idle
      <3>2. call.from \in Nat /\ Len(call.recs) \in Nat
        BY <1>1, Basics
      <3>3. n \in 1..EndOf(call) /\ n \in 1..own_head(mem) /\ ~(n <= mem.acked)
        <4>1. n \in mem.acked + 1..EndOf(call) /\ EndOf(call) \in Int
          BY <3>2 DEF EndOf
        <4>2. EndOf(call) <= own_head(mem)
          BY <3>1 DEF SentUpTo
        <4>. QED
          BY <1>2, <4>1, <4>2
      <3>4. file.rows[n].own # "unsent"
        BY <3>1, <3>3 DEF SentUpTo
      <3>5. RowAgrees(n) /\ file.rows[n].own \in {"unsent", "sent", "acked"}
        BY <1>1, <3>3, OpTypes
      <3>. QED
        BY <3>3, <3>4, <3>5 DEF RowAgrees
    <2>. QED
      BY <2>1, <2>2 DEF FileLoads
  <1>. QED
    BY <1>1, <1>3, <1>4 DEF RestartSafe

LEMMA ReissueFollows ==
  ASSUME OwnInv
  PROVE  ReissueIsAdmitted
  <1>1. TypeOK /\ Linked /\ CopiesSent /\ StaleInv /\ LateInv
    BY DEF OwnInv
  <1> SUFFICES ASSUME srv.gen = 1, NEW n \in reissue(mem)
               PROVE  reissue_admitted(n)
    BY DEF ReissueIsAdmitted
  <1>2. n \in 1..own_head(mem) /\ n > mem.acked
    BY ReissuedNeverStored
  <1>3. /\ n \in Seqs /\ n \in Nat /\ RowAgrees(n) /\ file.rows[n].gen \in Nat
        /\ file.rows[n].own \in {"unsent", "sent", "acked"} /\ mem.answered[n] \in Nat
    BY <1>1, <1>2, OpTypes
  <1>4. mem.acked \in Nat /\ mem.last \in Nat /\ mem.last <= 1 /\ own_head(mem) \in Nat
        /\ mem.stale_from \in Nat
    <2>1. mem.acked \in Nat /\ mem.last \in 0..MaxGen /\ MaxGen \in Nat /\ own_head(mem) \in Nat
          /\ mem.stale_from \in Nat
      BY <1>1, Basics
    <2>. QED
      BY <1>1, <2>1 DEF CopiesSent
  <1>5. mem.stale_from # None /\ n >= mem.stale_from
    BY DEF reissue, Stale
  <1>6. file.rows[n].own = "sent" => mem.answered[n] # None
    <2>1. n \in mem.stale_from..own_head(mem)
      BY <1>2, <1>3, <1>4, <1>5
    <2>. QED
      BY <1>1, <1>2, <1>5, <2>1 DEF StaleInv
  <1>7. mem.answered[n] <= mem.last
    BY <1>1, <1>3 DEF LateInv
  <1>8. file.rows[n].own # "acked"
    BY <1>2, <1>3, <1>4 DEF RowAgrees
  <1>9. file.rows[n].own = "sent" => file.rows[n].gen = 1 /\ mem.answered[n] = 1
    BY <1>3, <1>4, <1>6, <1>7 DEF RowAgrees, None
  <1>. QED
    BY <1>3, <1>8, <1>9 DEF reissue_admitted, None

(***************************************************************************)
(* Healing carries what waits to be re-published                           *)
(***************************************************************************)

\* An upload keeps the order of the first sends: the ops it re-issues have no
\* later op of the first epoch that stays.
LEMMA SendKeepsOrder ==
  ASSUME OwnInv, FirstSends, upload_request
  PROVE  FirstSends'
  <1> DEFINE h == own_head(mem)
             a == mem.acked
  <1>1. TypeOK /\ Linked /\ UploadSends
    BY UploadRequestKeeps DEF OwnInv
  <1>2. h \in Nat /\ a \in Nat /\ mem.last \in Nat /\ mem.key \in Nat /\ mem.stale_from \in Nat
    BY <1>1, Basics, SMTT(40) DEF Epochs
  <1> SUFFICES ASSUME NEW k \in 1..h, NEW n \in 1..h, a < k, k < n, mem'.chain[n] = 0
               PROVE  /\ mem'.unanswered[k] # None /\ mem'.unanswered[k] <= mem'.unanswered[n]
                      /\ file'.rows[k].own = "sent" /\ file'.rows[k].gen <= file'.rows[n].gen
    BY <1>1 DEF FirstSends, UploadSends
  <1>3. k \in a + 1..h /\ n \in a + 1..h /\ k \in Nat /\ n \in Nat
    BY <1>2
  <1>4. \A i \in {k, n} : /\ RowAgrees(i) /\ file.rows[i].gen \in Nat
                          /\ file.rows[i].own \in {"unsent", "sent", "acked"}
                          /\ mem.unanswered[i] \in Nat /\ mem.chain[i] \in Nat
    BY <1>1, OpTypes DEF Epochs
  <1>5. /\ mem'.unanswered[k] = IF mem.unanswered[k] = None THEN mem.last ELSE mem.unanswered[k]
        /\ mem'.unanswered[n] = IF mem.unanswered[n] = None THEN mem.last ELSE mem.unanswered[n]
        /\ mem'.chain[n] = IF n \in reissue(mem) THEN mem.key ELSE mem.chain[n]
        /\ file'.rows[k].own = "sent"
        /\ file'.rows[k].gen = IF k \in reissue(mem) \/ file.rows[k].gen = None THEN mem.last
                               ELSE file.rows[k].gen
        /\ file'.rows[n].gen = IF n \in reissue(mem) \/ file.rows[n].gen = None THEN mem.last
                               ELSE file.rows[n].gen
    BY <1>1, <1>3 DEF UploadSends
  <1>6. n \notin reissue(mem) /\ mem.chain[n] = 0
    <2>1. n \in reissue(mem) => mem.chain[n] < mem.key
      BY DEF reissue, Stale
    <2>. QED
      BY <1>2, <1>4, <1>5, <2>1
  <1>7. /\ mem.unanswered[n] # None =>
             mem.unanswered[k] # None /\ mem.unanswered[k] <= mem.unanswered[n]
        /\ file.rows[n].own = "sent" =>
             file.rows[k].own = "sent" /\ file.rows[k].gen <= file.rows[n].gen
    BY <1>6 DEF FirstSends
  <1>8. mem.last # None
    BY DEF upload_request, MayUpload
  <1>9. k \in reissue(mem) => mem.unanswered[n] = None /\ file.rows[n].own # "sent"
    <2> SUFFICES ASSUME k \in reissue(mem)
                 PROVE  FALSE
      OBVIOUS
    <2>1. mem.unanswered[k] = None
      BY ReissuedNeverStored
    <2>2. mem.stale_from # None /\ k >= mem.stale_from /\ mem.chain[k] < mem.key
      BY DEF reissue, Stale
    <2>3. n \in Stale(mem)
      BY <1>2, <1>3, <1>4, <1>6, <2>2 DEF Stale
    <2>4. may_have_been_served(mem, n)
      BY <1>6, <2>3 DEF reissue
    <2>5. mem.unanswered[n] # None
      BY <1>2, <1>3, <2>4 DEF may_have_been_served
    <2>. QED
      BY <1>7, <2>1, <2>5
  <1>10. /\ mem.unanswered[k] <= mem.last /\ file.rows[k].gen <= mem.last
         /\ file.rows[n].own # "sent" => file.rows[n].gen = None
    <2>1. \A i \in {k, n} : file.rows[i].own # "acked"
      BY <1>2, <1>3, <1>4 DEF RowAgrees
    <2>. QED
      BY <1>2, <1>4, <2>1 DEF RowAgrees, None
  <1>11. mem'.unanswered[k] # None /\ mem'.unanswered[k] <= mem'.unanswered[n]
    <2>1. CASE mem.unanswered[n] = None
      BY <1>2, <1>5, <1>8, <1>10, <2>1
    <2>2. CASE mem.unanswered[n] # None
      BY <1>5, <1>7, <2>2
    <2>. QED
      BY <2>1, <2>2
  <1>12. file'.rows[k].gen <= file'.rows[n].gen
    <2>1. CASE file.rows[n].own # "sent"
      <3>1. file'.rows[n].gen = mem.last
        BY <1>5, <1>10, <2>1
      <3>2. file'.rows[k].gen = mem.last \/ file'.rows[k].gen = file.rows[k].gen
        BY <1>5
      <3>. QED
        BY <1>2, <1>10, <3>1, <3>2
    <2>2. CASE file.rows[n].own = "sent"
      <3>1. k \notin reissue(mem) /\ file.rows[k].own = "sent" /\ file.rows[k].gen <= file.rows[n].gen
        BY <1>7, <1>9, <2>2
      <3>2. file.rows[k].gen # None /\ file.rows[n].gen # None
        BY <1>4, <2>2, <3>1 DEF RowAgrees, None
      <3>. QED
        BY <1>5, <1>6, <3>1, <3>2
    <2>. QED
      BY <2>1, <2>2
  <1>. QED
    BY <1>5, <1>11, <1>12

\* So does an answer: the ops it settles are the last ones.
LEMMA AnswerKeepsOrder ==
  ASSUME OwnInv, FirstSends, apply_upload_response \/ apply_healing_response
  PROVE  FirstSends'
  <1> DEFINE h == own_head(mem)
  <1>1. TypeOK /\ Linked /\ CopiesSent /\ AnswerSettles
    BY UploadResponseKeeps, HealingResponseKeeps DEF OwnInv
  <1>2. /\ h \in Nat /\ mem.acked \in Nat /\ mem.last \in Nat /\ srv.gen \in Nat
        /\ mem.last <= srv.gen
    BY <1>1, Basics DEF CopiesSent
  <1>3. own_head(mem)' = h /\ mem'.chain = mem.chain /\ mem.acked <= mem'.acked /\ mem'.acked \in Nat
    BY <1>1 DEF AnswerSettles, own_head
  <1> SUFFICES ASSUME NEW k \in 1..h, NEW n \in 1..h, mem'.acked < k, k < n, mem.chain[n] = 0
               PROVE  /\ mem'.unanswered[n] # None =>
                           mem'.unanswered[k] # None /\ mem'.unanswered[k] <= mem'.unanswered[n]
                      /\ file'.rows[n].own = "sent" =>
                           file'.rows[k].own = "sent" /\ file'.rows[k].gen <= file'.rows[n].gen
    BY <1>3 DEF FirstSends
  <1>4. /\ k \in mem'.acked + 1..h /\ n \in mem'.acked + 1..h /\ k \in Nat /\ n \in Nat
        /\ mem.acked < k
    BY <1>2, <1>3
  <1>5. \A i \in {k, n} :
          /\ file'.rows[i].own = file.rows[i].own /\ file'.rows[i].gen = file.rows[i].gen
          /\ mem'.unanswered[i] = IF call.kind = "upload" /\ mem.unanswered[i] = srv.gen THEN None
                                  ELSE mem.unanswered[i]
    BY <1>1, <1>4 DEF AnswerSettles
  <1>6. \A i \in {k, n} : /\ mem.unanswered[i] \in Nat
                          /\ mem.unanswered[i] # None => mem.unanswered[i] <= mem.last
    BY <1>1, OpTypes DEF RowAgrees
  <1>7. /\ mem.unanswered[n] # None =>
             mem.unanswered[k] # None /\ mem.unanswered[k] <= mem.unanswered[n]
        /\ file.rows[n].own = "sent" =>
             file.rows[k].own = "sent" /\ file.rows[k].gen <= file.rows[n].gen
    BY <1>4 DEF FirstSends
  <1>. QED
    BY <1>2, <1>5, <1>6, <1>7

\* A load takes the order from the file.
LEMMA LoadKeepsOrder ==
  ASSUME OwnInv, FirstSends, reissue_refused \/ Crash
  PROVE  FirstSends'
  <1> DEFINE h == own_head(mem)
  <1>1. TypeOK /\ Linked /\ mem' = Loaded(file) /\ file' = file
    BY DEF OwnInv, reissue_refused, Crash
  <1>2. /\ mem'.chain = mem.chain /\ mem'.acked = mem.acked
        /\ \A n \in Seqs : mem'.unanswered[n] =
             IF n <= h /\ file.rows[n].own = "sent" THEN file.rows[n].gen ELSE None
    BY <1>1, LoadedIs
  <1>3. own_head(mem)' = h /\ h \in Nat
    BY <1>1, <1>2, Basics DEF own_head
  <1>4. \A n \in 1..h : /\ RowAgrees(n) /\ file.rows[n].gen \in Nat
                        /\ mem'.unanswered[n] = IF file.rows[n].own = "sent" THEN file.rows[n].gen
                                                ELSE None
    BY <1>1, <1>2, <1>3, OpTypes
  <1>5. \A n \in 1..h : file.rows[n].own = "sent" => file.rows[n].gen # None
    BY <1>4 DEF RowAgrees, None
  <1>. QED
    BY <1>1, <1>2, <1>3, <1>4, <1>5 DEF FirstSends

\* A new op was never sent.
LEMMA WriteKeepsOrder ==
  ASSUME OwnInv, FirstSends, write_op
  PROVE  FirstSends'
  <1> DEFINE h == own_head(mem)
             row == [ver |-> mem.key, own |-> "unsent", gen |-> None]
  <1>1. TypeOK /\ Linked
    BY DEF OwnInv
  <1>2. /\ mem'.chain = Append(mem.chain, mem.key) /\ mem'.acked = mem.acked
        /\ mem'.unanswered = mem.unanswered /\ h < MaxSeq
        /\ file'.rows = Append(file.rows, row)
    BY <1>1 DEF write_op, TypeOK, Memories, Files
  <1>3. row.own = "unsent"
    OBVIOUS
  <1> HIDE DEF row
  <1>4. /\ mem.chain \in Seq(Epochs) /\ file.rows \in Seq(OwnRow) /\ h \in Nat
        /\ Len(mem.chain) = h /\ Len(file.rows) = h /\ MaxSeq \in Nat
    BY <1>1, Basics DEF Linked
  <1>5. /\ own_head(mem)' = h + 1
        /\ \A n \in 1..h : mem'.chain[n] = mem.chain[n] /\ file'.rows[n] = file.rows[n]
        /\ file'.rows[h + 1] = row
    BY <1>2, <1>4 DEF own_head
  <1>6. mem.unanswered[h + 1] = None
    BY <1>1, <1>2, <1>4 DEF Linked, Seqs
  <1> SUFFICES ASSUME NEW k \in 1..h + 1, NEW n \in 1..h + 1, mem.acked < k, k < n,
                      mem'.chain[n] = 0
               PROVE  /\ mem.unanswered[n] # None =>
                           mem.unanswered[k] # None /\ mem.unanswered[k] <= mem.unanswered[n]
                      /\ file'.rows[n].own = "sent" =>
                           file'.rows[k].own = "sent" /\ file'.rows[k].gen <= file'.rows[n].gen
    BY <1>2, <1>5 DEF FirstSends
  <1>7. CASE n = h + 1
    BY <1>3, <1>5, <1>6, <1>7
  <1>8. CASE n \in 1..h /\ k \in 1..h
    BY <1>5, <1>8 DEF FirstSends
  <1>. QED
    BY <1>4, <1>7, <1>8

\* Every other step leaves the device's rows and what memory has of them alone.
LEMMA OrderKept ==
  ASSUME OwnInv, FirstSends, [Next]_vars
  PROVE  FirstSends'
  <1>1. CASE /\ mem'.chain = mem.chain /\ mem'.acked = mem.acked
             /\ mem'.unanswered = mem.unanswered /\ file'.rows = file.rows
    BY <1>1 DEF FirstSends, own_head
  <1>2. CASE fetch \/ adopt_vault_key
    <2>1. mem \in Memories /\ file \in Files
      BY DEF OwnInv, TypeOK
    <2>. QED
      BY <1>1, <1>2, <2>1 DEF fetch, adopt_vault_key, Observe, Memories, Files
  <1>3. CASE UNCHANGED <<mem, file>>
    BY <1>1, <1>3
  <1>4. CASE healing_request \/ healing_refused \/ GiveUp
    BY <1>3, <1>4 DEF healing_request, healing_refused, GiveUp
  <1>5. CASE (\E allowed \in BOOLEAN : serve_call(allowed))
             \/ (\E r \in late, allowed \in BOOLEAN : serve_late(r, allowed))
    BY <1>3, <1>5 DEF serve_call, serve_late
  <1>6. CASE rotate \/ take_backup \/ restore \/ peer_fetch \/ peer_heal
             \/ \E e \in Epochs : heal_account(e)
    BY <1>3, <1>6 DEF rotate, take_backup, restore, heal_account, peer_fetch, peer_heal
  <1>7. CASE UNCHANGED vars
    BY <1>3, <1>7 DEF vars
  <1>. QED
    BY <1>2, <1>4, <1>5, <1>6, <1>7, WriteKeepsOrder, SendKeepsOrder, LoadKeepsOrder,
       AnswerKeepsOrder DEF Next

\* A key comes from the server, whose epoch a rotation sets.
LEMMA KeysKept ==
  ASSUME OwnInv, KeysKnown, [Next]_vars
  PROVE  KeysKnown'
  <1>1. TypeOK /\ Linked
    BY DEF OwnInv
  <1>2. top \in Nat /\ srv.epoch \in Nat /\ mem.key \in Nat /\ backup.epoch \in Nat
    BY <1>1, Basics, SMTT(40) DEF TypeOK, Epochs
  <1>3. CASE mem'.key = mem.key /\ srv'.epoch = srv.epoch /\ UNCHANGED <<backup, top>>
    BY <1>3 DEF KeysKnown
  <1>4. CASE write_op \/ fetch
    BY <1>1, <1>3, <1>4 DEF write_op, fetch, Observe, TypeOK, Memories
  <1>5. CASE adopt_vault_key
    <2>1. mem'.key = srv.epoch /\ UNCHANGED <<srv, backup, top>>
      BY <1>1, <1>5 DEF adopt_vault_key, Observe, TypeOK, Memories
    <2>. QED
      BY <2>1 DEF KeysKnown
  <1>6. CASE upload_request
    <2>1. mem'.key = mem.key /\ UNCHANGED <<srv, backup, top>>
      BY <1>6, UploadRequestKeeps DEF UploadSends, upload_request
    <2>. QED
      BY <1>3, <2>1, SMTT(40)
  <1>7. CASE apply_upload_response \/ apply_healing_response
    <2>1. mem'.key = mem.key
      BY <1>7, UploadResponseKeeps, HealingResponseKeeps DEF AnswerSettles
    <2>2. UNCHANGED <<srv, backup, top>>
      BY <1>7 DEF apply_upload_response, apply_healing_response
    <2>. QED
      BY <1>3, <2>1, <2>2
  <1>8. CASE reissue_refused \/ Crash
    <2>1. mem' = Loaded(file) /\ UNCHANGED <<srv, backup, top>>
      BY <1>8 DEF reissue_refused, Crash
    <2>2. Loaded(file).key = mem.key
      BY <1>1, LoadedIs
    <2>. QED
      BY <1>3, <2>1, <2>2
  <1>9. CASE healing_request \/ healing_refused \/ GiveUp
    BY <1>3, <1>9 DEF healing_request, healing_refused, GiveUp
  <1>10. CASE (\E allowed \in BOOLEAN : serve_call(allowed))
              \/ (\E r \in late, allowed \in BOOLEAN : serve_late(r, allowed))
    <2>1. UNCHANGED <<mem, backup, top>>
          /\ \E r, allowed, n : srv' = StoreUpTo(r, n)
      BY <1>10 DEF serve_call, serve_late, Store
    <2>2. srv'.epoch = srv.epoch
      <3>1. PICK new : srv' = srv \/ srv' = [srv EXCEPT !.stored = @ \o new]
        BY <2>1 DEF StoreUpTo
      <3>. QED
        BY <1>1, <3>1 DEF TypeOK, Servers
    <2>. QED
      BY <1>3, <2>1, <2>2
  <1>11. CASE rotate
    <2>1. top' = top + 1 /\ UNCHANGED <<backup, mem>> /\ srv'.epoch = top + 1
      BY <1>1, <1>11 DEF rotate, TypeOK, Servers
    <2>. QED
      BY <1>2, <2>1 DEF KeysKnown
  <1>12. CASE take_backup \/ restore
    <2>1. UNCHANGED <<mem, top>> /\ srv'.epoch \in {srv.epoch, backup.epoch}
          /\ backup'.epoch \in {srv.epoch, backup.epoch}
      BY <1>1, <1>12 DEF take_backup, restore, TypeOK, Servers
    <2>. QED
      BY <1>2, <2>1 DEF KeysKnown
  <1>a. CASE \E e \in Epochs : heal_account(e)
    <2>1. PICK e \in Epochs : heal_account(e)
      BY <1>a
    <2>2. UNCHANGED <<mem, top, backup>> /\ srv'.epoch = e /\ e <= top
      BY <1>1, <2>1 DEF heal_account, TypeOK, Servers
    <2>. QED
      BY <2>2 DEF KeysKnown
  <1>13. CASE peer_fetch \/ peer_heal
    BY <1>1, <1>3, <1>13 DEF peer_fetch, peer_heal, TypeOK, Servers
  <1>14. CASE UNCHANGED vars
    BY <1>3, <1>14 DEF vars
  <1>. QED
    BY <1>4, <1>5, <1>6, <1>7, <1>8, <1>9, <1>10, <1>11, <1>12, <1>a, <1>13, <1>14 DEF Next

\* With one rotation, what is stale was signed before it; the order of the first
\* sends then makes every op from the server's head up to it servable.
LEMMA HealingFollows ==
  ASSUME OwnInv, FirstSends, KeysKnown
  PROVE  HealingCarriesIt
  <1>1. TypeOK /\ Linked
    BY DEF OwnInv
  <1> SUFFICES ASSUME top < 2, NEW n \in stale_republish(mem)
               PROVE  n <= HealTop
    BY DEF HealingCarriesIt
  <1>2. /\ n \in 1..own_head(mem) /\ mem.chain[n] < mem.key /\ may_have_been_served(mem, n)
        /\ n > mem.acked /\ n > mem.server_head
    BY DEF stale_republish, republish, Stale, awaits_republish
  <1>3. /\ own_head(mem) \in Nat /\ mem.acked \in Nat /\ mem.server_head \in Nat /\ mem.last \in Nat
        /\ mem.key \in Nat /\ top \in Nat /\ n \in Nat /\ mem \in Memories
    <2>1. /\ own_head(mem) \in Nat /\ mem.acked \in Nat /\ mem.server_head \in Nat
          /\ mem.last \in 0..MaxGen /\ mem.key \in Epochs
      BY <1>1, Basics
    <2>2. top \in Epochs /\ mem \in Memories
      BY <1>1 DEF TypeOK
    <2>. QED
      BY <1>2, <2>1, <2>2 DEF Epochs
  <1>4. mem.chain[n] = 0
    <2>1. mem.chain[n] \in Nat
      BY <1>1, <1>2, OpTypes DEF Epochs
    <2>. QED
      BY <1>2, <1>3, <2>1 DEF KeysKnown
  <1>5. mem.unanswered[n] # None /\ mem.unanswered[n] # mem.last
    BY <1>2, <1>3 DEF may_have_been_served
  <1>6. ASSUME NEW k \in mem.server_head + 1..n
        PROVE  Servable(k)
    <2>1. k \in 1..own_head(mem) /\ k \in Nat
      BY <1>2, <1>3
    <2>2. CASE k <= mem.acked
      BY <2>2 DEF Servable
    <2>3. CASE k = n
      BY <1>2, <2>3 DEF Servable
    <2>4. CASE mem.acked < k /\ k < n
      <3>1. mem.unanswered[k] # None /\ mem.unanswered[k] <= mem.unanswered[n]
        BY <1>2, <1>4, <1>5, <2>1, <2>4 DEF FirstSends
      <3>2. /\ mem.unanswered[k] \in Nat /\ mem.unanswered[n] \in Nat
            /\ mem.unanswered[n] <= mem.last
        BY <1>1, <1>2, <1>5, <2>1, OpTypes DEF RowAgrees
      <3>. QED
        BY <1>3, <1>5, <3>1, <3>2 DEF Servable, may_have_been_served
    <2>. QED
      BY <1>2, <1>3, <2>1, <2>2, <2>3, <2>4
  <1>7. mem.server_head <= own_head(mem) /\ n \in mem.server_head..own_head(mem)
    BY <1>2, <1>3
  <1>. QED
    BY <1>3, <1>6, <1>7, HealTopServable

\* The file is good for a restart after every step of the device, the server
\* and the other device: it loads, and the load forgets nothing that memory
\* knew of what was served (own.rs and store/floors.rs).
THEOREM RestartStaysSafe == Spec => []RestartSafe
  BY OwnInvAlways, RestartSafeFollows, PTL

\* As long as no request is processed after its caller gave up, no dot ever has
\* two signed versions, across every restore and rotation, and the device never
\* takes its own history for another copy's (heal.rs, awaits_republish).
THEOREM HistoryStaysOne == Spec => []OneHistory
  <1>1. OwnInv => OneHistory
    BY DEF OwnInv, HistoryInv, OneHistory, NoReissueAtStoredDot, NoFalseAlarm
  <1>. QED
    BY <1>1, OwnInvAlways, PTL

\* Until a restore, every re-issue the log plans from memory passes the check
\* of the floors against the row.
THEOREM ReissuesAdmitted == Spec => []ReissueIsAdmitted
  BY OwnInvAlways, ReissueFollows, PTL

\* The two ways out of a stale answer do not block each other: until the second
\* rotation, the healing request carries every op that waits to be re-published,
\* across every restore, crash and request given up (own.rs, own_range).
THEOREM HealingCarries == Spec => []HealingCarriesIt
  <1> DEFINE I == OwnInv /\ FirstSends /\ KeysKnown
  <1>1. Init => I
    <2> SUFFICES ASSUME Init
                 PROVE  OwnInv /\ FirstSends /\ KeysKnown
      OBVIOUS
    <2>1. OwnInv
      BY InitHolds
    <2>2. own_head(mem) = 0 /\ mem.key = 0
      <3>1. TypeOK /\ Linked /\ file.rows = <<>> /\ file.key = 0
        BY <2>1 DEF Init, OwnInv
      <3>. QED
        BY <3>1 DEF Linked
    <2>3. FirstSends
      BY <2>2 DEF FirstSends
    <2>4. KeysKnown
      BY <2>2 DEF KeysKnown, Init
    <2>. QED
      BY <2>1, <2>3, <2>4
  <1>2. I /\ [Next]_vars => I'
    BY NextKeeps, OrderKept, KeysKept
  <1>3. I => HealingCarriesIt
    BY HealingFollows
  <1>. QED
    BY <1>1, <1>2, <1>3, PTL DEF Spec

=============================================================================
