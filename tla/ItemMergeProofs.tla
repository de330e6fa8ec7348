-------------------------- MODULE ItemMergeProofs --------------------------
(***************************************************************************)
(* Theorems about purged items, for every set of devices and fields, every *)
(* limit and every bound: a purge stands, and every record of it carries   *)
(* the key of the op as stored.                                            *)
(***************************************************************************)
EXTENDS ItemMerge, TLAPS, FiniteSetTheorems, NaturalsInduction, WellFoundedInduction

(***************************************************************************)
(* The invariant                                                           *)
(***************************************************************************)

OpOK(o) ==
  /\ o.dev \in Devices /\ o.seq \in Nat /\ o.seq <= MaxOps + 1
  /\ o.ctx \in VV

\* What a state of the item is, wherever it is kept: its values are ops of the
\* log; a tombstone has no history and no value that its context covers, and
\* its version vector covers the purge it records.
StateOK(s, ops) ==
  /\ s = [vv |-> s.vv, cur |-> s.cur, hist |-> s.hist, purge |-> s.purge,
          key |-> s.key, c |-> s.c]
  /\ s.vv \in VV /\ s.c \in VV
  /\ s.cur \in [Keys -> SUBSET ops] /\ s.hist \in [Keys -> SUBSET ops]
  /\ is_tomb(s) =>
       /\ s.hist = Empty
       /\ \A k \in Keys : \A v \in s.cur[k] : ~covers(s.c, v)
       /\ s.purge \in ops /\ s.purge.kind = "purge" /\ covers(s.vv, s.purge)

\* The key a tombstone records is that of its purge.
KeyOK(s, ops) == is_tomb(s) => s.key = (s.purge \in ops)

\* Its purge is stored, unless device d is still to upload it.
StoredFor(d, s, stored) == is_tomb(s) /\ s.purge.dev # d => covers(stored, s.purge)

LogInv ==
  /\ IsFiniteSet(log) /\ \A o \in log : OpOK(o)
  /\ sent \in VV

Replica(q) ==
  q = [state |-> q.state, base |-> q.base, headers |-> q.headers, bodies |-> q.bodies,
       merged |-> q.merged, retained |-> q.retained, count |-> q.count,
       merge_due |-> q.merge_due, pending |-> q.pending, unresolved |-> q.unresolved,
       clock |-> q.clock, outbox |-> q.outbox, held_covers |-> q.held_covers,
       clean |-> q.clean]

\* What is asked of the state of device d, and of each snapshot it wrote.
RecordOK(d, s) == StateOK(s, log) /\ KeyOK(s, rekeyed) /\ StoredFor(d, s, sent)

ReplicaOK(d, q) ==
  /\ Replica(q) /\ q.headers \subseteq log
  /\ RecordOK(d, q.state)
  /\ \A snap \in q.outbox : RecordOK(d, snap.state)

\* A snapshot that the server stored records only a purge that it stored.
SnapOK(snap) ==
  /\ StateOK(snap.state, log) /\ KeyOK(snap.state, rekeyed)
  /\ is_tomb(snap.state) => covers(sent, snap.state.purge)

\* A purge stands from state a to state t.
Stands(a, t) == is_tomb(a) => is_tomb(t) /\ leq(a.c, t.c)

PurgeKept == \A d \in Devices : Stands(rep[d].state, rep'[d].state)

ItemInv ==
  /\ LogInv
  /\ rep = [d \in Devices |-> rep[d]]
  /\ \A d \in Devices : ReplicaOK(d, rep[d])
  /\ \A snap \in snaps : SnapOK(snap)

(***************************************************************************)
(* Maxima and version vectors                                              *)
(***************************************************************************)

\* A set of numbers that is not empty has a least element.
LEMMA LeastElement ==
  ASSUME NEW T \in SUBSET Nat, T # {}
  PROVE  \E x \in T : \A y \in T : x <= y
  <1> DEFINE R == OpToRel(<, Nat)
  <1>1. IsWellFoundedOn(R, Nat)
    BY NatLessThanWellFounded
  <1>2. \A x, y \in Nat : y < x => <<y, x>> \in R
    BY DEF OpToRel
  <1> HIDE DEF R
  <1>3. PICK x \in T : \A y \in T : ~(<<y, x>> \in R)
    BY <1>1, WFMin
  <1>4. \A y \in T : ~(y < x) /\ x \in Nat /\ y \in Nat
    BY <1>2, <1>3
  <1> QED BY <1>4

\* A bounded set of numbers that is not empty has its maximum.
LEMMA MaxIs ==
  ASSUME NEW T \in SUBSET Nat, NEW n \in Nat, T # {}, \A x \in T : x <= n
  PROVE  Max(T) \in T /\ \A x \in T : Max(T) >= x
  <1> DEFINE U == {u \in Nat : \A x \in T : x <= u}
  <1>1. PICK u \in U : \A y \in U : u <= y
    <2>1. n \in U /\ U \subseteq Nat
      OBVIOUS
    <2> HIDE DEF U
    <2> QED BY <2>1, LeastElement
  <1>2. u \in T
    <2>1. SUFFICES ASSUME u \notin T PROVE FALSE
      OBVIOUS
    <2>2. PICK x \in T : TRUE
      OBVIOUS
    <2>3. u \in Nat /\ x \in Nat /\ x < u
      BY <1>1, <2>1, <2>2
    <2>4. \A y \in T : y <= u - 1
      BY <1>1, <2>1
    <2>5. u - 1 \in U
      BY <2>3, <2>4
    <2> QED BY <1>1, <2>3, <2>5
  <1>3. \A x \in T : u >= x
    BY <1>1
  <1> QED BY <1>2, <1>3 DEF Max

\* The heads of verified headers are a version vector.
LEMMA HeadsType ==
  ASSUME NEW ops, \A o \in ops : OpOK(o)
  PROVE  heads(ops) \in VV
  <1>1. ASSUME NEW d \in Devices
        PROVE  Max({0} \cup {o.seq : o \in {p \in ops : p.dev = d}}) \in Nat
    <2> DEFINE T == {0} \cup {o.seq : o \in {p \in ops : p.dev = d}}
    <2>1. T \in SUBSET Nat /\ T # {} /\ MaxOps + 1 \in Nat /\ \A x \in T : x <= MaxOps + 1
      BY ItemAssumption DEF OpOK
    <2> HIDE DEF T
    <2>2. Max(T) \in T
      BY <2>1, MaxIs
    <2> QED BY <2>1, <2>2 DEF T
  <1> QED BY <1>1 DEF heads, VV

LEMMA VectorFacts ==
  ASSUME NEW v \in VV, NEW w \in VV
  PROVE  /\ join(v, w) \in VV /\ meet(v, w) \in VV /\ ZeroVV \in VV
         /\ leq(v, v) /\ leq(v, join(v, w)) /\ leq(w, join(v, w))
  BY DEF VV, join, meet, leq, ZeroVV

LEMMA CoverFacts ==
  ASSUME NEW v \in VV, NEW w \in VV, NEW o, OpOK(o)
  PROVE  /\ covers(v, o) \/ covers(w, o) => covers(join(v, w), o)
         /\ covers(v, o) /\ covers(w, o) => covers(meet(v, w), o)
         /\ leq(v, w) /\ covers(v, o) => covers(w, o)
         /\ add(v, o) \in VV /\ covers(add(v, o), o)
  BY DEF VV, join, meet, leq, covers, OpOK, add

(***************************************************************************)
(* The operations on states                                                *)
(***************************************************************************)

\* A state stays one when the log grows.
LEMMA StateGrows ==
  ASSUME NEW s, NEW ops, NEW more, ops \subseteq more, StateOK(s, ops)
  PROVE  StateOK(s, more)
  BY DEF StateOK

LEMMA AbsentOK ==
  ASSUME NEW ops
  PROVE  StateOK(Absent, ops) /\ ~is_tomb(Absent)
  BY DEF StateOK, Absent, is_tomb, Empty, VV, ZeroVV

LEMMA SingletonOK ==
  ASSUME NEW ops, NEW op \in ops, OpOK(op)
  PROVE  /\ StateOK(singleton(op), ops) /\ KeyOK(singleton(op), rekeyed)
         /\ is_tomb(singleton(op)) => singleton(op).purge = op
  <1>1. PICK s : s = singleton(op)
    OBVIOUS
  <1>2. /\ s.vv = add(ZeroVV, op)
        /\ s.cur = [k \in Keys |-> IF WritesTo(op, k) THEN {op} ELSE {}]
        /\ s.hist = Empty
        /\ s.purge = (IF op.kind = "purge" THEN op ELSE Nothing)
        /\ s.key = (op.kind = "purge" /\ key_id(op))
        /\ s.c = (IF op.kind = "purge" THEN op.ctx ELSE ZeroVV)
        /\ s = [vv |-> s.vv, cur |-> s.cur, hist |-> s.hist, purge |-> s.purge,
                key |-> s.key, c |-> s.c]
    BY <1>1 DEF singleton, Absent
  <1>3. ZeroVV \in VV /\ op.ctx \in VV
    BY DEF VV, ZeroVV, OpOK
  <1>4. s.vv \in VV /\ s.c \in VV /\ covers(s.vv, op)
    BY <1>2, <1>3, CoverFacts
  <1>5. s.cur \in [Keys -> SUBSET ops] /\ s.hist \in [Keys -> SUBSET ops]
    BY <1>2 DEF Empty
  <1>6. is_tomb(s) => s.purge = op /\ op.kind = "purge"
    BY <1>2 DEF is_tomb
  <1>7. is_tomb(s) => \A k \in Keys : s.cur[k] = {}
    BY <1>2, <1>6 DEF WritesTo
  <1>8. StateOK(s, ops)
    BY <1>2, <1>4, <1>5, <1>6, <1>7 DEF StateOK
  <1>9. KeyOK(s, rekeyed)
    <2>1. SUFFICES ASSUME is_tomb(s) PROVE s.key = (op \in rekeyed)
      BY <1>6 DEF KeyOK
    <2>2. s.key = (op.kind = "purge" /\ op \in rekeyed) /\ op.kind = "purge"
      BY <1>2, <1>6, <2>1, Zenon DEF key_id
    <2> QED BY <2>2
  <1> QED BY <1>1, <1>6, <1>8, <1>9

\* The purge of state j is that of one of a and b, with the key recorded there.
PurgeFrom(j, a, b) ==
  is_tomb(j) =>
    \/ is_tomb(a) /\ j.purge = a.purge /\ j.key = a.key
    \/ is_tomb(b) /\ j.purge = b.purge /\ j.key = b.key

TombJoin(t, s) == [join_tomb_into(t, s) EXCEPT !.vv = join(t.vv, s.vv)]

\* The join of a tombstone t with a state s.
LEMMA JoinTomb ==
  ASSUME NEW ops, \A o \in ops : OpOK(o), NEW t, StateOK(t, ops), NEW s, StateOK(s, ops),
         is_tomb(t), NEW j, j = TombJoin(t, s)
  PROVE  StateOK(j, ops) /\ is_tomb(j) /\ leq(t.c, j.c) /\ PurgeFrom(j, t, s)
  <1> DEFINE c == join(t.c, s.c)
             up == is_tomb(s) /\ Higher(s.purge, t.purge)
             cur == [k \in Keys |-> IF HeldAt(s, k) = {} THEN {v \in t.cur[k] : ~covers(c, v)}
                                    ELSE late(c, k, t.cur[k] \cup HeldAt(s, k))]
  <1>1. /\ t.vv \in VV /\ t.c \in VV /\ s.vv \in VV /\ s.c \in VV
        /\ t.cur \in [Keys -> SUBSET ops] /\ t.hist = Empty
        /\ s.cur \in [Keys -> SUBSET ops] /\ s.hist \in [Keys -> SUBSET ops]
        /\ t.purge \in ops /\ t.purge.kind = "purge" /\ covers(t.vv, t.purge)
        /\ t = [vv |-> t.vv, cur |-> t.cur, hist |-> t.hist, purge |-> t.purge,
                key |-> t.key, c |-> t.c]
        /\ is_tomb(s) => s.purge \in ops /\ s.purge.kind = "purge" /\ covers(s.vv, s.purge)
    BY DEF StateOK
  <1>2. /\ j.vv = join(t.vv, s.vv) /\ j.cur = cur /\ j.hist = Empty /\ j.c = c
        /\ j.purge = (IF up THEN s.purge ELSE t.purge)
        /\ j.key = (IF up THEN s.key ELSE t.key)
        /\ j = [vv |-> j.vv, cur |-> j.cur, hist |-> j.hist, purge |-> j.purge,
                key |-> j.key, c |-> j.c]
    BY <1>1 DEF TombJoin, join_tomb_into
  <1>3. \A k \in Keys : cur[k] \subseteq ops /\ \A v \in cur[k] : ~covers(c, v)
    BY <1>1 DEF late, maximal, HeldAt
  <1>4. j.vv \in VV /\ j.c \in VV /\ leq(t.c, j.c)
    BY <1>1, <1>2, VectorFacts
  <1>5. /\ j.purge \in ops /\ j.purge.kind = "purge" /\ j.purge # Nothing
        /\ covers(j.vv, j.purge)
    BY <1>1, <1>2, CoverFacts DEF is_tomb
  <1>6. j.cur \in [Keys -> SUBSET ops] /\ j.hist \in [Keys -> SUBSET ops]
    BY <1>2, <1>3 DEF Empty
  <1>7. StateOK(j, ops)
    <2> HIDE DEF c, up, cur
    <2>1. \A k \in Keys : \A v \in j.cur[k] : ~covers(j.c, v)
      BY <1>2, <1>3
    <2> QED BY <1>2, <1>4, <1>5, <1>6, <2>1 DEF StateOK
  <1>8. PurgeFrom(j, t, s)
    BY <1>2, Zenon DEF PurgeFrom
  <1> QED BY <1>4, <1>5, <1>7, <1>8 DEF is_tomb

\* The join of two live states.
LEMMA JoinLive ==
  ASSUME NEW ops, NEW x, StateOK(x, ops), NEW y, StateOK(y, ops), ~is_tomb(x),
         NEW j, j = [join_live_into(x, y) EXCEPT !.vv = join(x.vv, y.vv)]
  PROVE  StateOK(j, ops) /\ ~is_tomb(j)
  <1>1. /\ x.vv \in VV /\ x.c \in VV /\ y.vv \in VV
        /\ x.cur \in [Keys -> SUBSET ops] /\ x.hist \in [Keys -> SUBSET ops]
        /\ y.cur \in [Keys -> SUBSET ops] /\ y.hist \in [Keys -> SUBSET ops]
        /\ x = [vv |-> x.vv, cur |-> x.cur, hist |-> x.hist, purge |-> x.purge,
                key |-> x.key, c |-> x.c]
    BY DEF StateOK
  <1> DEFINE anew == {k \in Keys : HeldAt(y, k) # {}}
             all == [k \in anew |-> HeldAt(x, k) \cup HeldAt(y, k)]
             top == [k \in anew |-> maximal(all[k])]
             cur == [k \in Keys |-> IF k \in anew THEN top[k] ELSE x.cur[k]]
             hist == [k \in Keys |-> IF k \in anew THEN prune(all[k] \ top[k]) ELSE x.hist[k]]
  <1>2. /\ j.vv = join(x.vv, y.vv) /\ j.cur = cur /\ j.hist = hist /\ j.c = x.c
        /\ j.purge = x.purge
        /\ j = [vv |-> j.vv, cur |-> j.cur, hist |-> j.hist, purge |-> j.purge,
                key |-> j.key, c |-> j.c]
    BY <1>1 DEF join_live_into
  <1>3. \A k \in Keys : cur[k] \subseteq ops /\ hist[k] \subseteq ops
    BY <1>1 DEF maximal, prune, HeldAt
  <1>4. j.cur \in [Keys -> SUBSET ops] /\ j.hist \in [Keys -> SUBSET ops]
    BY <1>2, <1>3
  <1>5. j.vv \in VV
    BY <1>1, <1>2, VectorFacts
  <1> QED BY <1>1, <1>2, <1>4, <1>5 DEF StateOK, is_tomb


LEMMA JoinOK ==
  ASSUME NEW ops, \A o \in ops : OpOK(o), NEW a, StateOK(a, ops), NEW b, StateOK(b, ops),
         NEW j, j = join_into(a, b)
  PROVE  /\ StateOK(j, ops) /\ PurgeFrom(j, a, b)
         /\ is_tomb(a) => is_tomb(j) /\ leq(a.c, j.c)
  <1>1. a.vv \in VV /\ b.vv \in VV
    BY DEF StateOK
  <1>2. join(a.vv, b.vv) = join(b.vv, a.vv)
    BY <1>1 DEF join, VV
  <1>3. CASE is_tomb(a)
    <2>1. j = TombJoin(a, b)
      BY <1>3, Zenon DEF join_into, TombJoin
    <2>2. StateOK(j, ops) /\ is_tomb(j) /\ leq(a.c, j.c) /\ PurgeFrom(j, a, b)
      BY <1>3, <2>1, JoinTomb
    <2> QED BY <1>3, <2>2, Zenon DEF PurgeFrom
  <1>4. CASE ~is_tomb(a) /\ is_tomb(b)
    <2>1. j = TombJoin(b, a)
      BY <1>2, <1>4, Zenon DEF join_into, TombJoin
    <2>2. StateOK(j, ops) /\ is_tomb(j) /\ leq(b.c, j.c) /\ PurgeFrom(j, b, a)
      BY <1>4, <2>1, JoinTomb
    <2> QED BY <1>4, <2>2, Zenon DEF PurgeFrom
  <1>5. CASE ~is_tomb(a) /\ ~is_tomb(b)
    <2>1. j = [join_live_into(a, b) EXCEPT !.vv = join(a.vv, b.vv)]
      BY <1>5, Zenon DEF join_into
    <2> QED BY <1>5, <2>1, JoinLive DEF PurgeFrom
  <1> QED BY <1>3, <1>4, <1>5

\* The part of a snapshot that the verified headers vouch for: a tombstone
\* keeps a purge that is among them.
LEMMA CutOK ==
  ASSUME NEW ops, \A o \in ops : OpOK(o), NEW s, StateOK(s, ops),
         NEW headers \in SUBSET ops, ~PurgeAboveCut(s, headers),
         NEW t, t = cut(s, headers)
  PROVE  StateOK(t, ops) /\ t.purge = s.purge /\ t.key = s.key
  <1> DEFINE vv == meet(s.vv, heads(headers))
             c == meet(s.c, vv)
             take(V) == {v \in V : /\ covers(vv, v) /\ v \in headers
                                   /\ is_tomb(s) => ~covers(c, v) /\ v # s.purge}
  <1>1. /\ s.vv \in VV /\ s.c \in VV
        /\ s.cur \in [Keys -> SUBSET ops] /\ s.hist \in [Keys -> SUBSET ops]
        /\ s = [vv |-> s.vv, cur |-> s.cur, hist |-> s.hist, purge |-> s.purge,
                key |-> s.key, c |-> s.c]
        /\ is_tomb(s) => /\ s.hist = Empty
                         /\ s.purge \in ops /\ s.purge.kind = "purge"
                         /\ covers(s.vv, s.purge)
    BY DEF StateOK
  <1>2. /\ t.vv = vv /\ t.c = c /\ t.purge = s.purge /\ t.key = s.key
        /\ t.cur = [k \in Keys |-> take(s.cur[k])]
        /\ t.hist = [k \in Keys |-> take(s.hist[k])]
        /\ t = [vv |-> t.vv, cur |-> t.cur, hist |-> t.hist, purge |-> t.purge,
                key |-> t.key, c |-> t.c]
    BY <1>1 DEF cut
  <1>3. heads(headers) \in VV
    BY HeadsType
  <1>4. vv \in VV
    BY <1>1, <1>3, VectorFacts
  <1>5. c \in VV
    BY <1>1, <1>4, VectorFacts
  <1>6. t.cur \in [Keys -> SUBSET ops] /\ t.hist \in [Keys -> SUBSET ops]
    BY <1>1, <1>2
  <1>7. ASSUME is_tomb(s)
        PROVE  /\ t.hist = Empty /\ covers(t.vv, t.purge)
               /\ \A k \in Keys : \A v \in t.cur[k] : ~covers(t.c, v)
    <2>1. covers(heads(headers), s.purge)
      BY <1>7 DEF PurgeAboveCut
    <2>2. covers(vv, s.purge)
      BY <1>1, <1>3, <1>7, <2>1, CoverFacts
    <2>3. t.hist = Empty
      BY <1>1, <1>2, <1>7 DEF Empty
    <2>4. \A k \in Keys : \A v \in t.cur[k] : ~covers(t.c, v)
      <3> SUFFICES ASSUME NEW k \in Keys, NEW v \in take(s.cur[k]) PROVE ~covers(c, v)
        BY <1>2
      <3> QED BY <1>7
    <2> QED BY <1>2, <2>2, <2>3, <2>4
  <1> HIDE DEF vv, c, take
  <1>8. is_tomb(t) => is_tomb(s)
    BY <1>2 DEF is_tomb
  <1>9. StateOK(t, ops)
    BY <1>1, <1>2, <1>4, <1>5, <1>6, <1>7, <1>8 DEF StateOK
  <1> QED BY <1>2, <1>9

LEMMA NormalizeOK ==
  ASSUME NEW ops, NEW s, StateOK(s, ops), NEW t, t = normalize(s)
  PROVE  StateOK(t, ops) /\ t.purge = s.purge /\ t.key = s.key
  <1> DEFINE cur == [k \in Keys |-> IF is_tomb(s) THEN late(s.c, k, s.cur[k])
                                    ELSE maximal(HeldAt(s, k))]
             hist == [k \in Keys |-> IF is_tomb(s) THEN {}
                                     ELSE prune(HeldAt(s, k) \ maximal(HeldAt(s, k)))]
  <1>1. /\ s.cur \in [Keys -> SUBSET ops] /\ s.hist \in [Keys -> SUBSET ops]
        /\ s = [vv |-> s.vv, cur |-> s.cur, hist |-> s.hist, purge |-> s.purge,
                key |-> s.key, c |-> s.c]
    BY DEF StateOK
  <1>2. /\ t.vv = s.vv /\ t.c = s.c /\ t.purge = s.purge /\ t.key = s.key
        /\ t.cur = cur /\ t.hist = hist
        /\ t = [vv |-> t.vv, cur |-> t.cur, hist |-> t.hist, purge |-> t.purge,
                key |-> t.key, c |-> t.c]
    BY <1>1 DEF normalize
  <1>3. t.cur \in [Keys -> SUBSET ops] /\ t.hist \in [Keys -> SUBSET ops]
    <2>1. \A k \in Keys : cur[k] \subseteq ops /\ hist[k] \subseteq ops
      BY <1>1 DEF late, maximal, prune, HeldAt
    <2> QED BY <1>2, <2>1
  <1>4. is_tomb(s) => t.hist = Empty /\ \A k \in Keys : \A v \in t.cur[k] : ~covers(t.c, v)
    BY <1>2 DEF Empty, late
  <1> HIDE DEF cur, hist
  <1>5. is_tomb(t) <=> is_tomb(s)
    BY <1>2 DEF is_tomb
  <1>6. StateOK(t, ops)
    BY <1>2, <1>3, <1>4, <1>5 DEF StateOK
  <1> QED BY <1>2, <1>6

LEMMA WithoutOK ==
  ASSUME NEW ops, NEW s, StateOK(s, ops), NEW v, NEW t, t = Without(s, v)
  PROVE  StateOK(t, ops) /\ t.purge = s.purge /\ t.key = s.key
  <1> DEFINE cut_at(f) == [k \in Keys |-> IF k \in Fields THEN f[k] \ {v} ELSE f[k]]
  <1>1. /\ s.cur \in [Keys -> SUBSET ops] /\ s.hist \in [Keys -> SUBSET ops]
        /\ s = [vv |-> s.vv, cur |-> s.cur, hist |-> s.hist, purge |-> s.purge,
                key |-> s.key, c |-> s.c]
    BY DEF StateOK
  <1>2. /\ t.vv = s.vv /\ t.c = s.c /\ t.purge = s.purge /\ t.key = s.key
        /\ t.cur = cut_at(s.cur) /\ t.hist = cut_at(s.hist)
        /\ t = [vv |-> t.vv, cur |-> t.cur, hist |-> t.hist, purge |-> t.purge,
                key |-> t.key, c |-> t.c]
    BY <1>1 DEF Without
  <1>3. /\ t.cur \in [Keys -> SUBSET ops] /\ t.hist \in [Keys -> SUBSET ops]
        /\ \A k \in Keys : t.cur[k] \subseteq s.cur[k] /\ t.hist[k] \subseteq s.hist[k]
    BY <1>1, <1>2
  <1> HIDE DEF cut_at
  <1>4. is_tomb(t) <=> is_tomb(s)
    BY <1>2 DEF is_tomb
  <1>5. is_tomb(s) => t.hist = Empty
    BY <1>3, ZenonT(60) DEF StateOK, Empty
  <1>6. StateOK(t, ops)
    BY <1>2, <1>3, <1>4, <1>5 DEF StateOK
  <1> QED BY <1>2, <1>6

LEMMA RekeyOK ==
  ASSUME NEW ops, NEW s, StateOK(s, ops), NEW own, NEW t, t = Rekey(s, own)
  PROVE  /\ StateOK(t, ops) /\ t.purge = s.purge /\ t.c = s.c
         /\ t.key = (s.key \/ s.purge \in own)
  <1>1. /\ t = [vv |-> s.vv, cur |-> s.cur, hist |-> s.hist, purge |-> s.purge,
                key |-> t.key, c |-> s.c]
        /\ t.key = (s.key \/ s.purge \in own)
    BY DEF Rekey, StateOK
  <1>2. is_tomb(t) <=> is_tomb(s)
    BY <1>1 DEF is_tomb
  <1> QED BY <1>1, <1>2 DEF StateOK


(***************************************************************************)
(* The initial state                                                       *)
(***************************************************************************)

LEMMA CreatedOK == OpOK(created) /\ created.kind = "edit"
  <1> DEFINE first == CHOOSE d \in Holders : \A e \in Holders : DeviceOrder[d] <= DeviceOrder[e]
             T == {DeviceOrder[d] : d \in Holders}
  <1>1. T \in SUBSET Nat /\ T # {}
    BY ItemAssumption
  <1>2. PICK x \in T : \A y \in T : x <= y
    <2> HIDE DEF T
    <2> QED BY <1>1, LeastElement
  <1>3. \E d \in Holders : \A e \in Holders : DeviceOrder[d] <= DeviceOrder[e]
    BY <1>2
  <1>4. first \in Holders
    BY <1>3
  <1> HIDE DEF first
  <1>5. first \in Devices /\ MaxOps \in Nat
    BY <1>4, ItemAssumption
  <1>6. created = [dev |-> first, seq |-> 1, hlc |-> 0, ctx |-> ZeroVV, kind |-> "edit",
                   writes |-> Fields]
    BY DEF created, first
  <1> QED BY <1>5, <1>6 DEF OpOK, VV, ZeroVV

LEMMA ItemInit == Init => ItemInv
  <1> SUFFICES ASSUME Init PROVE ItemInv
    OBVIOUS
  <1>1. PICK s : s = singleton(created)
    OBVIOUS
  <1>2. PICK j : j = join_into(Absent, s)
    OBVIOUS
  <1>3. /\ rep = [d \in Devices |-> IF d \in Holders THEN FirstReplica ELSE NewReplica]
        /\ log = {created} /\ sent = add(ZeroVV, created) /\ snaps = {} /\ rekeyed = {}
    BY DEF Init
  <1>4. ZeroVV \in VV
    BY DEF VV, ZeroVV
  <1>5. LogInv
    BY <1>3, <1>4, CreatedOK, CoverFacts, FS_Singleton DEF LogInv
  <1>6. StateOK(Absent, log) /\ ~is_tomb(Absent)
    BY AbsentOK
  <1>7. StateOK(s, log) /\ ~is_tomb(s)
    BY <1>1, <1>3, CreatedOK, SingletonOK DEF StateOK
  <1>8. StateOK(j, log) /\ PurgeFrom(j, Absent, s)
    BY <1>2, <1>5, <1>6, <1>7, JoinOK DEF LogInv
  <1>9. ~is_tomb(j)
    BY <1>6, <1>7, <1>8 DEF PurgeFrom
  <1>10. FirstReplica.state = j /\ FirstReplica.outbox = {} /\ FirstReplica.headers = {created}
         /\ Replica(FirstReplica)
    <2>1. PICK n : n = NewReplica
      OBVIOUS
    <2>2. Replica(n) /\ n.outbox = {}
      BY <2>1 DEF NewReplica, Replica
    <2>3. FirstReplica = [n EXCEPT !.headers = {created}, !.bodies = {created},
                                   !.merged = {created}, !.retained = {created},
                                   !.count = 1, !.state = j]
      BY <1>1, <1>2, <2>1, Zenon DEF FirstReplica
    <2> QED BY <2>2, <2>3 DEF Replica
  <1>11. NewReplica.state = Absent /\ NewReplica.outbox = {} /\ NewReplica.headers = {}
         /\ Replica(NewReplica)
    BY DEF NewReplica, Replica
  <1>12. ASSUME NEW d \in Devices PROVE ReplicaOK(d, FirstReplica) /\ ReplicaOK(d, NewReplica)
    BY <1>3, <1>6, <1>8, <1>9, <1>10, <1>11 DEF ReplicaOK, RecordOK, KeyOK, StoredFor
  <1> QED BY <1>3, <1>5, <1>12 DEF ItemInv

(***************************************************************************)
(* The steps                                                               *)
(***************************************************************************)

\* What is asked of a record is kept as the log and the stored part grow.
LEMMA RecordGrows ==
  ASSUME ItemInv, LogInv', log \subseteq log', leq(sent, sent'), rekeyed' = rekeyed,
         NEW d \in Devices, NEW s, RecordOK(d, s)
  PROVE  RecordOK(d, s)'
  <1>1. StateOK(s, log')
    BY StateGrows DEF RecordOK
  <1>2. is_tomb(s) => OpOK(s.purge)
    BY DEF RecordOK, StateOK, ItemInv, LogInv
  <1>3. StoredFor(d, s, sent')
    BY <1>2, CoverFacts DEF StoredFor, RecordOK, ItemInv, LogInv
  <1> QED BY <1>1, <1>3 DEF RecordOK

LEMMA SnapGrows ==
  ASSUME ItemInv, LogInv', log \subseteq log', leq(sent, sent'), rekeyed' = rekeyed,
         NEW snap, SnapOK(snap)
  PROVE  SnapOK(snap)'
  <1>1. StateOK(snap.state, log')
    BY StateGrows DEF SnapOK
  <1>2. is_tomb(snap.state) => OpOK(snap.state.purge)
    BY DEF SnapOK, StateOK, ItemInv, LogInv
  <1>3. is_tomb(snap.state) => covers(sent', snap.state.purge)
    BY <1>2, CoverFacts DEF SnapOK, ItemInv, LogInv
  <1> QED BY <1>1, <1>3 DEF SnapOK

LEMMA StandsStill ==
  ASSUME ItemInv, NEW d \in Devices
  PROVE  Stands(rep[d].state, rep[d].state)
  <1>1. rep[d].state.c \in VV
    BY DEF ItemInv, ReplicaOK, RecordOK, StateOK
  <1>2. leq(rep[d].state.c, rep[d].state.c)
    BY <1>1 DEF leq, VV
  <1> QED BY <1>2 DEF Stands

\* A step that changes one replica, and may add an op.
LEMMA OneReplica ==
  ASSUME ItemInv, LogInv', log \subseteq log', NEW d \in Devices, NEW q,
         rep' = [rep EXCEPT ![d] = q], UNCHANGED <<sent, snaps, rekeyed>>,
         ReplicaOK(d, q)', Stands(rep[d].state, q.state)
  PROVE  ItemInv' /\ PurgeKept
  <1>1. leq(sent, sent')
    BY DEF ItemInv, LogInv, leq, VV
  <1>2. rep = [e \in Devices |-> rep[e]]
    BY DEF ItemInv
  <1>3. rep' = [e \in Devices |-> rep'[e]] /\ \A e \in Devices : rep'[e] = IF e = d THEN q ELSE rep[e]
    BY <1>2
  <1>4. ASSUME NEW e \in Devices PROVE ReplicaOK(e, rep[e])'
    <2>1. CASE e = d
      BY <1>3, <2>1 DEF ReplicaOK, RecordOK
    <2>2. CASE e # d
      <3>1. rep'[e] = rep[e] /\ ReplicaOK(e, rep[e])
        BY <1>3, <2>2 DEF ItemInv
      <3>2. PICK r : r = rep[e]
        OBVIOUS
      <3>3. Replica(r) /\ r.headers \subseteq log' /\ RecordOK(e, r.state)
            /\ \A snap \in r.outbox : RecordOK(e, snap.state)
        BY <3>1, <3>2 DEF ReplicaOK
      <3>4. RecordOK(e, r.state)' /\ \A snap \in r.outbox : RecordOK(e, snap.state)'
        BY <1>1, <3>3, RecordGrows
      <3>5. ReplicaOK(e, r)'
        BY <3>3, <3>4 DEF ReplicaOK
      <3> QED BY <3>1, <3>2, <3>5 DEF ReplicaOK, RecordOK
    <2> QED BY <2>1, <2>2
  <1>5. \A snap \in snaps' : SnapOK(snap)'
    BY <1>1, SnapGrows DEF ItemInv
  <1>6. \A e \in Devices : Stands(rep[e].state, rep[e].state)
    BY StandsStill
  <1>7. PurgeKept
    BY <1>3, <1>6 DEF PurgeKept
  <1> QED BY <1>3, <1>4, <1>5, <1>7 DEF ItemInv

\* merge_body of an op that is the device's own or stored.
LEMMA MergeBodyOK ==
  ASSUME NEW ops, \A o \in ops : OpOK(o), NEW q, Replica(q), NEW d, NEW stored,
         StateOK(q.state, ops), KeyOK(q.state, rekeyed), StoredFor(d, q.state, stored),
         NEW op \in ops, op.dev # d => covers(stored, op), NEW p, p = merge_body(q, op)
  PROVE  /\ Replica(p) /\ p.headers = q.headers \cup {op} /\ p.outbox = q.outbox
         /\ StateOK(p.state, ops) /\ KeyOK(p.state, rekeyed) /\ StoredFor(d, p.state, stored)
         /\ Stands(q.state, p.state)
  <1>1. PICK s : s = singleton(op)
    OBVIOUS
  <1>2. PICK a : a = q.state
    OBVIOUS
  <1>3. PICK j : j = join_into(a, s)
    OBVIOUS
  <1>4. /\ Replica(p) /\ p.headers = q.headers \cup {op} /\ p.outbox = q.outbox
        /\ p.state = j
    BY <1>1, <1>2, <1>3 DEF merge_body, Replica
  <1>5. StateOK(s, ops) /\ KeyOK(s, rekeyed) /\ (is_tomb(s) => s.purge = op)
    BY <1>1, SingletonOK
  <1>6. StateOK(j, ops) /\ PurgeFrom(j, a, s) /\ Stands(a, j)
    BY <1>2, <1>3, <1>5, JoinOK DEF Stands
  <1>7. KeyOK(j, rekeyed)
    BY <1>2, <1>5, <1>6, Zenon DEF KeyOK, PurgeFrom
  <1>8. StoredFor(d, j, stored)
    BY <1>2, <1>5, <1>6, Zenon DEF StoredFor, PurgeFrom
  <1> QED BY <1>2, <1>4, <1>6, <1>7, <1>8


LEMMA WriteKeeps ==
  ASSUME ItemInv, NEW d \in Devices, NEW kind, NEW W, NEW now, NEW fresh,
         Write(d, kind, W, now, fresh)
  PROVE  ItemInv' /\ PurgeKept
  <1>1. PICK q : q = rep[d]
    OBVIOUS
  <1>2. PICK op : op = [dev |-> d, seq |-> Cardinality(Own(d)) + 1, hlc |-> tick(q.clock, now),
                        ctx |-> q.state.vv, kind |-> kind, writes |-> W]
    OBVIOUS
  <1>3. PICK p : p = merge_body(q, op)
    OBVIOUS
  <1>4. PICK due : due = (q.pending \/ fresh \/ kind = "purge" \/ p.count > SNAPSHOT_AFTER_OPS)
    OBVIOUS
  <1>5. PICK r : r = [p EXCEPT !.clock = op.hlc, !.pending = due]
    OBVIOUS
  <1>6. /\ op.seq <= MaxOps /\ rep' = [rep EXCEPT ![d] = r] /\ log' = log \cup {op}
        /\ UNCHANGED <<sent, snaps, rekeyed>>
    BY <1>1, <1>2, <1>3, <1>4, <1>5, Zenon DEF Write
  <1>7. ReplicaOK(d, q) /\ IsFiniteSet(log) /\ (\A o \in log : OpOK(o)) /\ sent \in VV
    BY <1>1 DEF ItemInv, LogInv
  <1>8. Cardinality(Own(d)) \in Nat
    <2>1. Own(d) \in SUBSET log
      BY DEF Own
    <2>2. IsFiniteSet(Own(d))
      BY <1>7, <2>1, FS_Subset
    <2> QED BY <2>2, FS_CardinalityType
  <1>9. OpOK(op) /\ op.dev = d
    BY <1>2, <1>6, <1>7, <1>8, ItemAssumption DEF OpOK, ReplicaOK, RecordOK, StateOK
  <1>10. LogInv'
    BY <1>6, <1>7, <1>9, FS_AddElement DEF LogInv
  <1>11. /\ Replica(q) /\ StateOK(q.state, log) /\ KeyOK(q.state, rekeyed)
         /\ StoredFor(d, q.state, sent)
    BY <1>7 DEF ReplicaOK, RecordOK
  <1>12. StateOK(q.state, log')
    BY <1>6, <1>11, StateGrows
  <1>13. \A o \in log' : OpOK(o)
    BY <1>10 DEF LogInv
  <1>14. PICK ops : ops = log'
    OBVIOUS
  <1>15. PICK stored : stored = sent
    OBVIOUS
  <1>16. /\ Replica(p) /\ p.headers = q.headers \cup {op} /\ p.outbox = q.outbox
         /\ StateOK(p.state, ops) /\ KeyOK(p.state, rekeyed) /\ StoredFor(d, p.state, stored)
         /\ Stands(q.state, p.state)
    <2>1. /\ StateOK(q.state, ops) /\ (\A o \in ops : OpOK(o)) /\ op \in ops
          /\ StoredFor(d, q.state, stored)
      BY <1>6, <1>11, <1>12, <1>13, <1>14, <1>15
    <2> QED BY <1>3, <1>9, <1>11, <2>1, MergeBodyOK
  <1>17. Replica(r) /\ r.headers = p.headers /\ r.outbox = p.outbox /\ r.state = p.state
    BY <1>5, <1>16 DEF Replica
  <1>18. leq(sent, sent')
    BY <1>6, <1>7 DEF leq, VV
  <1>19. \A snap \in r.outbox : RecordOK(d, snap.state)'
    BY <1>6, <1>7, <1>10, <1>16, <1>17, <1>18, RecordGrows DEF ReplicaOK
  <1>20. ReplicaOK(d, r)'
    BY <1>6, <1>7, <1>14, <1>15, <1>16, <1>17, <1>19 DEF ReplicaOK, RecordOK
  <1>21. Stands(rep[d].state, r.state)
    BY <1>1, <1>16, <1>17
  <1> QED BY <1>6, <1>10, <1>20, <1>21, OneReplica

LEMMA HeaderKeeps ==
  ASSUME ItemInv, NEW d \in Devices, NEW op, record_header(d, op)
  PROVE  ItemInv' /\ PurgeKept
  <1>1. PICK r : r = [rep[d] EXCEPT !.headers = @ \cup {op}]
    OBVIOUS
  <1>2. /\ op \in log /\ rep' = [rep EXCEPT ![d] = r]
        /\ UNCHANGED <<log, sent, snaps, rekeyed>>
    BY <1>1 DEF record_header, Published
  <1>3. ReplicaOK(d, rep[d]) /\ LogInv
    BY DEF ItemInv
  <1>4. /\ Replica(r) /\ r.headers = rep[d].headers \cup {op}
        /\ r.outbox = rep[d].outbox /\ r.state = rep[d].state
    BY <1>1, <1>3 DEF ReplicaOK, Replica
  <1>5. LogInv'
    BY <1>2, <1>3 DEF LogInv
  <1>6. ReplicaOK(d, r)'
    BY <1>2, <1>3, <1>4 DEF ReplicaOK, RecordOK
  <1>7. Stands(rep[d].state, r.state)
    BY <1>4, StandsStill
  <1> QED BY <1>2, <1>5, <1>6, <1>7, OneReplica

LEMMA ApplyKeeps ==
  ASSUME ItemInv, NEW d \in Devices, NEW op, NEW now, apply_op(d, op, now)
  PROVE  ItemInv' /\ PurgeKept
  <1>1. PICK q : q = rep[d]
    OBVIOUS
  <1>2. PICK p : p = merge_body(q, op)
    OBVIOUS
  <1>3. PICK r : r = [p EXCEPT !.clock = IF covers(q.state.vv, op) THEN @
                                         ELSE receive(@, op.hlc, now)]
    OBVIOUS
  <1>4. /\ op \in log /\ covers(sent, op) /\ rep' = [rep EXCEPT ![d] = r]
        /\ UNCHANGED <<log, sent, snaps, rekeyed>>
    BY <1>1, <1>2, <1>3, Zenon DEF apply_op, Published
  <1>5. ReplicaOK(d, q) /\ LogInv
    BY <1>1 DEF ItemInv
  <1>6. PICK ops, stored : ops = log /\ stored = sent
    OBVIOUS
  <1>7. /\ Replica(q) /\ StateOK(q.state, ops) /\ KeyOK(q.state, rekeyed)
        /\ StoredFor(d, q.state, stored) /\ \A o \in ops : OpOK(o)
    BY <1>5, <1>6 DEF ReplicaOK, RecordOK, LogInv
  <1>8. /\ Replica(p) /\ p.headers = q.headers \cup {op} /\ p.outbox = q.outbox
        /\ StateOK(p.state, ops) /\ KeyOK(p.state, rekeyed) /\ StoredFor(d, p.state, stored)
        /\ Stands(q.state, p.state)
    BY <1>2, <1>4, <1>6, <1>7, MergeBodyOK
  <1>9. Replica(r) /\ r.headers = p.headers /\ r.outbox = p.outbox /\ r.state = p.state
    BY <1>3, <1>8 DEF Replica
  <1>10. LogInv'
    BY <1>4, <1>5 DEF LogInv
  <1>11. ReplicaOK(d, r)'
    BY <1>4, <1>5, <1>6, <1>8, <1>9 DEF ReplicaOK, RecordOK
  <1>12. Stands(rep[d].state, r.state)
    BY <1>1, <1>8, <1>9
  <1> QED BY <1>4, <1>10, <1>11, <1>12, OneReplica

LEMMA AbsorbKeeps ==
  ASSUME ItemInv, NEW d \in Devices, NEW snap \in snaps, NEW with \in SUBSET log, NEW now,
         absorb_snapshot(d, snap, with, now)
  PROVE  ItemInv' /\ PurgeKept
  <1> DEFINE Q == [rep[d] EXCEPT !.headers = @ \cup with, !.bodies = @ \cup with]
             Taken == cut(snap.state, Q.headers)
             Base == join_into(Q.base, normalize(Taken))
             Folded == {o \in Q.retained : covers(Base.vv, o)}
             P == [Q EXCEPT
                     !.state = join_into(@, normalize(Taken)),
                     !.base = fold(Base, Folded),
                     !.retained = @ \ Folded,
                     !.unresolved = @ \cup disagreements(Q.state, Taken, Q.headers, Q.bodies),
                     !.merge_due = @ \/ Concurrent(Taken.vv, Q.state.vv),
                     !.clock = IF HlcsOf(Taken) = {} THEN @ ELSE receive(@, Max(HlcsOf(Taken)), now),
                     !.held_covers = @ \cup {snap},
                     !.clean = @ /\ snap.clean /\ whole(snap.state, Q.headers)]
  <1>1. /\ UNCHANGED <<log, sent, snaps, rekeyed>>
        /\ rep' = [rep EXCEPT ![d] =
                     IF refused(snap.state, Q.headers, Q.bodies) THEN Q ELSE P]
    BY DEF absorb_snapshot
  <1>2. PICK q : q = Q
    OBVIOUS
  <1> HIDE DEF Q
  <1>3. PICK taken : taken = Taken
    OBVIOUS
  <1>4. taken = cut(snap.state, q.headers)
    BY <1>2, <1>3
  <1>5. PICK norm : norm = normalize(taken)
    OBVIOUS
  <1>6. PICK j : j = join_into(q.state, norm)
    OBVIOUS
  <1>7. PICK p : p = P
    OBVIOUS
  <1>8. /\ UNCHANGED <<log, sent, snaps, rekeyed>>
        /\ rep' = [rep EXCEPT ![d] =
                     IF refused(snap.state, q.headers, q.bodies) THEN q ELSE p]
    BY <1>1, <1>2, <1>7
  <1>9. ReplicaOK(d, rep[d]) /\ LogInv /\ SnapOK(snap)
    BY DEF ItemInv
  <1>10. /\ Replica(q) /\ q.headers \subseteq log
         /\ q.outbox = rep[d].outbox /\ q.state = rep[d].state
    BY <1>2, <1>9 DEF ReplicaOK, Replica, Q
  <1>11. LogInv'
    BY <1>8, <1>9 DEF LogInv
  <1>12. CASE refused(snap.state, q.headers, q.bodies)
    <2>1. rep' = [rep EXCEPT ![d] = q]
      BY <1>8, <1>12
    <2>2. ReplicaOK(d, q)'
      BY <1>8, <1>9, <1>10 DEF ReplicaOK, RecordOK
    <2>3. Stands(rep[d].state, q.state)
      BY <1>10, StandsStill
    <2> QED BY <1>8, <1>11, <2>1, <2>2, <2>3, OneReplica
  <1>13. CASE ~refused(snap.state, q.headers, q.bodies)
    <2>1. rep' = [rep EXCEPT ![d] = p]
      BY <1>8, <1>13
    <2>2. /\ Replica(p) /\ p.headers = q.headers /\ p.outbox = q.outbox /\ p.state = j
      BY <1>2, <1>3, <1>5, <1>6, <1>7, <1>10 DEF Replica
    <2>3. PICK ops, s, a, h : ops = log /\ s = snap.state /\ a = q.state /\ h = q.headers
      OBVIOUS
    <2>4. /\ StateOK(s, ops) /\ KeyOK(s, rekeyed) /\ (is_tomb(s) => covers(sent, s.purge))
          /\ StateOK(a, ops) /\ KeyOK(a, rekeyed) /\ StoredFor(d, a, sent)
          /\ \A o \in ops : OpOK(o)
      BY <1>9, <1>10, <2>3 DEF SnapOK, ReplicaOK, RecordOK, LogInv
    <2>5. ~PurgeAboveCut(s, h) /\ h \in SUBSET ops /\ taken = cut(s, h)
      BY <1>4, <1>10, <1>13, <2>3, Zenon DEF refused
    <2>6. StateOK(taken, ops) /\ taken.purge = s.purge /\ taken.key = s.key
      BY <2>4, <2>5, CutOK
    <2>7. StateOK(norm, ops) /\ norm.purge = taken.purge /\ norm.key = taken.key
      BY <1>5, <2>6, NormalizeOK
    <2>8. StateOK(j, ops) /\ PurgeFrom(j, a, norm) /\ Stands(a, j)
      BY <1>6, <2>3, <2>4, <2>7, JoinOK DEF Stands
    <2>9. norm.purge = s.purge /\ norm.key = s.key
      BY <2>6, <2>7
    <2>10. KeyOK(j, rekeyed)
      BY <2>4, <2>8, <2>9, Zenon DEF KeyOK, PurgeFrom, is_tomb
    <2>11. StoredFor(d, j, sent)
      BY <2>4, <2>8, <2>9, Zenon DEF StoredFor, PurgeFrom, is_tomb
    <2>12. ReplicaOK(d, p)'
      BY <1>8, <1>9, <1>10, <2>2, <2>3, <2>8, <2>10, <2>11 DEF ReplicaOK, RecordOK
    <2>13. Stands(rep[d].state, p.state)
      BY <1>10, <2>2, <2>3, <2>8
    <2> QED BY <1>8, <1>11, <2>1, <2>12, <2>13, OneReplica
  <1> QED BY <1>12, <1>13

LEMMA EndFetchKeeps ==
  ASSUME ItemInv, NEW d \in Devices, end_fetch(d)
  PROVE  ItemInv' /\ PurgeKept
  <1>1. PICK r : r = [rep[d] EXCEPT !.merge_due = FALSE, !.pending = TRUE]
    OBVIOUS
  <1>2. rep = [e \in Devices |-> rep[e]] /\ ReplicaOK(d, rep[d]) /\ LogInv
    BY DEF ItemInv
  <1>3. rep' = [rep EXCEPT ![d] = r] /\ UNCHANGED <<log, sent, snaps, rekeyed>>
    BY <1>1, <1>2 DEF end_fetch
  <1>4. /\ Replica(r) /\ r.headers = rep[d].headers
        /\ r.outbox = rep[d].outbox /\ r.state = rep[d].state
    BY <1>1, <1>2 DEF ReplicaOK, Replica
  <1>5. LogInv'
    BY <1>2, <1>3 DEF LogInv
  <1>6. ReplicaOK(d, r)'
    BY <1>2, <1>3, <1>4 DEF ReplicaOK, RecordOK
  <1>7. Stands(rep[d].state, r.state)
    BY <1>4, StandsStill
  <1> QED BY <1>3, <1>5, <1>6, <1>7, OneReplica

LEMMA SnapshotKeeps ==
  ASSUME ItemInv, NEW d \in Devices, NEW lost, write_snapshot(d, lost)
  PROVE  ItemInv' /\ PurgeKept
  <1> DEFINE Q == rep[d]
             Lost == Without(Q.state, lost)
             Snap == [author |-> d, state |-> Lost, clean |-> Q.clean /\ Lost = Q.state]
             P == [Q EXCEPT !.pending = FALSE]
             R == [P EXCEPT !.base = Q.state, !.retained = {}, !.count = 0,
                            !.outbox = @ \cup {Snap}]
  <1>1. /\ UNCHANGED <<log, sent, snaps, rekeyed>>
        /\ rep' = [rep EXCEPT ![d] = P] \/ rep' = [rep EXCEPT ![d] = R]
    BY DEF write_snapshot
  <1>2. PICK q : q = Q
    OBVIOUS
  <1>3. PICK s : s = Lost
    OBVIOUS
  <1>4. PICK snap : snap = Snap
    OBVIOUS
  <1>5. ReplicaOK(d, q) /\ LogInv
    BY <1>2 DEF ItemInv
  <1>6. snap.state = s
    BY <1>3, <1>4
  <1>7. RecordOK(d, s)
    <2>1. PICK a, ops : a = q.state /\ ops = log
      OBVIOUS
    <2>2. StateOK(a, ops) /\ KeyOK(a, rekeyed) /\ StoredFor(d, a, sent)
      BY <1>5, <2>1 DEF ReplicaOK, RecordOK
    <2>3. s = Without(a, lost)
      BY <1>2, <1>3, <2>1
    <2>4. StateOK(s, ops) /\ s.purge = a.purge /\ s.key = a.key
      BY <2>2, <2>3, WithoutOK
    <2>5. KeyOK(s, rekeyed) /\ StoredFor(d, s, sent)
      BY <2>2, <2>4, Zenon DEF KeyOK, StoredFor, is_tomb
    <2> QED BY <2>1, <2>4, <2>5 DEF RecordOK
  <1>8. LogInv'
    BY <1>1, <1>5 DEF LogInv
  <1>9. PICK p : p = P
    OBVIOUS
  <1>10. PICK r : r = R
    OBVIOUS
  <1>11. /\ Replica(p) /\ p.headers = q.headers /\ p.outbox = q.outbox /\ p.state = q.state
    BY <1>2, <1>5, <1>9 DEF ReplicaOK, Replica
  <1>12. /\ Replica(r) /\ r.headers = q.headers /\ r.outbox = q.outbox \cup {snap}
         /\ r.state = q.state
    <2>1. r = [p EXCEPT !.base = q.state, !.retained = {}, !.count = 0,
                        !.outbox = @ \cup {snap}]
      BY <1>2, <1>4, <1>9, <1>10
    <2> HIDE DEF Q, Lost, Snap, P, R
    <2> QED BY <1>11, <2>1 DEF Replica
  <1> HIDE DEF Q, Lost, Snap, P, R
  <1>13. ReplicaOK(d, p)'
    BY <1>1, <1>5, <1>11 DEF ReplicaOK, RecordOK
  <1>14. ReplicaOK(d, r)'
    BY <1>1, <1>5, <1>6, <1>7, <1>12 DEF ReplicaOK, RecordOK
  <1>15. Stands(rep[d].state, p.state) /\ Stands(rep[d].state, r.state)
    BY <1>2, <1>11, <1>12, StandsStill DEF Q
  <1> QED BY <1>1, <1>8, <1>9, <1>10, <1>13, <1>14, <1>15, OneReplica

LEMMA UploadOpsKeeps ==
  ASSUME ItemInv, NEW d \in Devices, upload_ops(d)
  PROVE  ItemInv' /\ PurgeKept
  <1>1. /\ sent[d] < Cardinality(Own(d))
        /\ sent' = [sent EXCEPT ![d] = Cardinality(Own(d))]
        /\ UNCHANGED <<rep, log, snaps, rekeyed>>
    BY DEF upload_ops
  <1>2. LogInv /\ sent \in VV
    BY DEF ItemInv, LogInv
  <1>3. Cardinality(Own(d)) \in Nat
    <2>1. Own(d) \in SUBSET log
      BY DEF Own
    <2>2. IsFiniteSet(Own(d))
      BY <1>2, <2>1, FS_Subset DEF LogInv
    <2> QED BY <2>2, FS_CardinalityType
  <1>4. sent' \in VV /\ leq(sent, sent')
    BY <1>1, <1>2, <1>3 DEF VV, leq
  <1>5. LogInv'
    BY <1>1, <1>2, <1>4 DEF LogInv
  <1>6. ASSUME NEW e \in Devices PROVE ReplicaOK(e, rep[e])'
    <2>1. PICK r : r = rep[e]
      OBVIOUS
    <2>2. ReplicaOK(e, r)
      BY <2>1 DEF ItemInv
    <2>3. RecordOK(e, r.state)' /\ \A snap \in r.outbox : RecordOK(e, snap.state)'
      BY <1>1, <1>4, <1>5, <2>2, RecordGrows DEF ReplicaOK
    <2> QED BY <1>1, <2>1, <2>2, <2>3 DEF ReplicaOK, RecordOK
  <1>7. \A snap \in snaps' : SnapOK(snap)'
    BY <1>1, <1>4, <1>5, SnapGrows DEF ItemInv
  <1>8. PurgeKept
    BY <1>1, StandsStill DEF PurgeKept
  <1> QED BY <1>1, <1>5, <1>6, <1>7, <1>8 DEF ItemInv

LEMMA UploadSnapshotKeeps ==
  ASSUME ItemInv, NEW d \in Devices, NEW snap, upload_snapshot(d, snap)
  PROVE  ItemInv' /\ PurgeKept
  <1>1. PICK r : r = [rep[d] EXCEPT !.outbox = @ \ {snap}]
    OBVIOUS
  <1>2. /\ snap \in rep[d].outbox /\ snap.state.vv[d] <= sent[d]
        /\ snaps' = snaps \cup {snap} /\ rep' = [rep EXCEPT ![d] = r]
        /\ UNCHANGED <<log, sent, rekeyed>>
    BY <1>1 DEF upload_snapshot
  <1>3. /\ LogInv /\ ReplicaOK(d, rep[d]) /\ rep = [e \in Devices |-> rep[e]]
    BY DEF ItemInv
  <1>4. RecordOK(d, snap.state)
    BY <1>2, <1>3 DEF ReplicaOK
  <1>5. is_tomb(snap.state) => covers(sent, snap.state.purge)
    <2>1. SUFFICES ASSUME is_tomb(snap.state), snap.state.purge.dev = d
                   PROVE  covers(sent, snap.state.purge)
      BY <1>4 DEF RecordOK, StoredFor
    <2>2. /\ covers(snap.state.vv, snap.state.purge) /\ snap.state.vv \in VV
          /\ OpOK(snap.state.purge) /\ sent \in VV
      BY <1>3, <1>4, <2>1 DEF RecordOK, StateOK, LogInv
    <2>3. snap.state.vv[d] \in Nat /\ sent[d] \in Nat
      BY <2>2 DEF VV
    <2> QED BY <1>2, <2>1, <2>2, <2>3 DEF covers, OpOK
  <1>6. /\ Replica(r) /\ r.headers = rep[d].headers
        /\ r.outbox = rep[d].outbox \ {snap} /\ r.state = rep[d].state
    BY <1>1, <1>3 DEF ReplicaOK, Replica
  <1>7. LogInv'
    BY <1>2, <1>3 DEF LogInv
  <1>8. rep' = [e \in Devices |-> rep'[e]] /\ \A e \in Devices : rep'[e] = IF e = d THEN r ELSE rep[e]
    BY <1>2, <1>3
  <1>9. ASSUME NEW e \in Devices PROVE ReplicaOK(e, rep[e])'
    <2>1. CASE e = d
      BY <1>2, <1>3, <1>6, <1>8, <2>1 DEF ReplicaOK, RecordOK
    <2>2. CASE e # d
      BY <1>2, <1>8, <2>2 DEF ReplicaOK, RecordOK, ItemInv
    <2> QED BY <2>1, <2>2
  <1>10. \A t \in snaps' : SnapOK(t)'
    BY <1>2, <1>4, <1>5 DEF SnapOK, RecordOK, ItemInv
  <1>11. PurgeKept
    BY <1>6, <1>8, StandsStill DEF PurgeKept
  <1> QED BY <1>7, <1>8, <1>9, <1>10, <1>11 DEF ItemInv


\* A re-issue gives a new key to no purge that is stored.
LEMMA KeyStays ==
  ASSUME NEW s, NEW old, NEW new, KeyOK(s, old), old \subseteq new,
         is_tomb(s) => s.purge \notin new \ old
  PROVE  KeyOK(s, new)
  <1>1. is_tomb(s) => (s.purge \in new <=> s.purge \in old)
    OBVIOUS
  <1> QED BY <1>1 DEF KeyOK

LEMMA ReissueKeeps ==
  ASSUME ItemInv, NEW d \in Devices, NEW fresh, reissue_stale(d, fresh)
  PROVE  ItemInv' /\ PurgeKept
  <1>1. PICK ops : ops = {o \in Own(d) : o.seq > sent[d]}
    OBVIOUS
  <1>2. PICK discarded : discarded = discards(d)
    OBVIOUS
  <1>3. PICK due : due = (rep[d].pending \/ fresh \/ discarded # {})
    OBVIOUS
  <1>4. PICK s, b : s = Rekey(rep[d].state, ops) /\ b = Rekey(rep[d].base, ops)
    OBVIOUS
  <1>5. PICK r : r = [rep[d] EXCEPT !.state = s, !.base = b, !.outbox = @ \ discarded,
                                    !.pending = due]
    OBVIOUS
  <1>6. LogInv /\ ReplicaOK(d, rep[d]) /\ rep = [e \in Devices |-> rep[e]]
    BY DEF ItemInv
  <1>7. /\ rekeyed' = rekeyed \cup {o \in ops : o.kind = "purge"}
        /\ rep' = [rep EXCEPT ![d] = r]
        /\ UNCHANGED <<log, sent, snaps>>
    <2>1. /\ rekeyed' = rekeyed \cup {o \in ops : o.kind = "purge"}
          /\ UNCHANGED <<log, sent, snaps>>
      BY <1>1 DEF reissue_stale
    <2>2. rep' = [rep EXCEPT ![d] =
                    [rep[d] EXCEPT !.state = Rekey(@, ops), !.base = Rekey(@, ops),
                                   !.outbox = @ \ discarded,
                                   !.pending = @ \/ fresh \/ discarded # {}]]
      BY <1>1, <1>2 DEF reissue_stale
    <2>3. r = [rep[d] EXCEPT !.state = Rekey(@, ops), !.base = Rekey(@, ops),
                             !.outbox = @ \ discarded,
                             !.pending = @ \/ fresh \/ discarded # {}]
      BY <1>3, <1>4, <1>5
    <2> QED BY <2>1, <2>2, <2>3
  <1>8. LogInv'
    BY <1>6, <1>7 DEF LogInv
  <1>9. rep' = [e \in Devices |-> rep'[e]] /\ \A e \in Devices : rep'[e] = IF e = d THEN r ELSE rep[e]
    BY <1>6, <1>7
  <1>10. \A o \in ops : o.dev = d /\ ~covers(sent, o)
    <2>1. SUFFICES ASSUME NEW o \in ops PROVE o.dev = d /\ ~covers(sent, o)
      OBVIOUS
    <2>2. o \in log /\ o.dev = d /\ o.seq > sent[d] /\ OpOK(o) /\ sent \in VV
      BY <1>1, <1>6, <2>1 DEF Own, LogInv
    <2>3. o.seq \in Nat /\ sent[d] \in Nat
      BY <2>2 DEF OpOK, VV
    <2> QED BY <2>2, <2>3 DEF covers
  <1>11. PICK old, new : old = rekeyed /\ new = rekeyed'
    OBVIOUS
  <1>12. ASSUME NEW t, KeyOK(t, rekeyed), is_tomb(t) => t.purge \notin ops
         PROVE  KeyOK(t, rekeyed')
    <2>1. old \subseteq new /\ new \ old \subseteq ops
      BY <1>7, <1>11
    <2> QED BY <1>11, <1>12, <2>1, KeyStays
  <1>13. ASSUME NEW e \in Devices, e # d PROVE ReplicaOK(e, rep[e])'
    <2>1. ReplicaOK(e, rep[e]) /\ rep'[e] = rep[e]
      BY <1>9, <1>13 DEF ItemInv
    <2>2. ASSUME NEW t, RecordOK(e, t) PROVE RecordOK(e, t)'
      <3>1. is_tomb(t) => t.purge \notin ops
        BY <1>10, <1>13, <2>2 DEF RecordOK, StoredFor
      <3> QED BY <1>7, <1>12, <2>2, <3>1 DEF RecordOK
    <2>3. PICK q : q = rep[e]
      OBVIOUS
    <2>4. RecordOK(e, q.state)' /\ \A snap \in q.outbox : RecordOK(e, snap.state)'
      BY <2>1, <2>2, <2>3 DEF ReplicaOK
    <2> QED BY <1>7, <2>1, <2>3, <2>4 DEF ReplicaOK, RecordOK
  <1>14. RecordOK(d, s)'
    <2>1. PICK a, all : a = rep[d].state /\ all = log
      OBVIOUS
    <2>2. StateOK(a, all) /\ KeyOK(a, rekeyed) /\ StoredFor(d, a, sent) /\ s = Rekey(a, ops)
      BY <1>4, <1>6, <2>1 DEF ReplicaOK, RecordOK
    <2>3. StateOK(s, all) /\ s.purge = a.purge /\ s.key = (a.key \/ a.purge \in ops)
      BY <2>2, RekeyOK
    <2>4. KeyOK(s, rekeyed')
      <3>1. SUFFICES ASSUME is_tomb(s) PROVE s.key = (s.purge \in rekeyed')
        BY DEF KeyOK
      <3>2. a.key = (a.purge \in rekeyed) /\ a.purge.kind = "purge"
        BY <2>2, <2>3, <3>1 DEF KeyOK, StateOK, is_tomb
      <3>3. a.purge \in rekeyed' <=> a.purge \in rekeyed \/ a.purge \in ops
        BY <1>7, <3>2
      <3>4. s.key = (a.purge \in rekeyed \/ a.purge \in ops)
        BY <2>3, <3>2, Zenon
      <3> QED BY <2>3, <3>3, <3>4
    <2>5. StoredFor(d, s, sent)
      BY <2>2, <2>3, Zenon DEF StoredFor, is_tomb
    <2> QED BY <1>7, <2>1, <2>3, <2>4, <2>5 DEF RecordOK
  <1>15. ASSUME NEW snap \in rep[d].outbox \ discarded PROVE RecordOK(d, snap.state)'
    <2>1. RecordOK(d, snap.state)
      BY <1>6 DEF ReplicaOK
    <2>2. is_tomb(snap.state) => snap.state.purge \notin ops
      <3>1. SUFFICES ASSUME is_tomb(snap.state), snap.state.purge \in ops PROVE FALSE
        OBVIOUS
      <3>2. /\ covers(snap.state.vv, snap.state.purge) /\ snap.state.vv \in VV
            /\ OpOK(snap.state.purge) /\ sent \in VV
            /\ snap.state.purge.dev = d /\ ~covers(sent, snap.state.purge)
        BY <1>6, <1>10, <2>1, <3>1 DEF RecordOK, StateOK, LogInv
      <3>3. ~(snap.state.vv[d] > sent[d])
        BY <1>2 DEF discards
      <3>4. snap.state.vv[d] \in Nat /\ sent[d] \in Nat
        BY <3>2 DEF VV
      <3> QED BY <3>2, <3>3, <3>4 DEF covers, OpOK
    <2> QED BY <1>7, <1>12, <2>1, <2>2 DEF RecordOK
  <1>16. /\ Replica(r) /\ r.headers = rep[d].headers
         /\ r.outbox = rep[d].outbox \ discarded /\ r.state = s
    BY <1>5, <1>6 DEF ReplicaOK, Replica
  <1>17. ReplicaOK(d, rep[d])'
    BY <1>6, <1>7, <1>9, <1>14, <1>15, <1>16 DEF ReplicaOK, RecordOK
  <1>18. ASSUME NEW snap \in snaps' PROVE SnapOK(snap)'
    <2>1. SnapOK(snap)
      BY <1>7 DEF ItemInv
    <2>2. is_tomb(snap.state) => snap.state.purge \notin ops
      BY <1>10, <2>1 DEF SnapOK
    <2> QED BY <1>7, <1>12, <2>1, <2>2 DEF SnapOK
  <1>19. \A e \in Devices : ReplicaOK(e, rep[e])'
    BY <1>13, <1>17
  <1>20. PurgeKept
    <2>1. StateOK(rep[d].state, log) /\ rep[d].state.c \in VV
      BY <1>6 DEF ReplicaOK, RecordOK, StateOK
    <2>2. s.purge = rep[d].state.purge /\ s.c = rep[d].state.c
      BY <1>4, <2>1 DEF StateOK, Rekey
    <2>3. Stands(rep[d].state, s)
      BY <2>1, <2>2 DEF Stands, is_tomb, leq, VV
    <2> QED BY <1>9, <1>16, <2>3, StandsStill DEF PurgeKept
  <1> QED BY <1>8, <1>9, <1>18, <1>19, <1>20 DEF ItemInv

LEMMA ItemNext == ItemInv /\ [Next]_vars => ItemInv' /\ PurgeKept
  <1> SUFFICES ASSUME ItemInv, [Next]_vars PROVE ItemInv' /\ PurgeKept
    OBVIOUS
  <1>1. CASE UNCHANGED vars
    <2>1. ItemInv'
      BY <1>1 DEF ItemInv, LogInv, ReplicaOK, RecordOK, SnapOK, vars
    <2> QED BY <1>1, <2>1, StandsStill DEF PurgeKept, vars
  <1>2. CASE Next
    <2>1. PICK d \in Devices :
            \/ \E now \in WallTimes[d], fresh \in BOOLEAN :
                 \/ \E f \in Fields : Write(d, "edit", {f}, now, fresh)
                 \/ \E kind \in Kinds \ {"edit"} : Write(d, kind, {}, now, fresh)
            \/ \E op \in log : record_header(d, op)
            \/ \E op \in log, now \in WallTimes[d] : apply_op(d, op, now)
            \/ \E snap \in snaps, now \in WallTimes[d] :
                 \E with \in {{}, Published \ rep[d].bodies} : absorb_snapshot(d, snap, with, now)
            \/ end_fetch(d)
            \/ \E lost \in {Nothing} \cup values(rep[d].state) : write_snapshot(d, lost)
            \/ upload_ops(d)
            \/ \E snap \in rep[d].outbox : upload_snapshot(d, snap)
            \/ \E fresh \in BOOLEAN : reissue_stale(d, fresh)
      BY <1>2 DEF Next
    <2>2. ASSUME NEW snap \in snaps, NEW now \in WallTimes[d],
                 NEW with \in {{}, Published \ rep[d].bodies}, absorb_snapshot(d, snap, with, now)
          PROVE  ItemInv' /\ PurgeKept
      <3>1. with \in SUBSET log
        BY DEF Published
      <3> QED BY <2>2, <3>1, AbsorbKeeps
    <2> QED BY <2>1, <2>2, WriteKeeps, HeaderKeeps, ApplyKeeps, EndFetchKeeps, SnapshotKeeps,
               UploadOpsKeeps, UploadSnapshotKeeps, ReissueKeeps
  <1> QED BY <1>1, <1>2

LEMMA ItemInvariant == Spec => []ItemInv
  BY ItemInit, ItemNext, PTL DEF Spec


(***************************************************************************)
(* The theorems                                                            *)
(***************************************************************************)

\* Every record of a purge, on a device or on the server, carries the key that
\* the purge has after reissue_stale, however purges, re-issues, discarded and
\* uploaded snapshots interleave.
THEOREM PurgeKeysStayRight == Spec => []PurgeKeyAgrees
  <1>1. ItemInv => PurgeKeyAgrees
    BY DEF ItemInv, ReplicaOK, RecordOK, SnapOK, KeyOK, PurgeKeyAgrees, key_id
  <1> QED BY <1>1, ItemInvariant, PTL

\* No op and no snapshot that a device takes, by whatever join, makes a purged
\* item live again or brings back a value that the purge had seen.
THEOREM PurgesStand == Spec => PurgeStands
  <1>1. ASSUME ItemInv, ItemInv', PurgeKept, NEW d \in Devices, is_tomb(rep[d].state)
        PROVE  /\ is_tomb(rep'[d].state) /\ leq(rep[d].state.c, rep'[d].state.c)
               /\ \A v \in values(rep'[d].state) : ~covers(rep[d].state.c, v)
    <2>1. PICK s, t, ops : s = rep[d].state /\ t = rep'[d].state /\ ops = log'
      OBVIOUS
    <2>2. StateOK(t, ops) /\ s.c \in VV /\ \A o \in ops : OpOK(o)
      BY <1>1, <2>1 DEF ItemInv, LogInv, ReplicaOK, RecordOK, StateOK
    <2>3. is_tomb(t) /\ leq(s.c, t.c)
      BY <1>1, <2>1 DEF PurgeKept, Stands
    <2>4. ASSUME NEW v \in values(t) PROVE ~covers(s.c, v)
      <3>1. PICK k \in Keys : v \in t.cur[k] \cup t.hist[k]
        BY <2>4 DEF values, HeldAt
      <3>2. v \in t.cur[k] /\ t.cur[k] \subseteq ops /\ t.c \in VV
        BY <2>2, <2>3, <3>1 DEF StateOK, Empty
      <3>3. ~covers(t.c, v) /\ OpOK(v)
        BY <2>2, <2>3, <3>2 DEF StateOK
      <3> QED BY <2>2, <2>3, <3>2, <3>3, CoverFacts
    <2> QED BY <2>1, <2>3, <2>4
  <1>2. ItemInv /\ ItemInv' /\ PurgeKept =>
          [\A d \in Devices :
             LET s == rep[d].state
                 t == rep'[d].state
             IN is_tomb(s) =>
                  /\ is_tomb(t) /\ leq(s.c, t.c)
                  /\ \A v \in values(t) : ~covers(s.c, v)]_rep
    BY <1>1
  <1> QED BY <1>2, ItemInvariant, ItemNext, PTL DEF Spec, PurgeStands

=============================================================================
