----------------------------- MODULE ItemMerge -----------------------------
(***************************************************************************)
(* The merge of one item on the devices of an account                      *)
(* (rizzy-sync/src/merge.rs, merge/join.rs, merge/evidence.rs) as the      *)
(* client drives it (rizzy-client/src/items.rs, sync.rs): devices write    *)
(* ops on the state they see, upload them, write snapshots when one is     *)
(* due, and take each other's ops and snapshots in any causal order.       *)
(*                                                                         *)
(* An op stands for its dot, its header and its body; a value is the op    *)
(* that wrote it, so a register is a set of ops.  A live state has no      *)
(* purge; a tombstone keeps its late values in cur and no history.         *)
(***************************************************************************)
EXTENDS VersionVector, Hlc, FiniteSetsExt

CONSTANTS Fields, LIFECYCLE,    \* the keys of an item, and @lifecycle
          HISTORY_LIMIT,        \* the history kept per key
          SNAPSHOT_AFTER_OPS,   \* the ops after which a snapshot is due
          DeviceOrder,          \* the order of the device ids
          Holders,              \* the devices that hold the new item
          WallTimes,            \* the readings of each device's wall clock
          Nothing,              \* no purge
          MaxOps, MaxSnapshots, \* bounds: the ops of a device, the snapshots,
          MaxLosses, MaxRecords \* those that lack a value, and the records in
                                \* all, a loss counted as two more

ASSUME ItemAssumption ==
  /\ LIFECYCLE \notin Fields
  /\ HISTORY_LIMIT \in Nat \ {0} /\ SNAPSHOT_AFTER_OPS \in Nat
  /\ DeviceOrder \in [Devices -> Nat]
  /\ \A d, e \in Devices : DeviceOrder[d] = DeviceOrder[e] => d = e
  /\ Holders \subseteq Devices /\ Holders # {}
  /\ WallTimes \in [Devices -> SUBSET Nat]
  /\ MaxOps \in Nat /\ MaxSnapshots \in Nat /\ MaxLosses \in Nat /\ MaxRecords \in Nat

VARIABLES rep,          \* what each device holds of the item
          log,          \* the ops written
          sent,         \* per device, how many of its ops the server stored
          snaps,        \* the snapshots the server stored
          rekeyed,      \* the ops issued again under a fresh item key
          losses        \* the snapshots written without one of their values

vars == <<rep, log, sent, snaps, rekeyed, losses>>

Keys == Fields \cup {LIFECYCLE}

Kinds == {"edit", "trash", "restore", "purge"}

\* HeldOp::writes_with_lifecycle: every op but a purge writes its marker.
WritesTo(op, k) == op.kind # "purge" /\ (k = LIFECYCLE \/ k \in op.writes)

\* Val::rank: by HLC, then device, then sequence number.
Higher(u, v) ==
  \/ u.hlc > v.hlc
  \/ u.hlc = v.hlc /\ DeviceOrder[u.dev] > DeviceOrder[v.dev]
  \/ u.hlc = v.hlc /\ u.dev = v.dev /\ u.seq > v.seq

heads(ops) == [d \in Devices |-> Max({0} \cup {o.seq : o \in {p \in ops : p.dev = d}})]

(***************************************************************************)
(* The evidence join.                                                      *)
(***************************************************************************)

supersedes_by_rank(u, v) == Higher(u, v)     \* mutant: the last writer wins

supersedes(u, v) == u # v /\ covers(u.ctx, v)

maximal(V) == {v \in V : \A u \in V : ~supersedes(u, v)}

prune(H) == {v \in H : Cardinality({u \in H : Higher(u, v)}) < HISTORY_LIMIT}

Empty == [k \in Keys |-> {}]

Absent == [vv |-> ZeroVV, cur |-> Empty, hist |-> Empty,
           purge |-> Nothing, key |-> FALSE, c |-> ZeroVV]

is_tomb(s) == s.purge # Nothing

HeldAt(s, k) == s.cur[k] \cup s.hist[k]

\* State::values: the current values and the history, or the late values.
values(s) == UNION {HeldAt(s, k) : k \in Keys}

\* join_live_into: the keys of y are computed anew, the others of x are kept.
join_live_into(x, y) ==
  LET anew == {k \in Keys : HeldAt(y, k) # {}}
      all == [k \in anew |-> HeldAt(x, k) \cup HeldAt(y, k)]
      top == [k \in anew |-> maximal(all[k])]
  IN [x EXCEPT
        !.cur = [k \in Keys |-> IF k \in anew THEN top[k] ELSE @[k]],
        !.hist = [k \in Keys |-> IF k \in anew THEN prune(all[k] \ top[k]) ELSE @[k]]]

\* set_late_key: what the context c of the purges does not cover.
late(c, k, V) == IF k = LIFECYCLE THEN {} ELSE {v \in maximal(V) : ~covers(c, v)}

\* Mutant: the context of the recorded purge alone.
join_tomb_into_recorded(t, s) ==
  LET up == is_tomb(s) /\ Higher(s.purge, t.purge)
      c == IF up THEN s.c ELSE t.c
  IN [t EXCEPT !.purge = IF up THEN s.purge ELSE @, !.key = IF up THEN s.key ELSE @,
               !.c = c,
               !.cur = [k \in Keys |-> IF HeldAt(s, k) = {} THEN {v \in @[k] : ~covers(c, v)}
                                       ELSE late(c, k, @[k] \cup HeldAt(s, k))]]

\* join_tomb_into: the higher purge, both contexts, and the values, of either
\* side, that neither context covers.
join_tomb_into(t, s) ==
  LET c == join(t.c, s.c)
      up == is_tomb(s) /\ Higher(s.purge, t.purge)
  IN [t EXCEPT !.purge = IF up THEN s.purge ELSE @, !.key = IF up THEN s.key ELSE @,
               !.c = c,
               !.cur = [k \in Keys |-> IF HeldAt(s, k) = {} THEN {v \in @[k] : ~covers(c, v)}
                                       ELSE late(c, k, @[k] \cup HeldAt(s, k))]]

\* join_into: a purge on either side makes a tombstone.
join_into(a, b) ==
  LET shape == IF is_tomb(a) THEN join_tomb_into(a, b)
               ELSE IF is_tomb(b) THEN join_tomb_into(b, a)
               ELSE join_live_into(a, b)
  IN [shape EXCEPT !.vv = join(a.vv, b.vv)]

normalize(s) ==
  [s EXCEPT !.cur = [k \in Keys |-> IF is_tomb(s) THEN late(s.c, k, @[k])
                                    ELSE maximal(HeldAt(s, k))],
            !.hist = [k \in Keys |-> IF is_tomb(s) THEN {}
                                     ELSE prune(HeldAt(s, k) \ maximal(HeldAt(s, k)))]]

\* The key of an op's envelope, which a re-issue changes.
key_id(op) == op \in rekeyed

singleton(op) ==
  [Absent EXCEPT
     !.vv = add(ZeroVV, op),
     !.cur = [k \in Keys |-> IF WritesTo(op, k) THEN {op} ELSE {}],
     !.purge = IF op.kind = "purge" THEN op ELSE Nothing,
     !.key = op.kind = "purge" /\ key_id(op),
     !.c = IF op.kind = "purge" THEN op.ctx ELSE ZeroVV]

Merge(s, ops) == FoldSet(LAMBDA op, t : join_into(t, singleton(op)), s, ops)

(***************************************************************************)
(* The evidence against a snapshot.                                        *)
(***************************************************************************)

\* cut: the part of snapshot state s the verified headers vouch for.  A
\* tombstone whose purge they do not reach is refused (PurgeAboveCut).
PurgeAboveCut(s, headers) ==
  is_tomb(s) /\ ~(covers(heads(headers), s.purge) /\ s.purge \in headers)

cut(s, headers) ==
  LET vv == meet(s.vv, heads(headers))
      c  == meet(s.c, vv)
      take(V) == {v \in V : /\ covers(vv, v) /\ v \in headers
                            /\ is_tomb(s) => ~covers(c, v) /\ v # s.purge}
  IN [s EXCEPT !.vv = vv, !.c = c,
               !.cur = [k \in Keys |-> take(@[k])],
               !.hist = [k \in Keys |-> take(@[k])]]

known_write(bodies, op) == op \in bodies /\ op.kind # "purge"

\* contradiction, as far as signed records can reach it: the key of a known
\* purge, and a context no purge of the taken part explains.
contradiction(s, headers, bodies) ==
  /\ is_tomb(s)
  /\ \/ s.purge \in bodies /\ key_id(s.purge) # s.key
     \/ \E d \in Devices :
          /\ s.c[d] > 0
          /\ \A o \in headers :
               covers(s.vv, o) /\ ~known_write(bodies, o) => o.ctx[d] < s.c[d]

refused(s, headers, bodies) ==
  PurgeAboveCut(s, headers) \/ contradiction(cut(s, headers), headers, bodies)

accounts_for_live(s, k, v) ==        \* mutant: a purge accounts for no value
  \/ v \in HeldAt(s, k) \/ \E u \in s.cur[k] : supersedes(u, v)
  \/ ~is_tomb(s) /\ Cardinality(s.hist[k]) >= HISTORY_LIMIT /\ \A h \in s.hist[k] : Higher(h, v)

accounts_for(s, k, v) ==
  \/ v \in HeldAt(s, k)
  \/ \E u \in s.cur[k] : supersedes(u, v)
  \/ /\ ~is_tomb(s)
     /\ Cardinality(s.hist[k]) >= HISTORY_LIMIT
     /\ \A h \in s.hist[k] : Higher(h, v)
  \/ is_tomb(s) /\ (k = LIFECYCLE \/ covers(s.c, v) \/ v = s.purge)

\* One direction of disagreements: values of x that y covers and cannot
\* account for, and values of y that the context of x discards although no
\* purge only x knows of explains it.
Unaccounted(x, y) ==
  UNION {{v \in HeldAt(x, k) : covers(y.vv, v) /\ ~accounts_for(y, k, v)} : k \in Keys}

Unexplained(x, y, headers, bodies) ==
  {v \in UNION {HeldAt(y, k) : k \in Fields} :
     /\ covers(x.c, v) /\ ~covers(y.c, v)
     /\ \A o \in headers :
          covers(x.vv, o) /\ ~covers(y.vv, o) /\ ~known_write(bodies, o)
            => ~covers(o.ctx, v)}

\* The purge a live state covers, or one recorded under two keys.
PurgeDisputed(x, y) ==
  {p \in {y.purge} \ {Nothing} :
     \/ ~is_tomb(x) /\ covers(x.vv, p) /\ x.cur # Empty
     \/ x.purge = p /\ x.key # y.key}

disagreements(x, y, headers, bodies) ==
  Unaccounted(x, y) \cup Unaccounted(y, x)
    \cup Unexplained(x, y, headers, bodies) \cup Unexplained(y, x, headers, bodies)
    \cup PurgeDisputed(x, y) \cup PurgeDisputed(y, x)

\* State::max_hlc: what an absorbed snapshot tells the clock.
HlcsOf(s) == {v.hlc : v \in values(s) \cup ({s.purge} \ {Nothing})}

(***************************************************************************)
(* The devices.                                                            *)
(***************************************************************************)

created ==
  LET first == CHOOSE d \in Holders : \A e \in Holders : DeviceOrder[d] <= DeviceOrder[e]
  IN [dev |-> first, seq |-> 1, hlc |-> 0, ctx |-> ZeroVV, kind |-> "edit",
      writes |-> Fields]

\* ItemMerge::new, and the same with the item's first op applied.
NewReplica ==
  [state |-> Absent, base |-> Absent, headers |-> {}, bodies |-> {}, merged |-> {},
   retained |-> {}, count |-> 0, merge_due |-> FALSE, pending |-> FALSE,
   unresolved |-> {}, clock |-> 0, outbox |-> {}, held_covers |-> {},
   clean |-> TRUE]

FirstReplica ==
  [NewReplica EXCEPT !.headers = {created}, !.bodies = {created}, !.merged = {created},
                     !.retained = {created}, !.count = 1,
                     !.state = join_into(Absent, singleton(created))]

Init ==
  /\ rekeyed = {}
  /\ rep = [d \in Devices |-> IF d \in Holders THEN FirstReplica ELSE NewReplica]
  /\ log = {created} /\ sent = add(ZeroVV, created)
  /\ snaps = {} /\ losses = 0

\* resolve_lifecycle: Active wins over a concurrent Trashed.
lifecycle(s) ==
  IF is_tomb(s) THEN "purged"
  ELSE IF \E v \in s.cur[LIFECYCLE] : v.kind # "trash" THEN "active"
  ELSE IF s.cur[LIFECYCLE] # {} THEN "trashed"
  ELSE "absent"

\* holds_unapplied: a verified op of the item waits.
holds_unapplied(q) == \E o \in q.headers : ~covers(q.state.vv, o)

may_purge(q) == lifecycle(q.state) = "trashed" /\ ~holds_unapplied(q)

\* items.rs: what each change asks of the item shown.
may_write(q, kind) ==
  CASE kind \in {"edit", "trash"} -> lifecycle(q.state) = "active"
    [] kind = "restore"           -> lifecycle(q.state) = "trashed"
    [] kind = "purge"             -> may_purge(q)

\* merge_body: a body merges once, also where a snapshot covers its dot.
is_ready(q, op) == covers(q.state.vv, op) \/ leq(op.ctx, q.state.vv)

merge_body(q, op) ==
  [q EXCEPT !.headers = @ \cup {op}, !.bodies = @ \cup {op},
            !.merged = @ \cup {op}, !.retained = @ \cup {op},
            !.state = join_into(@, singleton(op)),
            !.count = IF covers(q.state.vv, op) THEN @ ELSE @ + 1]

Own(d) == {o \in log : o.dev = d}

Outboxes == UNION {rep[d].outbox : d \in Devices}

Stored == snaps \cup Outboxes

Records == Cardinality(log) + Cardinality(Stored) + 2 * losses

\* There is room for a snapshot within the bounds.
Room == Cardinality(Stored) < MaxSnapshots /\ Records < MaxRecords

\* write_op with apply_own_op: the op's context is what the device holds of
\* the item; a fresh item key, a purge and the op count make a snapshot due.
Write(d, kind, W, now, fresh) ==
  LET q  == rep[d]
      op == [dev |-> d, seq |-> Cardinality(Own(d)) + 1, hlc |-> tick(q.clock, now),
             ctx |-> q.state.vv, kind |-> kind, writes |-> W]
      p  == merge_body(q, op)
      due == q.pending \/ fresh \/ kind = "purge" \/ p.count > SNAPSHOT_AFTER_OPS
  IN /\ op.seq <= MaxOps /\ Records < MaxRecords
     /\ ~q.merge_due /\ may_write(q, kind) /\ can_tick(q.clock, now)
     /\ due => Room /\ Records + 1 < MaxRecords
     /\ rep' = [rep EXCEPT ![d] = [p EXCEPT !.clock = op.hlc, !.pending = due]]
     /\ log' = log \cup {op}
     /\ UNCHANGED <<sent, snaps, rekeyed, losses>>

Published == {o \in log : covers(sent, o)}

Follows(q, op) == \A o \in log : o.dev = op.dev /\ o.seq < op.seq => o \in q.headers

\* record_header: an accepted link of a chain, whose body has yet to come.
record_header(d, op) ==
  /\ op \in Published \ rep[d].headers /\ Follows(rep[d], op)
  /\ rep' = [rep EXCEPT ![d].headers = @ \cup {op}]
  /\ UNCHANGED <<log, sent, snaps, rekeyed, losses>>

\* apply_op: an op delivered; one that was not covered moves the clock.
apply_op(d, op, now) ==
  LET q == rep[d]
  IN /\ op \in Published \ q.merged /\ op.dev # d
     /\ Follows(q, op) /\ is_ready(q, op)
     /\ rep' = [rep EXCEPT ![d] =
                  [merge_body(q, op) EXCEPT
                     !.clock = IF covers(q.state.vv, op) THEN @
                               ELSE receive(@, op.hlc, now)]]
     /\ UNCHANGED <<log, sent, snaps, rekeyed, losses>>

Concurrent(v, w) == ~leq(v, w) /\ ~leq(w, v)

\* A snapshot is whole for a device that verified every op it covers.
whole(s, headers) == \A o \in log : covers(s.vv, o) => o \in headers

\* Mutant: the retained ops the new basis covers are dropped without folding.
fold_nothing(base, ops) == base

fold(base, ops) == Merge(base, ops)

\* absorb_snapshot, of a cover of a bodiless header, with a body that came in
\* the same page, once each: the state and the basis both take the part vouched for, and
\* the retained ops that the basis covers are folded into it.
absorb_snapshot(d, snap, with, now) ==
  LET q == [rep[d] EXCEPT !.headers = @ \cup with, !.bodies = @ \cup with]
      taken == cut(snap.state, q.headers)
      norm  == normalize(taken)
      base  == join_into(q.base, norm)
      folded == {o \in q.retained : covers(base.vv, o)}
      hlcs  == HlcsOf(taken)
      p == [q EXCEPT
              !.state = join_into(@, norm),
              !.base = fold(base, folded),
              !.retained = @ \ folded,
              !.unresolved = @ \cup disagreements(q.state, taken, q.headers, q.bodies),
              !.merge_due = @ \/ Concurrent(taken.vv, q.state.vv),
              !.clock = IF hlcs = {} THEN @ ELSE receive(@, Max(hlcs), now),
              !.held_covers = @ \cup {snap},
              !.clean = @ /\ snap.clean /\ whole(snap.state, q.headers)]
  IN /\ snap \in snaps \ rep[d].held_covers
     /\ \E o \in rep[d].headers \ rep[d].merged : covers(snap.state.vv, o)
     /\ rep' = [rep EXCEPT ![d] =
                  IF refused(snap.state, q.headers, q.bodies) THEN q ELSE p]
     /\ UNCHANGED <<log, sent, snaps, rekeyed, losses>>

\* end_fetch: at the end of a page, before the device does anything else, the
\* merged snapshot is due.
end_fetch(d) ==
  /\ rep[d].merge_due
  /\ rep' = [rep EXCEPT ![d].merge_due = FALSE, ![d].pending = TRUE]
  /\ UNCHANGED <<log, sent, snaps, rekeyed, losses>>

\* write_snapshot, of a due item: none while a disagreement is unresolved.  A
\* faulty author may leave a value of a field out of what it signs.
Without(s, v) == [s EXCEPT !.cur = [k \in Keys |-> IF k \in Fields THEN @[k] \ {v} ELSE @[k]],
                           !.hist = [k \in Keys |-> IF k \in Fields THEN @[k] \ {v} ELSE @[k]]]

\* What the record layer encodes: no history without a current value.
encodable(s) == \A k \in Keys : s.cur[k] = {} => s.hist[k] = {}

write_snapshot(d, lost) ==
  LET q == rep[d]
      s == Without(q.state, lost)
      snap == [author |-> d, state |-> s, clean |-> q.clean /\ s = q.state]
      p == [q EXCEPT !.pending = FALSE]
      refusal == q.state = Absent \/ q.unresolved # {} \/ ~encodable(q.state)
  IN /\ q.pending /\ ~q.merge_due
     /\ \/ /\ refusal /\ lost = Nothing
           /\ rep' = [rep EXCEPT ![d] = p]
           /\ UNCHANGED losses
        \/ /\ ~refusal /\ encodable(s)
           /\ Room
           /\ lost # Nothing => losses < MaxLosses /\ Records + 2 < MaxRecords /\ s # q.state
           /\ losses' = IF lost = Nothing THEN losses ELSE losses + 1
           /\ rep' = [rep EXCEPT ![d] =
                        [p EXCEPT !.base = q.state, !.retained = {}, !.count = 0,
                                  !.outbox = @ \cup {snap}]]
     /\ UNCHANGED <<log, sent, snaps, rekeyed>>

\* Upload: the own ops in order, then the snapshots whose own ops are stored.
upload_ops(d) ==
  /\ sent[d] < Cardinality(Own(d)) /\ ~rep[d].pending /\ ~rep[d].merge_due
  /\ sent' = [sent EXCEPT ![d] = Cardinality(Own(d))]
  /\ UNCHANGED <<rep, log, snaps, rekeyed, losses>>

upload_snapshot(d, snap) ==
  /\ snap \in rep[d].outbox /\ snap.state.vv[d] <= sent[d] /\ ~rep[d].merge_due
  /\ snaps' = snaps \cup {snap}
  /\ rep' = [rep EXCEPT ![d].outbox = @ \ {snap}]
  /\ UNCHANGED <<log, sent, rekeyed, losses>>

\* reissue_stale: the ops the server answered stale_epoch, every own one it has
\* not stored, go under the writer rule's key; the tombstone that records one
\* takes its new key, and unsent snapshots that cover one are discarded.
Rekey(s, ops) == [s EXCEPT !.key = @ \/ s.purge \in ops]

discards_nothing(d) == {}                \* mutant

discards(d) == {s \in rep[d].outbox : s.state.vv[d] > sent[d]}

reissue_stale(d, fresh) ==
  LET ops == {o \in Own(d) : o.seq > sent[d]}
      discarded == discards(d)
  IN /\ ops \ rekeyed # {} /\ ~rep[d].merge_due /\ (fresh => Room)
     /\ rekeyed' = rekeyed \cup {o \in ops : o.kind = "purge"}
     /\ rep' = [rep EXCEPT ![d] =
                  [rep[d] EXCEPT !.state = Rekey(@, ops), !.base = Rekey(@, ops),
                                 !.outbox = @ \ discarded,
                                 !.pending = @ \/ fresh \/ discarded # {}]]
     /\ UNCHANGED <<log, sent, snaps, losses>>

Next ==
  \E d \in Devices :
    \/ \E now \in WallTimes[d], fresh \in BOOLEAN :
         \/ \E f \in Fields : Write(d, "edit", {f}, now, fresh)
         \/ \E kind \in Kinds \ {"edit"} : Write(d, kind, {}, now, fresh)
    \/ \E op \in log : record_header(d, op)
    \/ \E op \in log, now \in WallTimes[d] : apply_op(d, op, now)
    \/ \E snap \in snaps, now \in WallTimes[d] :
         \E with \in {{}, Published \ rep[d].bodies} : absorb_snapshot(d, snap, with, now)
    \/ end_fetch(d)
    \/ \E lost \in {Nothing} \cup values(rep[d].state) : write_snapshot(d, lost)
    \/ upload_ops(d)
    \/ \E snap \in rep[d].outbox : upload_snapshot(d, snap)
    \/ \E fresh \in BOOLEAN : reissue_stale(d, fresh)

Spec == Init /\ [][Next]_vars

(***************************************************************************)
(* What the merge promises.                                                *)
(***************************************************************************)

\* The state a set of ops stands for, whatever order they came in: per key the
\* values no later writer of the key had seen, and the newest of the others;
\* once purged, only what no purger had seen, under the highest purge.
Reference(ops) ==
  LET purges == {o \in ops : o.kind = "purge"}
      top == CHOOSE p \in purges : \A q \in purges : p = q \/ Higher(p, q)
      seen(o, S) == \E u \in S : u # o /\ u.ctx[o.dev] >= o.seq
      writers == [k \in Keys |-> {o \in ops : WritesTo(o, k)}]
      shown == [k \in Keys |-> {o \in writers[k] : ~seen(o, writers[k])}]
      kept(k) == {o \in shown[k] : ~seen(o, purges)}
      older(k) == {o \in writers[k] \ shown[k] :
                     ~\E S \in kSubset(HISTORY_LIMIT, writers[k] \ shown[k]) :
                        \A u \in S : Higher(u, o)}
  IN IF purges = {}
     THEN [Absent EXCEPT !.vv = heads(ops), !.cur = shown,
                         !.hist = [k \in Keys |-> older(k)]]
     ELSE [Absent EXCEPT !.vv = heads(ops), !.purge = top, !.key = key_id(top),
                         !.c = [d \in Devices |-> Max({p.ctx[d] : p \in purges})],
                         !.cur = [k \in Keys |-> IF k = LIFECYCLE THEN {} ELSE kept(k)]]

Covered(s) == {o \in log : covers(s.vv, o)}

\* Each replica that took only whole, faithful snapshots shows exactly what
\* the ops it covers stand for, by whatever path and in whatever order ops and
\* snapshots reached it; so replicas with equal version vectors are equal.
Converges ==
  \A d \in Devices : rep[d].clean => rep[d].state = Reference(Covered(rep[d].state))

\* The basis and the retained ops, all that a client keeps, give the state
\* back, also after snapshots that lacked a value.
KeptRecordsRebuild ==
  \A d \in Devices : Merge(rep[d].base, rep[d].retained) = rep[d].state

\* Absence is not evidence: the value of a body that merged is never lost to
\* a snapshot without it.  It is held, or superseded by a held value, or older
\* than a full history, or discarded by a purge.
MergedBodiesStand ==
  \A d \in Devices : \A o \in rep[d].merged : \A k \in Keys :
    WritesTo(o, k) => accounts_for(rep[d].state, k, o)

\* No faithful snapshot is refused or disputed by a replica that verified
\* what it covers.
HonestAccepted ==
  \A d \in Devices : rep[d].clean =>
    /\ rep[d].unresolved = {}
    /\ \A snap \in snaps :
         LET q == rep[d]
         IN snap.clean /\ whole(snap.state, q.headers) =>
              /\ ~refused(snap.state, q.headers, q.bodies)
              /\ disagreements(q.state, cut(snap.state, q.headers), q.headers, q.bodies) = {}

\* An item purged stays purged, and no value a purge has seen comes back.
PurgeStands ==
  [][\A d \in Devices :
       LET s == rep[d].state
           t == rep'[d].state
       IN is_tomb(s) =>
            /\ is_tomb(t) /\ leq(s.c, t.c)
            /\ \A v \in values(t) : ~covers(s.c, v)]_rep

\* The clock is never behind an op the device has taken into a live item, so
\* what it writes next ranks above all it has seen (no clock being ahead by
\* more than the skew guard).
ClockSeesItem ==
  \A d \in Devices : rep[d].clean /\ ~is_tomb(rep[d].state) =>
    \A o \in Covered(rep[d].state) : o.hlc <= rep[d].clock

\* Every record of the purge carries the key of the op as stored.
PurgeKeyAgrees ==
  /\ \A d \in Devices : is_tomb(rep[d].state) =>
       rep[d].state.key = key_id(rep[d].state.purge)
  /\ \A snap \in snaps : is_tomb(snap.state) =>
       snap.state.key = key_id(snap.state.purge)

\* evidence.rs: on honest records nothing is reported.
NothingReported == losses = 0 => \A d \in Devices : rep[d].unresolved = {}

\* Nothing that was merged is lost: not to a snapshot without it, not in what
\* the client keeps.
NothingMergedLost == KeptRecordsRebuild /\ MergedBodiesStand
=============================================================================
