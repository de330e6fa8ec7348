-------------------------- MODULE VaultStoreProofs --------------------------
(***************************************************************************)
(* Theorems about VaultStore, for every set of devices, items and snapshot *)
(* ids and every bound.                                                    *)
(***************************************************************************)
EXTENDS VaultStore, CompactionProofs, TLAPS

(***************************************************************************)
(* Heads                                                                   *)
(***************************************************************************)

\* A device has one head: MAX(device_seq) is a function of the stored ops.
LEMMA HeadUnique ==
  ASSUME NEW ops \in SUBSET Op, NEW d \in Devices, NEW g \in Seqs, NEW h \in Seqs,
         IsHead(ops, d, g), IsHead(ops, d, h)
  PROVE  g = h
  BY BoundsAssumption DEF IsHead, Seqs, Op

\* repo::heads returns the head wherever one exists.
LEMMA HeadsAreHeads ==
  ASSUME NEW t \in Tables, HasHeads(t), NEW d \in Devices
  PROVE  /\ heads(t)[d] \in Seqs
         /\ IsHead(t.ops, d, heads(t)[d])
  BY DEF HasHeads, heads

\* Every stored op is at or below its device's head.
LEMMA OpsBelowHeads ==
  ASSUME NEW t \in Tables, HasHeads(t), NEW o \in t.ops
  PROVE  o.seq <= heads(t)[o.dev]
  <1>1. o \in Op /\ o.dev \in Devices
    BY DEF Tables, Op
  <1> QED BY <1>1, HeadsAreHeads DEF IsHead

\* Tables with the same ops have the same heads.
LEMMA HeadsOfOps ==
  ASSUME NEW t, NEW u, t.ops = u.ops
  PROVE  heads(t) = heads(u) /\ (HasHeads(t) => HasHeads(u))
  BY DEF heads, HasHeads

(***************************************************************************)
(* What the two store operations do to the tables                          *)
(***************************************************************************)

\* store_op and its effect on each table.
LEMMA StoreOpFields ==
  ASSUME NEW t \in Tables, NEW o \in Op, NEW b \in BOOLEAN
  PROVE  /\ store_op(t, o, b) \in Tables
         /\ store_op(t, o, b).ops = t.ops \cup {o}
         /\ store_op(t, o, b).bodies = IF b THEN t.bodies \cup {o} ELSE t.bodies
         /\ store_op(t, o, b).snaps = t.snaps
         /\ store_op(t, o, b).next = t.next
         /\ store_op(t, o, b).queue = t.queue
         /\ store_op(t, o, b).epoch = t.epoch
  BY DEF store_op, Tables

\* An op that passed chain_check becomes its device's head; no other moves.
LEMMA StoreOpHeads ==
  ASSUME NEW t \in Tables, HasHeads(t), NEW o \in Op, NEW b \in BOOLEAN,
         chain_check(t, o)
  PROVE  /\ HasHeads(store_op(t, o, b))
         /\ heads(store_op(t, o, b))[o.dev] = o.seq
         /\ heads(t)[o.dev] < o.seq
         /\ \A d \in Devices : d # o.dev => heads(store_op(t, o, b))[d] = heads(t)[d]
         /\ leq(heads(t), heads(store_op(t, o, b)))
  <1> DEFINE u == store_op(t, o, b)
  <1>1. u \in Tables /\ u.ops = t.ops \cup {o}
    BY StoreOpFields, ZenonT(60)
  <1>2. o.dev \in Devices /\ o.seq \in Seqs /\ o.prev \in Seqs
    BY DEF Op
  <1>3. t.ops \in SUBSET Op /\ u.ops \in SUBSET Op
    BY <1>1 DEF Tables
  <1>4. heads(t)[o.dev] < o.seq
    BY DEF chain_check
  <1>5. IsHead(u.ops, o.dev, o.seq)
    <2>1. \A p \in t.ops : p.dev = o.dev => p.seq <= heads(t)[o.dev] /\ p.seq \in Seqs
      BY <1>2, <1>3, HeadsAreHeads DEF IsHead, Op
    <2>2. heads(t)[o.dev] \in Seqs
      BY <1>2, HeadsAreHeads
    <2> QED BY <1>1, <1>2, <1>4, <2>1, <2>2, BoundsAssumption DEF IsHead, Seqs
  <1>6. ASSUME NEW d \in Devices, d # o.dev
        PROVE  IsHead(u.ops, d, heads(t)[d]) /\ heads(t)[d] \in Seqs
    BY <1>1, <1>6, HeadsAreHeads DEF IsHead
  <1>7. HasHeads(u)
    BY <1>2, <1>5, <1>6 DEF HasHeads
  <1>8. heads(u)[o.dev] = o.seq
    <2>1. heads(u)[o.dev] \in Seqs /\ IsHead(u.ops, o.dev, heads(u)[o.dev])
      BY <1>1, <1>2, <1>7, HeadsAreHeads
    <2> QED BY <1>2, <1>3, <1>5, <2>1, HeadUnique
  <1>9. \A d \in Devices : d # o.dev => heads(u)[d] = heads(t)[d]
    <2>1. \A d \in Devices : heads(u)[d] \in Seqs /\ IsHead(u.ops, d, heads(u)[d])
      BY <1>1, <1>7, HeadsAreHeads
    <2> QED BY <1>3, <1>6, <2>1, HeadUnique
  <1>10. leq(heads(t), heads(u))
    <2>1. ASSUME NEW d \in Devices PROVE heads(t)[d] <= heads(u)[d]
      <3>1. heads(t)[d] \in Nat
        BY HeadsAreHeads, BoundsAssumption DEF Seqs
      <3> QED BY <1>2, <1>4, <1>8, <1>9, <3>1, BoundsAssumption DEF Seqs
    <2> QED BY <2>1 DEF leq
  <1> QED BY <1>4, <1>7, <1>8, <1>9, <1>10

\* store_snapshot and its effect on each table.
LEMMA StoreSnapFields ==
  ASSUME NEW t \in Tables, HasHeads(t), NEW r \in Snap
  PROVE  /\ store_snapshot(t, r) \in Tables
         /\ store_snapshot(t, r).ops = t.ops
         /\ store_snapshot(t, r).bodies = t.bodies
         /\ store_snapshot(t, r).snaps = t.snaps \cup {NewRow(t, r)}
         /\ store_snapshot(t, r).next = t.next + 1
         /\ store_snapshot(t, r).queue = t.queue \cup {r.item}
         /\ store_snapshot(t, r).epoch = t.epoch
         /\ NewRow(t, r) \in Row
         /\ leq(NewRow(t, r).clamped, heads(t))
  <1>1. \A d \in Devices : heads(t)[d] \in Seqs
    BY HeadsAreHeads
  <1>2. r.covered \in [Devices -> Seqs] /\ r.item \in Items
    BY DEF Snap
  <1>3. clamp(r.covered, heads(t)) \in [Devices -> Seqs]
    BY <1>1, <1>2 DEF clamp, meet
  <1>4. NewRow(t, r) \in Row
    BY <1>3 DEF NewRow, Row, Snap, Tables
  <1>5. leq(clamp(r.covered, heads(t)), heads(t))
    <2>1. ASSUME NEW d \in Devices
          PROVE  clamp(r.covered, heads(t))[d] <= heads(t)[d]
      <3>1. heads(t)[d] \in Nat /\ r.covered[d] \in Nat
        BY <1>1, <1>2, BoundsAssumption DEF Seqs
      <3>2. clamp(r.covered, heads(t))[d]
              = IF r.covered[d] <= heads(t)[d] THEN r.covered[d] ELSE heads(t)[d]
        BY DEF clamp, meet
      <3> QED BY <3>1, <3>2
    <2> QED BY <2>1 DEF leq
  <1>7. NewRow(t, r).clamped = clamp(r.covered, heads(t))
    BY DEF NewRow
  <1>8. store_snapshot(t, r) \in Tables
    BY <1>2, <1>4 DEF store_snapshot, Tables
  <1> QED BY <1>4, <1>5, <1>7, <1>8 DEF store_snapshot
(***************************************************************************)
(* Each store operation preserves what holds of the tables                 *)
(***************************************************************************)

\* An op the server accepts is above every retained clamp, so no snapshot
\* stored before it covers it.
LEMMA AcceptedOpUncovered ==
  ASSUME NEW t \in Tables, TablesInv(t), NEW o \in Op, chain_check(t, o),
         NEW s \in t.snaps
  PROVE  ~Covers(s, o)
  <1>1. o.dev \in Devices /\ o.seq \in Seqs
    BY DEF Op
  <1>2. s.clamped[o.dev] <= heads(t)[o.dev]
    BY <1>1 DEF TablesInv, ClampsBelow, leq
  <1>3. s.clamped[o.dev] \in Seqs
    BY <1>1 DEF Tables, Row
  <1>4. heads(t)[o.dev] \in Seqs /\ heads(t)[o.dev] < o.seq
    BY <1>1, HeadsAreHeads DEF TablesInv, chain_check
  <1> QED BY <1>1, <1>2, <1>3, <1>4, BoundsAssumption DEF Covers, covers, Seqs

\* store_op keeps the chains linked, the clamps below the heads and the ops
\* within the cut-offs.
LEMMA StoreOpInv ==
  ASSUME NEW t \in Tables, TablesInv(t), NEW o \in Op, NEW b \in BOOLEAN,
         OpAcceptable(t, o)
  PROVE  TablesInv(store_op(t, o, b))
  <1> DEFINE u == store_op(t, o, b)
  <1>1. /\ u \in Tables /\ u.ops = t.ops \cup {o}
        /\ u.snaps = t.snaps /\ u.next = t.next
        /\ u.bodies \subseteq t.bodies \cup {o}
    BY StoreOpFields, ZenonT(60)
  <1>2. chain_check(t, o) /\ HasHeads(t)
    BY DEF OpAcceptable, TablesInv
  <1>3. HasHeads(u) /\ leq(heads(t), heads(u))
    BY <1>2, StoreOpHeads
  <1>4. u.bodies \subseteq u.ops
    BY <1>1 DEF TablesInv
  <1>5. ClampsBelow(u)
    <2>1. ASSUME NEW s \in t.snaps, NEW d \in Devices
          PROVE  s.clamped[d] <= heads(u)[d]
      <3>1. s.clamped[d] <= heads(t)[d] /\ heads(t)[d] <= heads(u)[d]
        BY <1>3 DEF TablesInv, ClampsBelow, leq
      <3>2. s.clamped[d] \in Seqs
        BY DEF Tables, Row
      <3>3. heads(t)[d] \in Seqs /\ heads(u)[d] \in Seqs
        BY <1>1, <1>2, <1>3, HeadsAreHeads
      <3> QED BY <3>1, <3>2, <3>3, BoundsAssumption DEF Seqs
    <2> QED BY <1>1, <2>1 DEF ClampsBelow, leq
  <1>6. Linked(u.ops)
    <2>1. o.dev \in Devices /\ o.seq \in Nat /\ o.prev \in Nat
      BY BoundsAssumption DEF Op, Seqs
    <2>2. o.prev < o.seq /\ o.prev = heads(t)[o.dev]
      BY <1>2 DEF chain_check
    <2>3. \A p \in t.ops : p.dev = o.dev => p.seq <= o.prev /\ p.seq \in Nat
      BY <1>2, <2>2, OpsBelowHeads, BoundsAssumption DEF Tables, Op, Seqs
    <2>4. o.prev = 0 \/ \E p \in t.ops : p.dev = o.dev /\ p.seq = o.prev
      BY <1>2, <2>1, <2>2, HeadsAreHeads DEF IsHead
    <2>5. Linked(t.ops)
      BY DEF TablesInv
    <2>6. \A p \in t.ops : p.dev = o.dev => ~(o.seq <= p.seq) /\ p.seq # o.seq
      BY <2>1, <2>2, <2>3
    <2>7. \A p \in t.ops : p.dev = o.dev => ~(o.seq < p.seq)
      BY <2>1, <2>3, <2>6
    <2> QED BY <1>1, <2>1, <2>3, <2>4, <2>5, <2>6, <2>7 DEF Linked
  <1>7. WithinCutoffs(u)
    BY <1>1 DEF OpAcceptable, op_author_allows, WithinCutoffs, TablesInv
  <1>8. StoreSeqsUnique(u)
    BY <1>1 DEF StoreSeqsUnique, TablesInv
  <1> QED BY <1>3, <1>4, <1>5, <1>6, <1>7, <1>8 DEF TablesInv

\* store_snapshot keeps them too: the new clamp is cut at the heads.
LEMMA StoreSnapInv ==
  ASSUME NEW t \in Tables, TablesInv(t), NEW r \in Snap
  PROVE  TablesInv(store_snapshot(t, r))
  <1> DEFINE u == store_snapshot(t, r)
  <1>1. HasHeads(t)
    BY DEF TablesInv
  <1>2. /\ u.ops = t.ops /\ u.bodies = t.bodies
        /\ u.snaps = t.snaps \cup {NewRow(t, r)} /\ u.next = t.next + 1
        /\ leq(NewRow(t, r).clamped, heads(t))
    BY <1>1, StoreSnapFields
  <1>3. heads(u) = heads(t) /\ HasHeads(u)
    BY <1>1, <1>2, HeadsOfOps
  <1>4. ClampsBelow(u)
    BY <1>2, <1>3 DEF TablesInv, ClampsBelow
  <1>5. WithinCutoffs(u)
    BY <1>2 DEF TablesInv, WithinCutoffs
  <1>6. StoreSeqsUnique(u)
    <2>1. t.next \in Nat /\ NewRow(t, r).store = t.next
      BY DEF Tables, NewRow
    <2>2. \A s \in t.snaps : s.store \in Nat
      BY DEF Tables, Row
    <2> QED BY <1>2, <2>1, <2>2 DEF StoreSeqsUnique, TablesInv
  <1> QED BY <1>2, <1>3, <1>4, <1>5, <1>6 DEF TablesInv

\* Tables that differ only in fewer bodies or fewer snapshots keep them.
LEMMA ShrinkInv ==
  ASSUME NEW t \in Tables, TablesInv(t), NEW u,
         u.ops = t.ops, u.next = t.next,
         u.bodies \subseteq t.bodies, u.snaps \subseteq t.snaps
  PROVE  TablesInv(u)
  <1>1. heads(u) = heads(t) /\ HasHeads(u)
    BY HeadsOfOps DEF TablesInv
  <1>2. ClampsBelow(u)
    BY <1>1 DEF TablesInv, ClampsBelow
  <1>3. WithinCutoffs(u)
    BY DEF TablesInv, WithinCutoffs
  <1>4. StoreSeqsUnique(u)
    BY DEF TablesInv, StoreSeqsUnique
  <1> QED BY <1>1, <1>2, <1>3, <1>4 DEF TablesInv

\* An accepted op gives the worker nothing to do for any item.
LEMMA StoreOpQueue ==
  ASSUME NEW t \in Tables, TablesInv(t), QueueHoldsWork(t),
         NEW o \in Op, o \notin t.ops, NEW b \in BOOLEAN, chain_check(t, o)
  PROVE  QueueHoldsWork(store_op(t, o, b))
  <1> DEFINE u == store_op(t, o, b)
  <1>1. /\ u.ops = t.ops \cup {o} /\ u.snaps = t.snaps /\ u.queue = t.queue
        /\ u.bodies = IF b THEN t.bodies \cup {o} ELSE t.bodies
    BY StoreOpFields
  <1>2. t.bodies \subseteq t.ops
    BY DEF TablesInv
  <1>3. ASSUME NEW i \in Items \ u.queue
        PROVE  PlanEmpty(item_snapshots(u, i), Held(u, i), Bodiless(u, i))
    <2> DEFINE S == item_snapshots(t, i)
    <2>1. item_snapshots(u, i) = S
      BY <1>1 DEF item_snapshots
    <2>2. PlanEmpty(S, Held(t, i), Bodiless(t, i))
      BY <1>1 DEF QueueHoldsWork
    <2>3. ~Covered(S, o)
      BY AcceptedOpUncovered DEF Covered, item_snapshots
    <2>4. /\ PlanEmpty(S, Held(t, i) \cup {o}, Bodiless(t, i))
          /\ PlanEmpty(S, Held(t, i), Bodiless(t, i) \cup {o})
      BY <2>2, <2>3, UncoveredOpKeepsPlan
    <2>5. CASE o.item # i
      <3>1. Held(u, i) = Held(t, i) /\ Bodiless(u, i) = Bodiless(t, i)
        BY <1>1, <1>2, <2>5 DEF Held, Bodiless
      <3> QED BY <2>1, <2>2, <3>1
    <2>6. CASE o.item = i /\ b
      <3>1. Held(u, i) = Held(t, i) \cup {o} /\ Bodiless(u, i) = Bodiless(t, i)
        BY <1>1, <1>2, <2>6 DEF Held, Bodiless
      <3> QED BY <2>1, <2>4, <3>1
    <2>7. CASE o.item = i /\ ~b
      <3>1. Held(u, i) = Held(t, i) /\ Bodiless(u, i) = Bodiless(t, i) \cup {o}
        BY <1>1, <1>2, <2>7 DEF Held, Bodiless
      <3> QED BY <2>1, <2>4, <3>1
    <2> QED BY <2>5, <2>6, <2>7
  <1> QED BY <1>3 DEF QueueHoldsWork

\* A stored snapshot queues its item and touches no other.
LEMMA StoreSnapQueue ==
  ASSUME NEW t \in Tables, HasHeads(t), QueueHoldsWork(t), NEW r \in Snap
  PROVE  QueueHoldsWork(store_snapshot(t, r))
  <1> DEFINE u == store_snapshot(t, r)
  <1>1. /\ u.ops = t.ops /\ u.bodies = t.bodies /\ u.queue = t.queue \cup {r.item}
        /\ u.snaps = t.snaps \cup {NewRow(t, r)}
    BY StoreSnapFields
  <1>2. ASSUME NEW i \in Items \ u.queue
        PROVE  PlanEmpty(item_snapshots(u, i), Held(u, i), Bodiless(u, i))
    <2>1. i # r.item /\ i \in Items \ t.queue
      BY <1>1, <1>2
    <2>2. item_snapshots(u, i) = item_snapshots(t, i)
      BY <1>1, <2>1 DEF item_snapshots, NewRow
    <2>3. Held(u, i) = Held(t, i) /\ Bodiless(u, i) = Bodiless(t, i)
      BY <1>1 DEF Held, Bodiless
    <2> QED BY <2>1, <2>2, <2>3 DEF QueueHoldsWork
  <1> QED BY <1>2 DEF QueueHoldsWork

(***************************************************************************)
(* The steps                                                               *)
(***************************************************************************)

\* The empty database satisfies the invariant.
LEMMA InitInv == Init => IInv
  <1> SUFFICES ASSUME Init PROVE IInv
    OBVIOUS
  <1>1. db = EmptyTables /\ w = EmptyTables /\ tx = NoTx
    BY DEF Init
  <1>2. EmptyTables \in Tables
    BY BoundsAssumption DEF EmptyTables, Tables, Epochs
  <1>3. NoTx \in Tx
    BY DEF NoTx, Tx, Kinds
  <1>4. TypeOK
    BY <1>1, <1>2, <1>3, BoundsAssumption DEF Init, TypeOK, Seqs
  <1>5. TablesInv(EmptyTables)
    <2>1. 0 \in Seqs
      BY BoundsAssumption DEF Seqs
    <2>2. HasHeads(EmptyTables)
      BY <2>1 DEF HasHeads, IsHead, EmptyTables
    <2> QED BY <2>2 DEF TablesInv, EmptyTables, ClampsBelow, StoreSeqsUnique,
                        Linked, WithinCutoffs
  <1>6. QueueHoldsWork(EmptyTables)
    BY DEF QueueHoldsWork, EmptyTables, PlanEmpty, r1_deletions, item_snapshots, Held
  <1>7. BodilessCovered /\ OwedCovers
    BY <1>1 DEF BodilessCovered, OwedCovers, EmptyTables, NoTx
  <1>8. Extends
    BY <1>1 DEF Extends, EmptyTables
  <1>9. CompactProgress
    BY <1>1 DEF CompactProgress, NoTx
  <1> QED BY <1>1, <1>4, <1>5, <1>6, <1>7, <1>8, <1>9 DEF IInv

\* A step that only moves the transaction's control state.
LEMMA StepTx ==
  ASSUME IInv, UNCHANGED <<db, w, auth>>,
         tx' \in Tx, tx'.kind # "none", tx'.kind # "compact_r3",
         tx'.kind = "compact_r1" => tx'.item \in Items /\ tx'.tested = 0,
         tx'.fresh = tx.fresh,
         tx.fresh # {} => tx'.kind \in {"heal_ops", "heal_snaps"}
  PROVE  IInv'
  <1>1. TypeOK'
    BY DEF IInv, TypeOK, auth
  <1>2. TablesInv(db)' /\ TablesInv(w)'
    BY DEF IInv, TablesInv, WithinCutoffs, auth
  <1>3. BodilessCovered' /\ OwedCovers'
    BY DEF IInv, BodilessCovered, OwedCovers
  <1>4. Extends'
    BY DEF IInv, Extends, auth
  <1>5. QueueHoldsWork(db)' /\ QueueHoldsWork(w)'
    BY DEF IInv
  <1>6. CompactProgress'
    BY DEF CompactProgress
  <1> QED BY <1>1, <1>2, <1>3, <1>4, <1>5, <1>6 DEF IInv

\* A record's op is stored in the transaction.
LEMMA StepStoreOp ==
  ASSUME IInv, NEW o \in Op, NEW b \in BOOLEAN,
         tx.kind \in {"upload", "heal_ops"}, b \/ tx.kind = "heal_ops",
         o \notin w.ops, OpAcceptable(w, o),
         w' = store_op(w, o, b), UNCHANGED <<db, auth>>,
         tx' \in Tx, tx'.kind = tx.kind,
         tx'.fresh = IF b THEN tx.fresh ELSE tx.fresh \cup {o}
  PROVE  IInv'
  <1>1. w \in Tables /\ TablesInv(w) /\ chain_check(w, o) /\ HasHeads(w)
    BY DEF IInv, TypeOK, OpAcceptable, TablesInv
  <1>2. /\ w' \in Tables /\ w'.ops = w.ops \cup {o} /\ w'.snaps = w.snaps
        /\ w'.bodies = IF b THEN w.bodies \cup {o} ELSE w.bodies
    BY <1>1, StoreOpFields
  <1>3. TypeOK'
    BY <1>2 DEF IInv, TypeOK, auth
  <1>4. TablesInv(db)'
    BY DEF IInv, TablesInv, WithinCutoffs, auth
  <1>5. TablesInv(w)'
    <2>1. TablesInv(store_op(w, o, b))
      BY <1>1, StoreOpInv
    <2> QED BY <2>1 DEF TablesInv, WithinCutoffs, auth
  <1>6. BodilessCovered'
    BY DEF IInv, BodilessCovered
  <1>7. OwedCovers'
    <2>1. item_snapshots(w', o.item) = item_snapshots(w, o.item)
      BY <1>2 DEF item_snapshots
    <2>2. \A p : item_snapshots(w', p.item) = item_snapshots(w, p.item)
      BY <1>2 DEF item_snapshots
    <2>3. \A p \in w'.ops \ w'.bodies : p \in w.ops \ w.bodies \/ (p = o /\ ~b)
      BY <1>2
    <2> QED BY <2>2, <2>3 DEF IInv, OwedCovers
  <1>8. Extends'
    <2>1. \A p : item_snapshots(w', p.item) = item_snapshots(w, p.item)
      BY <1>2 DEF item_snapshots
    <2>2. o \notin db.ops /\ o \notin db.bodies
      BY DEF IInv, Extends, TablesInv
    <2>3. \A p \in w'.ops \ w'.bodies : p \in w.ops \ w.bodies \/ p = o
      BY <1>2
    <2>4. ASSUME NEW d \in Devices, standing'[d] = "suspended"
          PROVE  heads(w')[d] = heads(db)[d]
      <3>1. standing[d] = "suspended" /\ d # o.dev
        BY <2>4 DEF auth, OpAcceptable, op_author_allows
      <3>2. heads(w')[d] = heads(w)[d]
        BY <1>1, <3>1, StoreOpHeads
      <3> QED BY <3>1, <3>2 DEF IInv, Extends
    <2> QED BY <1>2, <2>1, <2>2, <2>3, <2>4 DEF IInv, Extends
  <1>9. QueueHoldsWork(db)' /\ QueueHoldsWork(w)'
    BY <1>1, StoreOpQueue DEF IInv
  <1>10. CompactProgress'
    BY DEF CompactProgress
  <1> QED BY <1>3, <1>4, <1>5, <1>6, <1>7, <1>8, <1>9, <1>10 DEF IInv

\* A record's snapshot is stored in the transaction.
LEMMA StepStoreSnap ==
  ASSUME IInv, NEW r \in Snap,
         tx.kind \in {"upload", "heal_snaps"},
         w' = store_snapshot(w, r), UNCHANGED <<db, auth>>,
         tx' \in Tx, tx'.kind = tx.kind, tx'.fresh = tx.fresh
  PROVE  IInv'
  <1>1. w \in Tables /\ TablesInv(w) /\ HasHeads(w)
    BY DEF IInv, TypeOK, TablesInv
  <1>2. /\ w' \in Tables /\ w'.ops = w.ops /\ w'.bodies = w.bodies
        /\ w.snaps \subseteq w'.snaps
    BY <1>1, StoreSnapFields
  <1>3. TypeOK'
    BY <1>2 DEF IInv, TypeOK, auth
  <1>4. TablesInv(db)'
    BY DEF IInv, TablesInv, WithinCutoffs, auth
  <1>5. TablesInv(w)'
    <2>1. TablesInv(store_snapshot(w, r))
      BY <1>1, StoreSnapInv
    <2> QED BY <2>1 DEF TablesInv, WithinCutoffs, auth
  <1>6. BodilessCovered'
    BY DEF IInv, BodilessCovered
  <1>7. \A i : item_snapshots(w, i) \subseteq item_snapshots(w', i)
    BY <1>2 DEF item_snapshots
  <1>8. OwedCovers'
    <2>1. \A p : Covered(item_snapshots(w, p.item), p)
                   => Covered(item_snapshots(w', p.item), p)
      BY <1>7, CoverGrows
    <2> QED BY <1>2, <2>1 DEF IInv, OwedCovers
  <1>9. Extends'
    <2>1. \A p : TwoAuthors(item_snapshots(w, p.item), p)
                   => TwoAuthors(item_snapshots(w', p.item), p)
      BY <1>7, CoverGrows
    <2>2. heads(w') = heads(w)
      BY <1>2, HeadsOfOps
    <2> QED BY <1>2, <2>1, <2>2 DEF IInv, Extends, auth
  <1>10. QueueHoldsWork(db)' /\ QueueHoldsWork(w)'
    BY <1>1, StoreSnapQueue DEF IInv
  <1>11. CompactProgress'
    BY DEF CompactProgress
  <1> QED BY <1>3, <1>4, <1>5, <1>6, <1>8, <1>9, <1>10, <1>11 DEF IInv

\* A transaction that owes no cover commits: the working tables become the
\* committed ones.
LEMMA StepCommit ==
  ASSUME IInv, db' = w, w' = w, tx' = NoTx, UNCHANGED auth,
         \A o \in w.ops \ w.bodies : Covered(item_snapshots(w, o.item), o)
  PROVE  IInv'
  <1>1. TypeOK'
    BY DEF IInv, TypeOK, auth, NoTx, Tx, Kinds
  <1>2. TablesInv(db)' /\ TablesInv(w)'
    BY DEF IInv, TablesInv, WithinCutoffs, auth
  <1>3. BodilessCovered' /\ OwedCovers'
    BY DEF BodilessCovered, OwedCovers, NoTx
  <1>4. Extends'
    <2>1. w.bodies \subseteq w.ops
      BY DEF IInv, TablesInv
    <2> QED BY <2>1 DEF Extends
  <1>5. QueueHoldsWork(db)' /\ QueueHoldsWork(w)'
    BY DEF IInv
  <1>6. CompactProgress'
    BY DEF CompactProgress, NoTx
  <1> QED BY <1>1, <1>2, <1>3, <1>4, <1>5, <1>6 DEF IInv

\* A rollback, for whatever reason, returns to the committed tables.
LEMMA StepRollback ==
  ASSUME IInv, Rollback
  PROVE  IInv'
  <1>1. TypeOK'
    BY DEF Rollback, IInv, TypeOK, auth, NoTx, Tx, Kinds
  <1>2. TablesInv(db)' /\ TablesInv(w)'
    BY DEF Rollback, IInv, TablesInv, WithinCutoffs, auth
  <1>3. BodilessCovered' /\ OwedCovers'
    BY DEF Rollback, IInv, BodilessCovered, OwedCovers, NoTx
  <1>4. Extends'
    <2>1. db.bodies \subseteq db.ops
      BY DEF IInv, TablesInv
    <2> QED BY <2>1 DEF Rollback, Extends
  <1>5. QueueHoldsWork(db)' /\ QueueHoldsWork(w)'
    BY DEF Rollback, IInv
  <1>6. CompactProgress'
    BY DEF Rollback, CompactProgress, NoTx
  <1> QED BY <1>1, <1>2, <1>3, <1>4, <1>5, <1>6 DEF IInv

\* R1 deletes the bodies of the transaction's item it may delete.
LEMMA StepR1 ==
  ASSUME IInv, CompactR1
  PROVE  IInv'
  <1> DEFINE S == item_snapshots(w, tx.item)
             R == r1_deletions(S, Held(w, tx.item))
  <1>1. /\ tx.kind = "compact_r1" /\ tx.item \in Items
        /\ tx.tested = 0 /\ tx.fresh = {} /\ w \in Tables /\ tx \in Tx
    BY DEF CompactR1, IInv, TypeOK, CompactProgress, OwedCovers
  <1>2. /\ tx'.kind = "compact_r3" /\ tx'.item = tx.item /\ tx'.tested = 0
        /\ tx'.fresh = {} /\ tx' \in Tx
    BY <1>1 DEF CompactR1, Tx, Kinds
  <1>3. /\ w'.ops = w.ops /\ w'.snaps = w.snaps /\ w'.queue = w.queue /\ w'.next = w.next
        /\ w'.bodies = w.bodies \ R /\ w' \in Tables
    BY <1>1 DEF CompactR1, Tables
  <1>4. UNCHANGED <<db, auth>>
    BY DEF CompactR1
  <1>5. R \subseteq w.bodies /\ \A o \in R : o.item = tx.item /\ TwoAuthors(S, o)
    BY DEF r1_deletions, Held
  <1>6. \A i : item_snapshots(w', i) = item_snapshots(w, i)
    BY <1>3 DEF item_snapshots
  <1>7. TypeOK'
    BY <1>2, <1>3, <1>4 DEF IInv, TypeOK, auth
  <1>8. TablesInv(db)'
    BY <1>4 DEF IInv, TablesInv, WithinCutoffs, auth
  <1>9. TablesInv(w)'
    <2>1. TablesInv(w) => TablesInv(w')
      BY <1>1, <1>3, ShrinkInv
    <2> QED BY <2>1, <1>4 DEF IInv, TablesInv, WithinCutoffs, auth
  <1>10. BodilessCovered'
    BY <1>4 DEF IInv, BodilessCovered
  <1>11. \A o \in w'.ops \ w'.bodies :
           o \in w.ops \ w.bodies \/ (o.item = tx.item /\ TwoAuthors(S, o))
    BY <1>3, <1>5
  <1>12. OwedCovers'
    <2>1. \A o : TwoAuthors(S, o) => Covered(S, o)
      BY TwoAuthorsCover
    <2>2. ASSUME NEW o \in w'.ops \ w'.bodies
          PROVE  Covered(item_snapshots(w', o.item), o)
      BY <1>1, <1>6, <1>11, <2>1 DEF IInv, OwedCovers
    <2> QED BY <1>2, <2>2 DEF OwedCovers
  <1>13. Extends'
    <2>1. heads(w') = heads(w)
      BY <1>3, HeadsOfOps
    <2> QED BY <1>3, <1>4, <1>6, <1>11, <2>1 DEF IInv, Extends, auth
  <1>14. QueueHoldsWork(db)'
    BY <1>4 DEF IInv
  <1>15. QueueHoldsWork(w)'
    <2>1. ASSUME NEW i \in Items \ w'.queue
          PROVE  PlanEmpty(item_snapshots(w', i), Held(w', i), Bodiless(w', i))
      <3>1. PlanEmpty(item_snapshots(w, i), Held(w, i), Bodiless(w, i))
        BY <1>3, <2>1 DEF IInv, QueueHoldsWork
      <3>2. i = tx.item => R = {}
        BY <3>1 DEF PlanEmpty
      <3>3. Held(w', i) = Held(w, i) /\ Bodiless(w', i) = Bodiless(w, i)
        BY <1>3, <1>5, <3>2 DEF Held, Bodiless
      <3> QED BY <1>6, <3>1, <3>3
    <2> QED BY <2>1 DEF QueueHoldsWork
  <1>16. CompactProgress'
    <2>1. Held(w', tx.item) = Held(w, tx.item) \ R
      BY <1>3 DEF Held
    <2>2. r1_deletions(S, Held(w', tx.item)) = {}
      BY <2>1, R1Idempotent
    <2>3. \A s \in S : s.store > 0
      BY <1>1 DEF item_snapshots, Tables, Row
    <2> QED BY <1>1, <1>2, <1>3, <1>6, <2>2, <2>3 DEF CompactProgress
  <1> QED BY <1>7, <1>8, <1>9, <1>10, <1>12, <1>13, <1>14, <1>15, <1>16 DEF IInv

\* R3 tests one older snapshot, and drops it when no header needs it.
LEMMA StepR3 ==
  ASSUME IInv, NEW s \in w.snaps, r3_test(s)
  PROVE  IInv'
  <1> DEFINE S == item_snapshots(w, tx.item)
             B == Bodiless(w, tx.item)
  <1>1. /\ tx.kind = "compact_r3" /\ tx.item \in Items
        /\ tx.fresh = {} /\ w \in Tables /\ tx \in Tx
    BY DEF r3_test, IInv, TypeOK, CompactProgress, OwedCovers
  <1>2. s \in S /\ ~IsTwoNewest(S, s) /\ s.item = tx.item
    BY DEF r3_test, Untested, item_snapshots
  <1>3. \A u \in S : ~IsTwoNewest(S, u) /\ u.store > tx.tested => s.store <= u.store
    BY DEF r3_test, Untested
  <1>4. \A u \in S : u.store \in Nat
    BY <1>1 DEF item_snapshots, Tables, Row
  <1>5. /\ tx'.kind = "compact_r3" /\ tx'.item = tx.item /\ tx'.tested = s.store
        /\ tx'.fresh = {} /\ tx' \in Tx
    BY <1>1, <1>2, <1>4 DEF r3_test, Tx, Kinds
  <1>6. UNCHANGED <<db, auth>>
    BY DEF r3_test
  <1>7. /\ w' \in Tables /\ w'.ops = w.ops /\ w'.bodies = w.bodies
        /\ w'.queue = w.queue /\ w'.next = w.next
        /\ w'.snaps \subseteq w.snaps /\ w.snaps \subseteq w'.snaps \cup {s}
        /\ Needed(S, s, B) => w'.snaps = w.snaps
        /\ ~Needed(S, s, B) => w'.snaps = w.snaps \ {s}
    BY <1>1 DEF r3_test, Tables
  <1>8. TypeOK'
    BY <1>5, <1>6, <1>7 DEF IInv, TypeOK, auth
  <1>9. TablesInv(db)'
    BY <1>6 DEF IInv, TablesInv, WithinCutoffs, auth
  <1>10. TablesInv(w)'
    <2>1. TablesInv(w) => TablesInv(w')
      BY <1>1, <1>7, ShrinkInv
    <2> QED BY <1>6, <2>1 DEF IInv, TablesInv, WithinCutoffs, auth
  <1>11. BodilessCovered'
    BY <1>6 DEF IInv, BodilessCovered
  <1>12. \A i : i # tx.item => item_snapshots(w', i) = item_snapshots(w, i)
    BY <1>2, <1>7 DEF item_snapshots
  <1>13. item_snapshots(w', tx.item) = IF Needed(S, s, B) THEN S ELSE S \ {s}
    BY <1>7 DEF item_snapshots
  <1>14. Held(w', tx.item) = Held(w, tx.item) /\ Bodiless(w', tx.item) = B
    BY <1>7 DEF Held, Bodiless
  <1>15. OwedCovers'
    <2>1. ASSUME NEW o \in w.ops \ w.bodies
          PROVE  Covered(item_snapshots(w', o.item), o)
      <3>1. Covered(item_snapshots(w, o.item), o)
        BY <1>1 DEF IInv, OwedCovers
      <3>2. CASE o.item # tx.item
        BY <1>12, <3>1, <3>2
      <3>3. CASE o.item = tx.item
        <4>1. o \in B
          BY <3>3 DEF Bodiless
        <4> QED BY <1>2, <1>13, <3>1, <3>3, <4>1, DropKeepsCover
      <3> QED BY <3>2, <3>3
    <2> QED BY <1>5, <1>7, <2>1 DEF OwedCovers
  <1>16. Extends'
    <2>1. ASSUME NEW o \in w.ops \ w.bodies, TwoAuthors(item_snapshots(w, o.item), o)
          PROVE  TwoAuthors(item_snapshots(w', o.item), o)
      <3>1. CASE o.item # tx.item
        BY <1>12, <2>1, <3>1
      <3>2. CASE o.item = tx.item
        <4>1. o \in B
          BY <3>2 DEF Bodiless
        <4> QED BY <1>2, <1>13, <2>1, <3>2, <4>1, DropKeepsTwo
      <3> QED BY <3>1, <3>2
    <2>2. heads(w') = heads(w)
      BY <1>7, HeadsOfOps
    <2> QED BY <1>6, <1>7, <2>1, <2>2 DEF IInv, Extends, auth
  <1>17. QueueHoldsWork(db)'
    BY <1>6 DEF IInv
  <1>18. QueueHoldsWork(w)'
    <2>1. ASSUME NEW i \in Items \ w'.queue
          PROVE  PlanEmpty(item_snapshots(w', i), Held(w', i), Bodiless(w', i))
      <3>1. PlanEmpty(item_snapshots(w, i), Held(w, i), Bodiless(w, i))
        BY <1>7, <2>1 DEF IInv, QueueHoldsWork
      <3>2. Held(w', i) = Held(w, i) /\ Bodiless(w', i) = Bodiless(w, i)
        BY <1>7 DEF Held, Bodiless
      <3>3. i = tx.item => Needed(S, s, B)
        BY <1>2, <3>1 DEF PlanEmpty
      <3>4. item_snapshots(w', i) = item_snapshots(w, i)
        BY <1>12, <1>13, <3>3
      <3> QED BY <3>1, <3>2, <3>4
    <2> QED BY <2>1 DEF QueueHoldsWork
  <1>19. CompactProgress'
    <2> DEFINE T == item_snapshots(w', tx.item)
    <2>1. r1_deletions(S, Held(w, tx.item)) = {}
      BY <1>1 DEF IInv, CompactProgress
    <2>2. r1_deletions(T, Held(w', tx.item)) = {}
      BY <1>2, <1>4, <1>13, <1>14, <2>1, DropKeepsR1Empty
    <2>3. ASSUME NEW u \in T
          PROVE  IsTwoNewest(T, u) \/ u.store > s.store \/ Needed(T, u, B)
      <3>1. u \in S
        BY <1>13
      <3>2. \/ IsTwoNewest(S, u) \/ u.store > tx.tested \/ Needed(S, u, B)
        BY <1>1, <3>1 DEF IInv, CompactProgress
      <3>3. CASE IsTwoNewest(S, u)
        BY <1>2, <1>4, <1>13, <3>1, <3>3, TwoNewestStay
      <3>4. CASE Needed(S, u, B)
        BY <1>2, <1>13, <3>1, <3>4, NeededStays
      <3>5. CASE ~IsTwoNewest(S, u) /\ u.store > tx.tested /\ ~Needed(S, u, B)
        <4>1. s.store <= u.store
          BY <1>3, <3>1, <3>5
        <4>2. s.store = u.store => u = s
          BY <3>1 DEF IInv, TablesInv, StoreSeqsUnique, item_snapshots
        <4>3. u # s
          BY <1>13, <3>5
        <4> QED BY <1>2, <1>4, <3>1, <4>1, <4>2, <4>3
      <3> QED BY <3>2, <3>3, <3>4, <3>5
    <2> QED BY <1>1, <1>5, <1>7, <1>14, <2>2, <2>3 DEF CompactProgress
  <1> QED BY <1>8, <1>9, <1>10, <1>11, <1>15, <1>16, <1>17, <1>18, <1>19 DEF IInv

\* The worker dequeues the item it has left nothing to do for, and commits.
LEMMA StepCommitCompact ==
  ASSUME IInv, CommitCompact
  PROVE  IInv'
  <1> DEFINE S == item_snapshots(w, tx.item)
  <1>1. /\ tx.kind = "compact_r3" /\ tx.item \in Items
        /\ tx.fresh = {} /\ w \in Tables /\ tx \in Tx
    BY DEF CommitCompact, IInv, TypeOK, CompactProgress, OwedCovers
  <1>2. /\ db' = w' /\ tx' = NoTx /\ UNCHANGED auth
    BY DEF CommitCompact
  <1>3. /\ w' \in Tables /\ w'.ops = w.ops /\ w'.bodies = w.bodies
        /\ w'.snaps = w.snaps /\ w'.next = w.next /\ w'.queue = w.queue \ {tx.item}
    BY <1>1 DEF CommitCompact, Tables
  <1>4. TypeOK'
    BY <1>2, <1>3 DEF IInv, TypeOK, auth, NoTx, Tx, Kinds
  <1>5. TablesInv(w)'
    <2>1. TablesInv(w) => TablesInv(w')
      BY <1>1, <1>3, ShrinkInv
    <2> QED BY <1>2, <2>1 DEF IInv, TablesInv, WithinCutoffs, auth
  <1>6. TablesInv(db)'
    BY <1>2, <1>5 DEF TablesInv, WithinCutoffs
  <1>7. \A i : item_snapshots(w', i) = item_snapshots(w, i)
    BY <1>3 DEF item_snapshots
  <1>8. \A o \in w'.ops \ w'.bodies : Covered(item_snapshots(w', o.item), o)
    BY <1>1, <1>3, <1>7 DEF IInv, OwedCovers
  <1>9. BodilessCovered' /\ OwedCovers'
    BY <1>2, <1>8 DEF BodilessCovered, OwedCovers, NoTx
  <1>10. Extends'
    <2>1. w'.bodies \subseteq w'.ops
      BY <1>3 DEF IInv, TablesInv
    <2> QED BY <1>2, <2>1 DEF Extends
  <1>11. QueueHoldsWork(w')
    <2>1. ASSUME NEW i \in Items \ w'.queue
          PROVE  PlanEmpty(item_snapshots(w', i), Held(w', i), Bodiless(w', i))
      <3>1. Held(w', i) = Held(w, i) /\ Bodiless(w', i) = Bodiless(w, i)
        BY <1>3 DEF Held, Bodiless
      <3>2. CASE i # tx.item
        BY <1>3, <1>7, <2>1, <3>1, <3>2 DEF IInv, QueueHoldsWork
      <3>3. CASE i = tx.item
        <4>1. \A s \in S : ~(~IsTwoNewest(S, s) /\ s.store > tx.tested)
          BY DEF CommitCompact, Untested
        <4>2. PlanEmpty(S, Held(w, tx.item), Bodiless(w, tx.item))
          BY <1>1, <4>1 DEF IInv, CompactProgress, PlanEmpty
        <4> QED BY <1>7, <3>1, <3>3, <4>2
      <3> QED BY <3>2, <3>3
    <2> QED BY <2>1 DEF QueueHoldsWork
  <1>12. CompactProgress'
    BY <1>2 DEF CompactProgress, NoTx
  <1> QED BY <1>2, <1>4, <1>5, <1>6, <1>9, <1>10, <1>11, <1>12 DEF IInv

\* A step of the auth domain that leaves the record tables alone.
LEMMA StepStanding ==
  ASSUME IInv, tx.kind = "none", UNCHANGED <<db, w, tx>>,
         standing' \in [Devices -> {"active", "suspended", "revoked"}],
         cutoff' \in [Devices -> Seqs], expired' \in SUBSET Devices,
         WithinCutoffs(db)'
  PROVE  IInv'
  <1>1. w = db /\ w' = db'
    BY DEF IInv, TypeOK
  <1>2. TypeOK'
    BY DEF IInv, TypeOK
  <1>3. TablesInv(db)' /\ TablesInv(w)'
    BY <1>1 DEF IInv, TablesInv, WithinCutoffs
  <1>4. BodilessCovered' /\ OwedCovers'
    BY DEF IInv, BodilessCovered, OwedCovers
  <1>5. Extends'
    <2>1. db.bodies \subseteq db.ops
      BY DEF IInv, TablesInv
    <2> QED BY <1>1, <2>1 DEF Extends
  <1>6. QueueHoldsWork(db)' /\ QueueHoldsWork(w)'
    BY DEF IInv
  <1>7. CompactProgress'
    BY DEF CompactProgress
  <1> QED BY <1>2, <1>3, <1>4, <1>5, <1>6, <1>7 DEF IInv

\* A rotation, alone or with a revocation, moves only the epoch.
LEMMA StepRotate ==
  ASSUME IInv, tx.kind = "none", UNCHANGED <<tx, expired>>,
         NEW c, NEW e \in Epochs, RotateTo(c, e),
         standing' \in [Devices -> {"active", "suspended", "revoked"}],
         cutoff' \in [Devices -> Seqs],
         \A o \in db.ops : standing'[o.dev] = "revoked" => o.seq <= cutoff'[o.dev]
  PROVE  IInv'
  <1>1. /\ w = db /\ w' = db' /\ db \in Tables
        /\ db' \in Tables /\ db'.ops = db.ops /\ db'.bodies = db.bodies
        /\ db'.snaps = db.snaps /\ db'.next = db.next /\ db'.queue = db.queue
    BY DEF IInv, TypeOK, RotateTo, Tables
  <1>2. TypeOK'
    BY <1>1 DEF IInv, TypeOK
  <1>3. TablesInv(db)' /\ TablesInv(w)'
    <2>1. TablesInv(db) => TablesInv(db')
      BY <1>1, ShrinkInv
    <2>2. WithinCutoffs(db)'
      BY <1>1 DEF WithinCutoffs
    <2> QED BY <1>1, <2>1, <2>2 DEF IInv, TablesInv, WithinCutoffs
  <1>4. \A i : /\ item_snapshots(db', i) = item_snapshots(db, i)
               /\ Held(db', i) = Held(db, i) /\ Bodiless(db', i) = Bodiless(db, i)
    BY <1>1 DEF item_snapshots, Held, Bodiless
  <1>5. BodilessCovered' /\ OwedCovers'
    BY <1>1, <1>4 DEF IInv, BodilessCovered, OwedCovers
  <1>6. Extends'
    <2>1. db'.bodies \subseteq db'.ops
      BY <1>1 DEF IInv, TablesInv
    <2> QED BY <1>1, <2>1 DEF Extends
  <1>7. QueueHoldsWork(db)' /\ QueueHoldsWork(w)'
    BY <1>1, <1>4 DEF IInv, QueueHoldsWork
  <1>8. CompactProgress'
    BY DEF CompactProgress
  <1> QED BY <1>2, <1>3, <1>5, <1>6, <1>7, <1>8 DEF IInv

\* A revocation at or above the device's head leaves no op past the cut-off.
LEMMA RevokeWithin ==
  ASSUME IInv, NEW d \in Devices, NEW h \in Seqs, RevokeAt(d, h)
  PROVE  /\ standing' \in [Devices -> {"active", "suspended", "revoked"}]
         /\ cutoff' \in [Devices -> Seqs]
         /\ \A o \in db.ops : standing'[o.dev] = "revoked" => o.seq <= cutoff'[o.dev]
  <1>1. db \in Tables /\ HasHeads(db) /\ WithinCutoffs(db)
    BY DEF IInv, TypeOK, TablesInv
  <1>2. /\ standing \in [Devices -> {"active", "suspended", "revoked"}]
        /\ cutoff \in [Devices -> Seqs]
    BY DEF IInv, TypeOK
  <1>3. ASSUME NEW o \in db.ops, standing'[o.dev] = "revoked"
        PROVE  o.seq <= cutoff'[o.dev]
    <2>1. o.dev \in Devices /\ o.seq \in Seqs
      BY <1>1 DEF Tables, Op
    <2>2. CASE o.dev = d
      <3>1. o.seq <= heads(db)[d] /\ heads(db)[d] <= h /\ heads(db)[d] \in Seqs
        BY <1>1, <2>2, OpsBelowHeads, HeadsAreHeads DEF RevokeAt
      <3>2. cutoff'[o.dev] = h
        BY <1>2, <2>2 DEF RevokeAt
      <3> QED BY <2>1, <3>1, <3>2, BoundsAssumption DEF Seqs
    <2>3. CASE o.dev # d
      BY <1>1, <1>2, <1>3, <2>1, <2>3 DEF RevokeAt, WithinCutoffs
    <2> QED BY <2>2, <2>3
  <1> QED BY <1>2, <1>3 DEF RevokeAt

\* Every step of every handler preserves the invariant.
LEMMA NextInv == IInv /\ [Next]_vars => IInv'
  <1> SUFFICES ASSUME IInv, [Next]_vars PROVE IInv'
    OBVIOUS
  <1>2. tx \in Tx
    BY DEF IInv, TypeOK
  <1>3. tx.kind \notin {"heal_ops", "heal_snaps"} => tx.fresh = {}
    BY DEF IInv, OwedCovers
  <1>4. ASSUME NEW k \in Kinds, NEW i \in Items \cup {NoItem}, Begin(k, i),
               k # "none", k # "compact_r3", k = "compact_r1" => i \in Items
        PROVE  IInv'
    <2>1. /\ tx'.kind = k /\ tx'.item = i /\ tx'.tested = 0 /\ tx'.fresh = {} /\ tx' \in Tx
      BY <1>4 DEF Begin, NoTx, Tx
    <2>2. UNCHANGED <<db, w, auth>> /\ tx.kind = "none" /\ w = db
      BY <1>4 DEF Begin, IInv, TypeOK
    <2> QED BY <1>3, <1>4, <2>1, <2>2, StepTx
  <1>5. CASE Upload
    <2>1. CASE BeginUpload
      BY <1>4, <2>1 DEF BeginUpload, Kinds
    <2>2. ASSUME NEW o \in Op, upload_op(o) PROVE IInv'
      <3>1. tx.kind = "upload" /\ o \notin w.ops /\ UNCHANGED <<db, auth>>
        BY <2>2 DEF upload_op
      <3>2. CASE OpAcceptable(w, o) /\ (o.ep >= w.epoch \/ op_stale_exempt(o))
        <4>1. w' = store_op(w, o, TRUE) /\ tx' = [tx EXCEPT !.seen = @ + 1]
          BY <2>2, <3>2 DEF upload_op
        <4>2. tx' \in Tx /\ tx'.kind = tx.kind /\ tx'.fresh = tx.fresh
          BY <1>2, <4>1 DEF Tx
        <4> QED BY <3>1, <3>2, <4>1, <4>2, StepStoreOp
      <3>3. CASE ~(OpAcceptable(w, o) /\ (o.ep >= w.epoch \/ op_stale_exempt(o)))
        <4>1. w' = w /\ tx' = [tx EXCEPT !.rejected = TRUE]
          BY <2>2, <3>3 DEF upload_op
        <4>2. tx' \in Tx /\ tx'.kind = tx.kind /\ tx'.fresh = tx.fresh
          BY <1>2, <4>1 DEF Tx
        <4> QED BY <1>3, <3>1, <4>1, <4>2, StepTx
      <3> QED BY <3>2, <3>3
    <2>3. ASSUME NEW r \in Snap, upload_snapshot(r) PROVE IInv'
      <3>1. tx.kind = "upload" /\ UNCHANGED <<db, auth>>
        BY <2>3 DEF upload_snapshot
      <3>2. CASE SnapAcceptable(w, r) /\ r.ep >= w.epoch
        <4>1. w' = store_snapshot(w, r) /\ tx' = [tx EXCEPT !.seen = @ + 1]
          BY <2>3, <3>2 DEF upload_snapshot
        <4>2. tx' \in Tx /\ tx'.kind = tx.kind /\ tx'.fresh = tx.fresh
          BY <1>2, <4>1 DEF Tx
        <4> QED BY <3>1, <4>1, <4>2, StepStoreSnap
      <3>3. CASE ~(SnapAcceptable(w, r) /\ r.ep >= w.epoch)
        <4>1. w' = w /\ tx' = [tx EXCEPT !.rejected = TRUE]
          BY <2>3, <3>3 DEF upload_snapshot
        <4>2. tx' \in Tx /\ tx'.kind = tx.kind /\ tx'.fresh = tx.fresh
          BY <1>2, <4>1 DEF Tx
        <4> QED BY <1>3, <3>1, <4>1, <4>2, StepTx
      <3> QED BY <3>2, <3>3
    <2>4. CASE CommitUpload
      <3>1. tx.fresh = {} /\ db' = w /\ w' = w /\ tx' = NoTx /\ UNCHANGED auth
        BY <1>3, <2>4 DEF CommitUpload
      <3>2. \A o \in w.ops \ w.bodies : Covered(item_snapshots(w, o.item), o)
        BY <3>1 DEF IInv, OwedCovers
      <3> QED BY <3>1, <3>2, StepCommit
    <2> QED BY <1>5, <2>1, <2>2, <2>3, <2>4 DEF Upload
  <1>6. CASE Heal
    <2>1. CASE BeginHeal
      BY <1>4, <2>1 DEF BeginHeal, Kinds
    <2>2. ASSUME NEW o \in Op, NEW b \in BOOLEAN, heal_op(o, b) PROVE IInv'
      <3>1. tx.kind = "heal_ops" /\ o \notin w.ops
        BY <2>2 DEF heal_op
      <3>2. CASE OpAcceptable(w, o)
        <4>1. /\ w' = store_op(w, o, b) /\ UNCHANGED <<db, auth>>
              /\ tx' = [tx EXCEPT !.seen = @ + 1,
                                  !.fresh = IF b THEN @ ELSE @ \cup {o}]
          BY <2>2, <3>2 DEF heal_op
        <4>2. /\ tx' \in Tx /\ tx'.kind = tx.kind
              /\ tx'.fresh = IF b THEN tx.fresh ELSE tx.fresh \cup {o}
          <5>1. PICK f \in SUBSET Op :
                  /\ f = IF b THEN tx.fresh ELSE tx.fresh \cup {o}
                  /\ tx' = [tx EXCEPT !.seen = @ + 1, !.fresh = f]
            <6>1. (IF b THEN tx.fresh ELSE tx.fresh \cup {o}) \in SUBSET Op
              <7>1. tx.fresh \in SUBSET Op
                BY <1>2 DEF Tx
              <7> QED BY <7>1, Zenon
            <6> QED BY <4>1, <6>1, Zenon
          <5>2. tx' \in Tx /\ tx'.kind = tx.kind /\ tx'.fresh = f
            <6>1. tx' = [tx EXCEPT !.seen = @ + 1, !.fresh = f]
              BY <5>1, Zenon
            <6>2. PICK m : m = [tx EXCEPT !.seen = @ + 1]
              OBVIOUS
            <6>3. m \in Tx /\ m.kind = tx.kind
              BY <1>2, <6>2 DEF Tx
            <6>4. tx' = [m EXCEPT !.fresh = f]
              BY <6>1, <6>2, Zenon
            <6> QED BY <6>3, <6>4 DEF Tx
          <5> QED BY <5>1, <5>2
        <4> QED BY <3>1, <3>2, <4>1, <4>2, StepStoreOp
      <3>3. CASE ~OpAcceptable(w, o)
        BY <2>2, <3>3, StepRollback DEF heal_op
      <3> QED BY <3>2, <3>3
    <2>3. CASE HealRecordsDone
      <3>1. tx' \in Tx /\ tx'.kind = "heal_snaps" /\ tx'.fresh = tx.fresh
        BY <1>2, <2>3 DEF HealRecordsDone, Tx, Kinds
      <3> QED BY <2>3, <3>1, StepTx DEF HealRecordsDone
    <2>4. ASSUME NEW r \in Snap, heal_snapshot(r) PROVE IInv'
      <3>1. CASE SnapAcceptable(w, r)
        <4>1. /\ tx.kind = "heal_snaps" /\ w' = store_snapshot(w, r)
              /\ tx' = [tx EXCEPT !.seen = @ + 1] /\ UNCHANGED <<db, auth>>
          BY <2>4, <3>1 DEF heal_snapshot
        <4>2. tx' \in Tx /\ tx'.kind = tx.kind /\ tx'.fresh = tx.fresh
          BY <1>2, <4>1 DEF Tx
        <4> QED BY <4>1, <4>2, StepStoreSnap
      <3>2. CASE ~SnapAcceptable(w, r)
        BY <2>4, <3>2, StepRollback DEF heal_snapshot
      <3> QED BY <3>1, <3>2
    <2>5. CASE CommitHeal
      <3>1. CASE FreshCovered
        <4>1. db' = w /\ w' = w /\ tx' = NoTx /\ UNCHANGED auth
          BY <2>5, <3>1 DEF CommitHeal
        <4>2. \A o \in w.ops : o \in tx.fresh => Covered(item_snapshots(w, o.item), o)
          BY <3>1 DEF FreshCovered, check_healing_request, IInv, TypeOK, Tables, Op
        <4>3. \A o \in w.ops \ w.bodies : Covered(item_snapshots(w, o.item), o)
          BY <4>2 DEF IInv, OwedCovers
        <4> QED BY <4>1, <4>3, StepCommit
      <3>2. CASE ~FreshCovered
        BY <2>5, <3>2, StepRollback DEF CommitHeal
      <3> QED BY <3>1, <3>2
    <2> QED BY <1>6, <2>1, <2>2, <2>3, <2>4, <2>5 DEF Heal
  <1>7. CASE Compact
    <2>1. ASSUME NEW i \in Items, BeginCompact(i) PROVE IInv'
      BY <1>4, <2>1 DEF BeginCompact, Kinds
    <2>2. CASE CompactR1
      BY <2>2, StepR1
    <2>3. ASSUME NEW s \in w.snaps, r3_test(s) PROVE IInv'
      BY <2>3, StepR3
    <2>4. CASE CommitCompact
      BY <2>4, StepCommitCompact
    <2> QED BY <1>7, <2>1, <2>2, <2>3, <2>4 DEF Compact
  <1>8. CASE Abort
    BY <1>8, StepRollback DEF Abort
  <1>9. CASE AuthStep
    <2>1. /\ standing \in [Devices -> {"active", "suspended", "revoked"}]
          /\ cutoff \in [Devices -> Seqs] /\ expired \in SUBSET Devices
          /\ db \in Tables /\ WithinCutoffs(db)
      BY DEF IInv, TypeOK, TablesInv
    <2>2. \A o \in db.ops : o.dev \in Devices
      BY <2>1 DEF Tables, Op
    <2>3. ASSUME NEW d \in Retirable, suspend_device(d) \/ unsuspend_device(d)
          PROVE  IInv'
      <3>1. d \in Devices
        BY RetirableAssumption
      <3>2. /\ tx.kind = "none" /\ UNCHANGED <<db, w, tx, cutoff, expired>>
            /\ standing' \in [Devices -> {"active", "suspended", "revoked"}]
            /\ \A x \in Devices : standing'[x] = "revoked" => standing[x] = "revoked"
        BY <2>1, <2>3, <3>1 DEF suspend_device, unsuspend_device
      <3>3. WithinCutoffs(db)'
        BY <2>1, <2>2, <3>2 DEF WithinCutoffs
      <3> QED BY <2>1, <3>2, <3>3, StepStanding
    <2>4. ASSUME NEW e \in Epochs, apply_rotation(heads(db), e) PROVE IInv'
      BY <2>1, <2>4, StepRotate DEF apply_rotation, auth, WithinCutoffs
    <2>5. ASSUME NEW d \in Retirable, NEW h \in Seqs, NEW e \in Epochs,
                 RevokeWithRotation(d, h, heads(db), e)
          PROVE  IInv'
      <3>1. d \in Devices
        BY RetirableAssumption
      <3>2. RevokeAt(d, h) /\ RotateTo(heads(db), e)
            /\ tx.kind = "none" /\ UNCHANGED <<tx, expired>>
        BY <2>5 DEF RevokeWithRotation
      <3> QED BY <3>1, <3>2, RevokeWithin, StepRotate
    <2>6. ASSUME NEW d \in Retirable, NEW h \in Seqs, SelfRevoke(d, h) PROVE IInv'
      <3>1. d \in Devices
        BY RetirableAssumption
      <3>2. RevokeAt(d, h) /\ tx.kind = "none" /\ UNCHANGED <<db, w, tx, expired>>
        BY <2>6 DEF SelfRevoke
      <3>3. WithinCutoffs(db)'
        BY <3>1, <3>2, RevokeWithin DEF WithinCutoffs
      <3> QED BY <2>1, <3>1, <3>2, <3>3, RevokeWithin, StepStanding
    <2>7. ASSUME NEW d \in Retirable, Expire(d) PROVE IInv'
      <3>1. /\ tx.kind = "none" /\ UNCHANGED <<db, w, tx, standing, cutoff>>
            /\ expired' \in SUBSET Devices
        BY <2>1, <2>7, RetirableAssumption DEF Expire
      <3>2. WithinCutoffs(db)'
        BY <2>1, <3>1 DEF WithinCutoffs
      <3> QED BY <2>1, <3>1, <3>2, StepStanding
    <2> QED BY <1>9, <2>3, <2>4, <2>5, <2>6, <2>7 DEF AuthStep
  <1>10. CASE UNCHANGED vars
    BY <1>10 DEF vars, auth, IInv, TypeOK, TablesInv, WithinCutoffs, BodilessCovered,
                 OwedCovers, Extends, CompactProgress
  <1> QED BY <1>5, <1>6, <1>7, <1>8, <1>9, <1>10 DEF Next

(***************************************************************************)
(* The theorems                                                            *)
(***************************************************************************)

\* The strengthening holds in every reachable state.
LEMMA Inductive == Spec => []IInv
  BY InitInv, NextInv, PTL DEF Spec

\* Every variable keeps its type, and no handler returns with the working
\* tables different from the committed ones, whatever it stored, refused,
\* rolled back or crashed in.
THEOREM TypeCorrect == Spec => []TypeOK
  <1>1. IInv => TypeOK
    BY DEF IInv
  <1> QED BY <1>1, Inductive, PTL

\* No committed header without body is ever left without a retained snapshot
\* that covers it: R1's deletions, R3's drops and a healing request's
\* body-less headers, for any number of devices, items and snapshots.
THEOREM BodilessAlwaysCovered == Spec => []BodilessCovered
  <1>1. IInv => BodilessCovered
    BY DEF IInv
  <1> QED BY <1>1, Inductive, PTL

\* A stored clamp never passes the heads, although heads and clamps are
\* written by different requests.
THEOREM ClampsStayBelowHeads == Spec => []ClampsBelowHeads
  <1>1. IInv => ClampsBelowHeads
    BY DEF IInv, TablesInv, ClampsBelowHeads
  <1> QED BY <1>1, Inductive, PTL

\* Each device's stored ops are one linked chain with one record per dot.
THEOREM ChainsStayLinked == Spec => []ChainLinked
  <1>1. IInv => ChainLinked
    BY DEF IInv, TablesInv, ChainLinked
  <1> QED BY <1>1, Inductive, PTL

\* An item outside the compaction queue has nothing left to compact: every
\* write that can create work for R1 or R3 queues the item in the same
\* transaction, and one worker run leaves none.
THEOREM QueueLosesNoWork == Spec => []WorkIsQueued
  <1>1. IInv => WorkIsQueued
    BY DEF IInv, WorkIsQueued
  <1> QED BY <1>1, Inductive, PTL

\* No op of a revoked device beyond its cut-off is ever stored, before or
\* after the revocation.
THEOREM CutoffsHold == Spec => []NothingPastCutoff
  <1>1. IInv => NothingPastCutoff
    BY DEF IInv, TablesInv, NothingPastCutoff
  <1> QED BY <1>1, Inductive, PTL

\* A step commits the working tables, or leaves rows and headers alone.
LEMMA StepCommits ==
  ASSUME IInv, [Next]_vars
  PROVE  \/ db'.ops = w.ops /\ db'.bodies = w.bodies /\ db'.snaps = w.snaps
            /\ UNCHANGED auth
         \/ db'.ops = db.ops /\ db'.bodies = db.bodies /\ db'.snaps = db.snaps
  <1>1. db \in Tables /\ w \in Tables
    BY DEF IInv, TypeOK
  <1>2. CASE UNCHANGED vars
    BY <1>2 DEF vars
  <1>3. CASE Upload
    BY <1>3 DEF Upload, BeginUpload, Begin, upload_op, upload_snapshot, CommitUpload
  <1>4. CASE Heal
    BY <1>4 DEF Heal, BeginHeal, Begin, heal_op, HealRecordsDone, heal_snapshot,
                CommitHeal, Rollback
  <1>5. CASE Compact
    <2>1. CASE CommitCompact
      BY <1>1, <2>1 DEF CommitCompact, Tables
    <2>2. CASE ~CommitCompact
      BY <1>5, <2>2 DEF Compact, BeginCompact, Begin, CompactR1, r3_test
    <2> QED BY <2>1, <2>2
  <1>6. CASE Abort
    BY <1>6 DEF Abort, Rollback
  <1>7. CASE AuthStep
    <2>1. UNCHANGED db \/ \E e \in Epochs : RotateTo(heads(db), e)
      BY <1>7 DEF AuthStep, suspend_device, unsuspend_device, apply_rotation,
                  RevokeWithRotation, SelfRevoke, Expire
    <2>2. CASE UNCHANGED db
      BY <2>2
    <2>3. ASSUME NEW e \in Epochs, RotateTo(heads(db), e)
          PROVE  db'.ops = db.ops /\ db'.bodies = db.bodies /\ db'.snaps = db.snaps
      BY <1>1, <2>3 DEF RotateTo, Tables
    <2> QED BY <2>1, <2>2, <2>3
  <1> QED BY <1>2, <1>3, <1>4, <1>5, <1>6, <1>7 DEF Next

\* Compaction never takes a body without leaving covers by two authors, and
\* never takes a body-less header's second author away.
THEOREM CompactionKeepsTwoAuthors == Spec => TwoAuthorsKept
  <1> DEFINE Kept(o) ==
        (o \in db.bodies \/ (o \in db.ops /\ TwoAuthors(item_snapshots(db, o.item), o)))
          => TwoAuthors(item_snapshots(db', o.item), o)
  <1>1. ASSUME IInv, [Next]_vars, NEW o \in db'.ops \ db'.bodies
        PROVE  Kept(o)
    <2>1. CASE db'.ops = w.ops /\ db'.bodies = w.bodies /\ db'.snaps = w.snaps
      <3>1. item_snapshots(db', o.item) = item_snapshots(w, o.item)
        BY <2>1 DEF item_snapshots
      <3> QED BY <1>1, <2>1, <3>1 DEF IInv, Extends
    <2>2. CASE db'.ops = db.ops /\ db'.bodies = db.bodies /\ db'.snaps = db.snaps
      <3>1. item_snapshots(db', o.item) = item_snapshots(db, o.item)
        BY <2>2 DEF item_snapshots
      <3> QED BY <1>1, <2>2, <3>1
    <2> QED BY <1>1, <2>1, <2>2, StepCommits
  <1>2. IInv /\ [Next]_vars =>
          [\A o \in db'.ops \ db'.bodies : Kept(o)]_vars
    BY <1>1
  <1> QED BY <1>2, Inductive, PTL DEF Spec, TwoAuthorsKept

\* No step moves the head of a device that is suspended before and after it.
THEOREM SuspensionFreezesHead == Spec => SuspendedHeadFrozen
  <1>1. ASSUME IInv, [Next]_vars, NEW d \in Devices,
               standing[d] = "suspended", standing'[d] = "suspended"
        PROVE  heads(db')[d] = heads(db)[d]
    <2>1. CASE db'.ops = w.ops
      <3>1. heads(db') = heads(w)
        BY <2>1 DEF heads
      <3> QED BY <1>1, <3>1 DEF IInv, Extends
    <2>2. CASE db'.ops = db.ops
      BY <2>2 DEF heads
    <2> QED BY <1>1, <2>1, <2>2, StepCommits
  <1>2. IInv /\ [Next]_vars =>
          [\A d \in Devices : standing[d] = "suspended" /\ standing'[d] = "suspended"
             => heads(db')[d] = heads(db)[d]]_vars
    BY <1>1
  <1> QED BY <1>2, Inductive, PTL DEF Spec, SuspendedHeadFrozen

(***************************************************************************)
(* VaultStore implements AppendOnlyVault.  IInv says what the tables of    *)
(* the open transaction are; one more fact says how they differ from the   *)
(* committed ones.                                                         *)
(***************************************************************************)

\* What the open transaction has added lies above what is committed.
GrowsAtEnd ==
  \A o \in w.ops \ db.ops :
    /\ 0 < o.seq
    /\ \A p \in db.ops : p.dev = o.dev => p.seq < o.seq

\* A step adds one op that links on to the working tables, or none.
LEMMA StepAdds ==
  ASSUME IInv, [Next]_vars
  PROVE  \/ w'.ops = db'.ops
         \/ w'.ops = w.ops /\ db'.ops = db.ops
         \/ /\ db' = db
            /\ \E o \in Op : chain_check(w, o) /\ w'.ops = w.ops \cup {o}
  <1>1. db \in Tables /\ w \in Tables
    BY DEF IInv, TypeOK
  <1>2. ASSUME NEW o \in Op, NEW b \in BOOLEAN, w' = store_op(w, o, b)
        PROVE  w'.ops = w.ops \cup {o}
    BY <1>1, <1>2, StoreOpFields, ZenonT(60)
  <1>3. ASSUME NEW r \in Snap, w' = store_snapshot(w, r)
        PROVE  w'.ops = w.ops
    BY <1>3 DEF store_snapshot
  <1>4. CASE UNCHANGED vars
    BY <1>4 DEF vars
  <1>5. CASE Upload
    <2>1. CASE BeginUpload \/ CommitUpload
      BY <2>1 DEF BeginUpload, Begin, CommitUpload
    <2>2. ASSUME NEW o \in Op, upload_op(o)
          PROVE  /\ db' = db
                 /\ w' = w \/ (chain_check(w, o) /\ w'.ops = w.ops \cup {o})
      BY <1>2, <2>2 DEF upload_op, OpAcceptable
    <2>3. ASSUME NEW r \in Snap, upload_snapshot(r)
          PROVE  db' = db /\ w'.ops = w.ops
      BY <1>3, <2>3 DEF upload_snapshot
    <2> QED BY <1>5, <2>1, <2>2, <2>3 DEF Upload
  <1>6. CASE Heal
    <2>1. CASE BeginHeal \/ HealRecordsDone \/ CommitHeal
      BY <2>1 DEF BeginHeal, Begin, HealRecordsDone, CommitHeal, Rollback
    <2>2. ASSUME NEW o \in Op, NEW b \in BOOLEAN, heal_op(o, b)
          PROVE  /\ db' = db
                 /\ w' = db \/ (chain_check(w, o) /\ w'.ops = w.ops \cup {o})
      BY <1>2, <2>2 DEF heal_op, OpAcceptable, Rollback
    <2>3. ASSUME NEW r \in Snap, heal_snapshot(r)
          PROVE  db' = db /\ (w' = db \/ w'.ops = w.ops)
      BY <1>3, <2>3 DEF heal_snapshot, Rollback
    <2> QED BY <1>6, <2>1, <2>2, <2>3 DEF Heal
  <1>7. CASE Compact
    <2>1. CASE CommitCompact
      BY <2>1 DEF CommitCompact
    <2>2. CASE \E i \in Items : BeginCompact(i)
      BY <2>2 DEF BeginCompact, Begin
    <2>3. CASE CompactR1
      BY <1>1, <2>3 DEF CompactR1, Tables
    <2>4. ASSUME NEW s \in w.snaps, r3_test(s)
          PROVE  w'.ops = w.ops /\ db' = db
      BY <1>1, <2>4 DEF r3_test, Tables
    <2> QED BY <1>7, <2>1, <2>2, <2>3, <2>4 DEF Compact
  <1>8. CASE Abort
    BY <1>8 DEF Abort, Rollback
  <1>9. CASE AuthStep
    BY <1>9 DEF AuthStep, suspend_device, unsuspend_device, apply_rotation, RotateTo,
                RevokeWithRotation, SelfRevoke, Expire
  <1> QED BY <1>4, <1>5, <1>6, <1>7, <1>8, <1>9 DEF Next

\* A transaction never writes below a committed op of the same device.
LEMMA GrowsInductive == Spec => []GrowsAtEnd
  <1>1. Init => GrowsAtEnd
    BY DEF Init, GrowsAtEnd
  <1>2. ASSUME IInv, GrowsAtEnd, [Next]_vars PROVE GrowsAtEnd'
    <2>1. CASE w'.ops = db'.ops
      BY <2>1 DEF GrowsAtEnd
    <2>2. CASE w'.ops = w.ops /\ db'.ops = db.ops
      BY <1>2, <2>2 DEF GrowsAtEnd
    <2>3. ASSUME NEW o \in Op, db' = db, chain_check(w, o), w'.ops = w.ops \cup {o}
          PROVE  GrowsAtEnd'
      <3>1. w \in Tables /\ HasHeads(w) /\ db.ops \subseteq w.ops
        BY <1>2 DEF IInv, TypeOK, TablesInv, Extends
      <3>2. o.dev \in Devices /\ o.seq \in Nat /\ o.prev \in Nat
        BY BoundsAssumption DEF Op, Seqs
      <3>3. 0 < o.seq
        BY <2>3, <3>2 DEF chain_check
      <3>4. ASSUME NEW p \in db.ops, p.dev = o.dev PROVE p.seq < o.seq
        <4>1. p \in w.ops /\ p.seq \in Nat
          BY <3>1, <3>4, BoundsAssumption DEF Tables, Op, Seqs
        <4>2. p.seq <= heads(w)[o.dev] /\ heads(w)[o.dev] \in Nat
          BY <3>1, <3>2, <3>4, <4>1, OpsBelowHeads, HeadsAreHeads, BoundsAssumption DEF Seqs
        <4>3. heads(w)[o.dev] < o.seq
          BY <2>3 DEF chain_check
        <4> QED BY <3>2, <4>1, <4>2, <4>3
      <3> QED BY <1>2, <2>3, <3>3, <3>4 DEF GrowsAtEnd
    <2> QED BY <1>2, <2>1, <2>2, <2>3, StepAdds
  <1> QED BY <1>1, <1>2, Inductive, PTL DEF Spec

\* Every committed op can be read.
LEMMA AllReadable ==
  ASSUME IInv PROVE Readable = db.ops
  BY DEF IInv, BodilessCovered, Readable

\* An op that a commit adds was written by a device the account lets write.
LEMMA AddedMayAppend ==
  ASSUME IInv, GrowsAtEnd, NEW o \in w.ops \ db.ops
  PROVE  Vault!MayAppend(o)
  <1>1. /\ w \in Tables /\ HasHeads(w) /\ db \in Tables /\ HasHeads(db)
        /\ o \in Op /\ o.dev \in Devices /\ o.seq \in Nat
    BY BoundsAssumption DEF IInv, TypeOK, TablesInv, Tables, Op, Seqs
  <1>2. standing[o.dev] \in {"active", "suspended", "revoked"}
    BY <1>1 DEF IInv, TypeOK
  <1>3. standing[o.dev] = "revoked" => o.seq <= cutoff[o.dev]
    BY DEF IInv, TablesInv, WithinCutoffs
  <1>4. ASSUME standing[o.dev] = "suspended" PROVE FALSE
    <2>1. heads(w)[o.dev] = heads(db)[o.dev]
      BY <1>1, <1>4 DEF IInv, Extends
    <2>2. o.seq <= heads(w)[o.dev]
      BY <1>1, OpsBelowHeads
    <2>3. IsHead(db.ops, o.dev, heads(db)[o.dev]) /\ heads(db)[o.dev] \in Nat
      BY <1>1, HeadsAreHeads, BoundsAssumption DEF Seqs
    <2>4. heads(db)[o.dev] # 0
      BY <1>1, <2>1, <2>2 DEF GrowsAtEnd
    <2>5. PICK p \in db.ops : p.dev = o.dev /\ p.seq = heads(db)[o.dev]
      BY <2>3, <2>4 DEF IsHead
    <2>6. p.seq < o.seq
      BY <2>5 DEF GrowsAtEnd
    <2> QED BY <1>1, <2>1, <2>2, <2>3, <2>5, <2>6
  <1> QED BY <1>2, <1>3, <1>4 DEF Vault!MayAppend

\* A step that commits no op changes the standing of at most one device, as
\* the abstract vault allows.
LEMMA StepStandings ==
  ASSUME IInv, [Next]_vars
  PROVE  \/ UNCHANGED <<standing, cutoff>>
         \/ /\ db'.ops = db.ops /\ db'.bodies = db.bodies /\ db'.snaps = db.snaps
            /\ \E d \in Devices :
                 \/ /\ standing[d] = "active" /\ UNCHANGED cutoff
                    /\ standing' = [standing EXCEPT ![d] = "suspended"]
                 \/ /\ standing[d] = "suspended" /\ UNCHANGED cutoff
                    /\ standing' = [standing EXCEPT ![d] = "active"]
                 \/ /\ standing[d] # "revoked"
                    /\ \E h \in Seqs : RevokeAt(d, h)
  <1>1. db \in Tables
    BY DEF IInv, TypeOK
  <1>2. CASE AuthStep
    <2>1. ASSUME NEW e \in Epochs, RotateTo(heads(db), e)
          PROVE  db'.ops = db.ops /\ db'.bodies = db.bodies /\ db'.snaps = db.snaps
      BY <1>1, <2>1 DEF RotateTo, Tables
    <2>2. ASSUME NEW d \in Retirable, suspend_device(d) \/ unsuspend_device(d)
          PROVE  /\ db' = db /\ UNCHANGED cutoff
                 /\ \/ standing[d] = "active" /\ standing' = [standing EXCEPT ![d] = "suspended"]
                    \/ standing[d] = "suspended" /\ standing' = [standing EXCEPT ![d] = "active"]
      BY <2>2 DEF suspend_device, unsuspend_device
    <2>3. ASSUME NEW d \in Retirable, NEW h \in Seqs, NEW e \in Epochs,
                 RevokeWithRotation(d, h, heads(db), e)
          PROVE  standing[d] # "revoked" /\ RevokeAt(d, h) /\ RotateTo(heads(db), e)
      BY <2>3 DEF RevokeWithRotation
    <2>4. ASSUME NEW d \in Retirable, NEW h \in Seqs, SelfRevoke(d, h)
          PROVE  standing[d] # "revoked" /\ RevokeAt(d, h) /\ db' = db
      BY <2>4 DEF SelfRevoke
    <2>5. ASSUME \/ \E e \in Epochs : apply_rotation(heads(db), e)
                 \/ \E d \in Retirable : Expire(d)
          PROVE  UNCHANGED <<standing, cutoff>>
      BY <2>5 DEF apply_rotation, Expire, auth
    <2> QED BY <1>2, <2>1, <2>2, <2>3, <2>4, <2>5, RetirableAssumption DEF AuthStep
  <1>3. CASE Upload
    BY <1>3 DEF Upload, BeginUpload, Begin, upload_op, upload_snapshot, CommitUpload, auth
  <1>4. CASE Heal
    BY <1>4 DEF Heal, BeginHeal, Begin, heal_op, HealRecordsDone, heal_snapshot,
                CommitHeal, Rollback, auth
  <1>5. CASE Compact
    BY <1>5 DEF Compact, BeginCompact, Begin, CompactR1, r3_test, CommitCompact, auth
  <1>6. CASE Abort \/ UNCHANGED vars
    BY <1>6 DEF Abort, Rollback, auth, vars
  <1> QED BY <1>2, <1>3, <1>4, <1>5, <1>6 DEF Next

\* Every step of the store is a step of the abstract vault, or none.
LEMMA StepImplements ==
  ASSUME IInv, IInv', GrowsAtEnd, [Next]_vars
  PROVE  [Vault!Next]_(Vault!vars)
  <1>1. Readable = db.ops /\ Readable' = db'.ops
    <2>1. Readable = db.ops
      BY AllReadable
    <2>2. Readable' = db'.ops
      BY DEF IInv, BodilessCovered, Readable
    <2> QED BY <2>1, <2>2
  <1>2. CASE UNCHANGED <<standing, cutoff>>
    <2>1. CASE db'.ops = db.ops
      BY <1>1, <1>2, <2>1 DEF Vault!vars
    <2>2. CASE db'.ops = w.ops
      <3>1. db.ops \subseteq db'.ops
        BY <2>2 DEF IInv, Extends
      <3>2. ASSUME NEW o \in db'.ops \ db.ops
            PROVE  /\ Vault!MayAppend(o)
                   /\ Vault!Links(db'.ops, o)
                   /\ \A p \in db.ops : p.dev = o.dev => p.seq < o.seq
        <4>1. Vault!MayAppend(o)
          BY <2>2, AddedMayAppend
        <4>2. Vault!Links(db'.ops, o)
          BY <2>2 DEF IInv, TablesInv, Linked, Vault!Links
        <4> QED BY <2>2, <4>1, <4>2 DEF GrowsAtEnd
      <3>3. Vault!Append
        BY <1>1, <1>2, <3>1, <3>2 DEF Vault!Append
      <3> QED BY <3>3 DEF Vault!Next
    <2> QED BY <2>1, <2>2, StepCommits
  <1>3. ASSUME db'.ops = db.ops, NEW d \in Devices,
               standing[d] = "active", UNCHANGED cutoff,
               standing' = [standing EXCEPT ![d] = "suspended"]
        PROVE  Vault!Next
    BY <1>1, <1>3 DEF Vault!Next, Vault!Suspend
  <1>4. ASSUME db'.ops = db.ops, NEW d \in Devices,
               standing[d] = "suspended", UNCHANGED cutoff,
               standing' = [standing EXCEPT ![d] = "active"]
        PROVE  Vault!Next
    BY <1>1, <1>4 DEF Vault!Next, Vault!Lift
  <1>5. ASSUME db'.ops = db.ops, NEW d \in Devices, standing[d] # "revoked",
               NEW h \in Seqs, RevokeAt(d, h)
        PROVE  Vault!Next
    <2>1. db \in Tables /\ HasHeads(db) /\ cutoff \in [Devices -> Seqs]
      BY DEF IInv, TypeOK, TablesInv
    <2>2. cutoff'[d] = h /\ \A e \in Devices \ {d} : cutoff'[e] = cutoff[e]
      BY <1>5, <2>1 DEF RevokeAt
    <2>3. ASSUME NEW o \in db.ops, o.dev = d PROVE o.seq <= cutoff'[d]
      <3>1. o.seq <= heads(db)[d] /\ heads(db)[d] \in Seqs /\ o.seq \in Seqs
        BY <2>1, <2>3, OpsBelowHeads, HeadsAreHeads DEF Tables, Op
      <3>2. heads(db)[d] <= h
        BY <1>5, <3>1, BoundsAssumption DEF RevokeAt, Seqs
      <3> QED BY <2>2, <3>1, <3>2, BoundsAssumption DEF Seqs
    <2>4. Vault!Revoke(d)
      BY <1>1, <1>5, <2>2, <2>3 DEF Vault!Revoke, RevokeAt
    <2> QED BY <2>4 DEF Vault!Next
  <1> QED BY <1>2, <1>3, <1>4, <1>5, StepStandings

\* The record store implements the append-only vault: over any sequence of
\* uploads, healing requests, compactions, crashes, suspensions, revocations
\* and rotations, committed chains grow only at their end and under the
\* account's rules, a revocation is final, and no content is ever lost.
THEOREM StoreImplementsVault == Spec => ImplementsVault
  <1>1. Init => Vault!Init
    BY DEF Init, Vault!Init, EmptyTables, Readable
  <1> QED BY <1>1, StepImplements, Inductive, GrowsInductive, PTL
          DEF Spec, ImplementsVault, Vault!Spec
=============================================================================
