--------------------------- MODULE RotationProofs ---------------------------
(* Proofs about Rotation, for any number of devices, rotations, conflicts,   *)
(* stops and commits that outlive their run: the wrap set stays current, no  *)
(* device holds a key the server did not commit, a device opens its cache at *)
(* the account's key, and as long as no commit outlives its run, or no       *)
(* password changes, every device keeps a way to that key.                   *)
EXTENDS Rotation, TLAPS, FiniteSetTheorems, NaturalsInduction, WellFoundedInduction

----------------------------------------------------------------------------
(* The invariant.                                                            *)

(* The keys of the account: one per epoch, up to the account's.              *)
AccountInv ==
    /\ account.seq >= 1
    /\ account.key \in committed
    /\ account.key.e <= made + 1
    /\ Devices \subseteq account.set
    /\ \A k \in committed : k.e \in 1..account.key.e /\ k.n <= made
    /\ \A k, l \in committed : k.e = l.e => k = l
    /\ \A e \in 1..account.key.e : \E k \in committed : k.e = e

(* The vault: the wrap set has a row of the current key for every op, and no *)
(* other row.                                                                *)
VaultInv ==
    /\ WrapSetCurrent
    /\ \A o \in Devices \ vault.ops : vault.wraps[o] = NoKey

(* The commits that exist anywhere, each built on a state that the account   *)
(* held: at the account's position, on that very state. None drops a row,    *)
(* and each knows only ops that the vault has.                               *)
Bound == ({disk[d].pending : d \in Devices} \cup {run[d].body : d \in Devices}
            \cup {m.body : m \in late}) \ {NoBody}
BodyOK(b) ==
    /\ b.base.seq <= account.seq
    /\ b.base.seq = account.seq => b.base = account
    /\ b.base.key \in committed
    /\ b.state.seq = b.base.seq + 1 /\ b.state.pw = b.base.pw /\ b.state.set = b.base.set
    /\ b.state.key.e = b.base.key.e + 1
    /\ b.state.key.e <= made + 1
    /\ b.state.key.n \in 1..made
    /\ b.drop = {}
    /\ b.cursor \subseteq vault.ops
    /\ b.rewrap \subseteq vault.ops
    /\ Devices \subseteq b.base.set
BodiesInv == \A b \in Bound : BodyOK(b)

(* A key is made by one device, and no device has a grant of a key it made.  *)
MakersInv == \A b, c \in Bound : b.state.key.n = c.state.key.n => b.by = c.by
GrantsInv == \A g \in grants :
    /\ g.from \in committed
    /\ g.key \in committed
    /\ g.key.e = g.from.e + 1
    /\ \A b \in Bound : b.state.key.n = g.key.n => b.by # g.to

(* A run between its own commit and the end of it.                           *)
Own(R) == ~R.settling /\ R.pc \in {"sent", "refetch", "rebuild", "refused"}

(* A run that takes over keys it does not have on disk yet.                  *)
Following == {"grants", "catch_up", "password", "adopt"}

(* The file D of device d.                                                   *)
FileOK(d, D) ==
    /\ D.key \in committed
    /\ D.pw <= account.pw
    /\ D.own.key \in committed \cup {NoKey}
    /\ D.pending = NoBody \/ D.pending.by = d
    /\ D.ops \ {d} \subseteq vault.ops
    /\ d \in D.ops => D.own.key # NoKey
    /\ D.own.acked <=> d \in vault.ops
    /\ D.own.acked => D.own.key # NoKey
CacheOK(d, D) ==
    D.key = account.key =>
        \A o \in D.ops : o \in D.wraps \/ (o = d /\ (D.own.key = D.key \/ ~D.own.acked))

(* Its run R, over that file.                                                *)
KeysOK(D, R) ==
    /\ R.pw <= account.pw
    /\ R.pc \in {"sent", "refetch", "rebuild"} => R.token <= account.pw
    /\ R.ops \subseteq D.ops
    /\ R.pc \notin Following \cup {"off"} => R.key = D.key
    /\ R.pc \in {"password", "adopt", "ack"} => R.key = R.view.key
    /\ R.pc \in Following =>
          /\ R.view.key \in committed
          /\ D.key.e <= R.view.key.e
          /\ D.pending = NoBody \/ D.pending.state.key.e <= R.view.key.e
    /\ R.pc \in {"fetch_again", "synced"} \/ Own(R) => D.own.key = NoKey \/ D.own.acked
    /\ R.pc \in {"synced", "rebuild"} =>
          \A o \in Devices : R.rows[o] = NoKey
             \/ (o \in vault.ops /\ R.rows[o] \in committed /\ R.rows[o].e >= R.key.e)
PendingOK(D, R) ==
    /\ R.pc \in {"settle_again", "reauth", "probe", "probe_again", "promote"} => R.settling
    /\ R.pc \in {"open", "fetch", "upload", "fetch_again", "synced", "refetch", "rebuild", "refused"}
          => ~R.settling
    /\ R.pc \in {"ack", "fetch", "upload", "fetch_again", "synced"} => D.pending = NoBody
    /\ R.pc \in {"settle_again", "reauth", "probe", "probe_again", "promote", "sent",
                 "refetch", "rebuild", "refused"} => R.body = D.pending /\ R.body # NoBody
    /\ R.pc \in {"probe", "probe_again"} =>
          /\ R.view.key \in committed
          /\ D.key.e <= R.view.key.e
          /\ R.body.state.key.e < R.view.key.e
    /\ R.pc = "promote" => R.body.state.key \in committed
    /\ R.pc = "reauth" /\ lates = 0 => R.body.state.key \notin committed
OwnOK(R) ==
    Own(R) => /\ R.key = R.body.base.key
              /\ R.body.state.key \notin committed
              /\ \A m \in late : m.body.state.key.n # R.body.state.key.n
(* A commit that the server will never apply again.                          *)
Dead(b) == \/ b.base.seq < account.seq
           \/ ~(vault.ops \subseteq b.rewrap)
           \/ ~(vault.ops \subseteq b.cursor)

(* A commit that outlived its run is dead or still the pending one of its    *)
(* device; a device about to give its pending one up has none alive.         *)
LateOK(d, D, R) ==
    account.pw = 0 => \A m \in late : m.body.by = d =>
        \/ Dead(m.body)
        \/ D.pending = m.body /\ R.pc \notin {"settle_again", "probe_again"}

(* The way of device d to the account's key: from the key of its file a      *)
(* grant for each later epoch, or the pending rotation of its own.           *)
WayOK(d, D) ==
    lates = 0 \/ account.pw = 0 => \A k \in committed : k.e > D.key.e =>
        \/ k = D.pending.state.key
        \/ \E g \in grants : g.to = d /\ g.key = k

DeviceOK(d, D, R) ==
    /\ R.body = NoBody \/ R.body.by = d
    /\ FileOK(d, D)
    /\ CacheOK(d, D)
    /\ KeysOK(D, R)
    /\ PendingOK(D, R)
    /\ OwnOK(R)
    /\ LateOK(d, D, R)
    /\ WayOK(d, D)
DevicesInv == \A d \in Devices : DeviceOK(d, disk[d], run[d])

LatesInv ==
    /\ lates = 0 => late = {}
    /\ \A m \in late : m.body # NoBody /\ m.body.by \in Devices

RotationInv ==
    /\ TypeOK
    /\ AccountInv
    /\ VaultInv
    /\ BodiesInv
    /\ MakersInv
    /\ GrantsInv
    /\ LatesInv
    /\ DevicesInv

----------------------------------------------------------------------------
(* Facts about the types.                                                    *)

LEMMA NoneTyped ==
    /\ NoKey \in Keys
    /\ FirstKey \in Keys
    /\ NoBody \in Bodies
    /\ Idle \in Runs
    /\ NoState \in States
  <1>. USE RotationConstants
  <1>1. NoKey \in Keys
    BY DEF NoKey, Keys
  <1>2. FirstKey \in Keys
    BY DEF FirstKey, Keys
  <1>3. NoState \in States
    BY <1>1 DEF NoState, States
  <1>4. NoBody \in Bodies
    BY DEF NoBody, Bodies, Members
  <1>5. Idle \in Runs
    BY <1>1, <1>3, <1>4 DEF Idle, Runs, Pcs
  <1>. QED
    BY <1>1, <1>2, <1>3, <1>4, <1>5

LEMMA NoneIs ==
    /\ NoKey.e = 0
    /\ NoBody.state.key = NoKey
    /\ NoBody.state.seq = 0
    /\ Idle.pc = "off" /\ Idle.ops = {} /\ Idle.body = NoBody /\ ~Idle.settling
    /\ Idle.pw = 0
  BY DEF NoKey, NoBody, NoState, Idle

(* The parts of a typed state.                                               *)
LEMMA Parts ==
    ASSUME TypeOK
    PROVE  /\ account.seq \in Nat /\ account.key \in Keys /\ account.pw \in 0..MaxChanges
           /\ vault.ops \in SUBSET Devices
           /\ vault.wraps \in [Devices -> Keys] /\ vault.carried \in [Devices -> Keys]
           /\ \A d \in Devices : disk[d] \in Files /\ run[d] \in Runs
           /\ \A m \in late : m.body \in Bodies
  BY DEF TypeOK, States, Vaults

LEMMA KeyParts ==
    /\ \A k \in Keys : k.e \in Nat /\ k.n \in Nat /\ k.e <= MaxKeys + 1 /\ k.n <= MaxKeys
    /\ \A s \in States \cup {NoState} : s \in States
    /\ \A s \in States : s.seq \in Nat /\ s.key \in Keys /\ s.pw \in Nat /\ s.pw \in 0..MaxChanges
                           /\ s.set \subseteq Members
    /\ \A b \in Bodies : b.base \in States /\ b.state \in States
                           /\ b.rewrap \subseteq Devices /\ b.drop \subseteq Devices
                           /\ b.cursor \subseteq Devices
  <1>. USE RotationConstants
  <1>1. \A k \in Keys : k.e \in Nat /\ k.n \in Nat /\ k.e <= MaxKeys + 1 /\ k.n <= MaxKeys
    BY DEF Keys
  <1>2. \A s \in States \cup {NoState} : s \in States
    BY NoneTyped
  <1>3. \A s \in States : s.seq \in Nat /\ s.key \in Keys /\ s.pw \in Nat /\ s.pw \in 0..MaxChanges
                           /\ s.set \subseteq Members
    BY DEF States
  <1>4. \A b \in Bodies : b.base \in States /\ b.state \in States
                           /\ b.rewrap \subseteq Devices /\ b.drop \subseteq Devices
                           /\ b.cursor \subseteq Devices
    BY <1>2 DEF Bodies
  <1>. QED
    BY <1>1, <1>2, <1>3, <1>4

LEMMA FileParts ==
    ASSUME NEW D \in Files
    PROVE  /\ D.key \in Keys /\ D.pw \in Nat /\ D.pw \in 0..MaxChanges /\ D.pending \in Bodies
           /\ D.wraps \subseteq Devices /\ D.ops \subseteq Devices
           /\ D.own.key \in Keys /\ D.own.acked \in BOOLEAN
           /\ D.own \in [key : Keys, ctx : SUBSET Devices, acked : BOOLEAN]
  BY RotationConstants DEF Files

LEMMA RunParts ==
    ASSUME NEW R \in Runs
    PROVE  /\ R.pc \in Pcs /\ R.key \in Keys /\ R.pw \in Nat /\ R.pw \in 0..MaxChanges
           /\ R.view \in States /\ R.ops \subseteq Devices /\ R.rows \in [Devices -> Keys]
           /\ R.body \in Bodies /\ R.token \in Nat /\ R.token \in 0..MaxChanges
           /\ R.rebuilds \in Nat /\ R.settling \in BOOLEAN /\ R.ack \in BOOLEAN
           /\ R.stale \in BOOLEAN
  <1>1. R.view \in States
    BY KeyParts DEF Runs
  <1>. QED
    BY <1>1, RotationConstants DEF Runs


----------------------------------------------------------------------------
(* Facts about a state of the invariant.                                     *)

LEMMA KeysOrdered ==
    ASSUME TypeOK, AccountInv
    PROVE  \A k \in committed : /\ k \in Keys /\ k.e \in Nat /\ k.n \in Nat
                                /\ k.e >= 1 /\ k # NoKey
                                /\ k.e <= account.key.e
                                /\ k.e = account.key.e => k = account.key
  <1>1. \A k \in committed : k \in Keys /\ k.e \in Nat /\ k.n \in Nat
    BY KeyParts DEF TypeOK
  <1>2. \A k \in committed : k.e >= 1 /\ k.e <= account.key.e
    BY <1>1, Parts, KeyParts DEF AccountInv
  <1>3. \A k \in committed : k # NoKey
    BY <1>2, NoneIs
  <1>4. \A k \in committed : k.e = account.key.e => k = account.key
    BY DEF AccountInv
  <1>. QED
    BY <1>1, <1>2, <1>3, <1>4

LEMMA BoundParts ==
    ASSUME TypeOK
    PROVE  /\ \A d \in Devices : disk[d].pending = NoBody \/ disk[d].pending \in Bound
           /\ \A d \in Devices : run[d].body = NoBody \/ run[d].body \in Bound
           /\ \A m \in late : m.body = NoBody \/ m.body \in Bound
           /\ \A b \in Bound : b \in Bodies /\ b # NoBody
  <1>1. \A d \in Devices : disk[d].pending \in Bodies /\ run[d].body \in Bodies
    BY Parts, FileParts, RunParts
  <1>. QED
    BY <1>1, Parts DEF Bound

(* A commit whose key's epoch the account has reached was overtaken.         *)
LEMMA Outdated ==
    ASSUME TypeOK, AccountInv, BodiesInv,
           NEW b \in Bound, b.state.key.e <= account.key.e
    PROVE  b.base.seq < account.seq
  <1>1. b \in Bodies /\ BodyOK(b)
    BY BoundParts DEF BodiesInv
  <1>2. b.base.seq \in Nat /\ account.seq \in Nat /\ b.base.key.e \in Nat /\ account.key.e \in Nat
    BY <1>1, Parts, KeyParts
  <1>3. b.state.key.e = b.base.key.e + 1 /\ b.base.seq <= account.seq
        /\ (b.base.seq = account.seq => b.base = account)
    BY <1>1 DEF BodyOK
  <1>4. b.base.key.e # account.key.e
    BY <1>2, <1>3
  <1>. QED
    BY <1>2, <1>3, <1>4

----------------------------------------------------------------------------
(* A step of one device that leaves account, vault and commits alone, takes  *)
(* no grant from another and loses at most requests: only what it does to    *)
(* that device has to be looked at.                                          *)

LEMMA DeviceStep ==
    ASSUME RotationInv, NEW d \in Devices,
           UNCHANGED <<account, committed, vault, lates, made>>,
           stops' \in 0..MaxStops,
           grants' \subseteq grants, \A g \in grants : g.to # d => g \in grants',
           late' \subseteq late,
           disk' \in [Devices -> Files], run' \in [Devices -> Runs],
           \A x \in Devices \ {d} : disk'[x] = disk[x] /\ run'[x] = run[x],
           disk'[d].pending \in {NoBody, disk[d].pending, run[d].body},
           run'[d].body \in {NoBody, disk[d].pending, run[d].body},
           DeviceOK(d, disk[d], run[d])'
    PROVE  RotationInv'
  <1>. USE DEF RotationInv
  <1>1. TypeOK'
    BY DEF TypeOK
  <1>2. AccountInv' /\ VaultInv'
    BY DEF AccountInv, VaultInv, WrapSetCurrent
  <1>3. Bound' \subseteq Bound
    <2>1. \A x \in Devices : disk'[x].pending \in {NoBody, disk[x].pending, run[x].body}
                              /\ run'[x].body \in {NoBody, disk[x].pending, run[x].body}
      OBVIOUS
    <2>. QED
      BY <2>1 DEF Bound
  <1>4. BodiesInv'
    BY <1>3 DEF BodiesInv, BodyOK
  <1>5. MakersInv' /\ GrantsInv'
    BY <1>3 DEF MakersInv, GrantsInv
  <1>6. LatesInv'
    BY DEF LatesInv
  <1>7. ASSUME NEW x \in Devices \ {d}
        PROVE  DeviceOK(x, disk[x], run[x])'
    <2>1. DeviceOK(x, disk[x], run[x]) /\ disk'[x] = disk[x] /\ run'[x] = run[x]
      BY DEF DevicesInv
    <2>2. (run[x].body = NoBody \/ run[x].body.by = x)' /\ FileOK(x, disk[x])' /\ CacheOK(x, disk[x])'
      BY <2>1 DEF DeviceOK, FileOK, CacheOK
    <2>3. KeysOK(disk[x], run[x])' /\ PendingOK(disk[x], run[x])'
      <3>1. KeysOK(disk[x], run[x])'
        BY <2>1 DEF DeviceOK, KeysOK, Own
      <3>2. PendingOK(disk[x], run[x])'
        BY <2>1 DEF DeviceOK, PendingOK, Own
      <3>. QED
        BY <3>1, <3>2
    <2>4. OwnOK(run[x])' /\ LateOK(x, disk[x], run[x])'
      BY <2>1 DEF DeviceOK, OwnOK, Own, LateOK, Dead
    <2>5. WayOK(x, disk[x])'
      <3>1. WayOK(x, disk[x])
        BY <2>1 DEF DeviceOK
      <3>2. \A g \in grants : g.to = x => g \in grants'
        OBVIOUS
      <3>. QED
        BY <2>1, <3>1, <3>2 DEF WayOK
    <2>. QED
      BY <2>2, <2>3, <2>4, <2>5 DEF DeviceOK
  <1>8. DevicesInv'
    BY <1>7 DEF DevicesInv
  <1>. QED
    BY <1>1, <1>2, <1>4, <1>5, <1>6, <1>8


(* The same for a step that changes nothing but the device.                  *)
LEMMA QuietStep ==
    ASSUME RotationInv, NEW d \in Devices,
           UNCHANGED <<account, committed, vault, grants, late, lates, made>>,
           stops' \in 0..MaxStops,
           disk' \in [Devices -> Files], run' \in [Devices -> Runs],
           \A x \in Devices \ {d} : disk'[x] = disk[x] /\ run'[x] = run[x],
           disk'[d].pending \in {NoBody, disk[d].pending, run[d].body},
           run'[d].body \in {NoBody, disk[d].pending, run[d].body},
           DeviceOK(d, disk'[d], run'[d])
    PROVE  RotationInv'
  <1>1. (run[d].body = NoBody \/ run[d].body.by = d)' /\ FileOK(d, disk[d])' /\ CacheOK(d, disk[d])'
    BY DEF DeviceOK, FileOK, CacheOK
  <1>2. KeysOK(disk[d], run[d])' /\ PendingOK(disk[d], run[d])'
    BY DEF DeviceOK, KeysOK, PendingOK
  <1>3. OwnOK(run[d])' /\ LateOK(d, disk[d], run[d])' /\ WayOK(d, disk[d])'
    BY DEF DeviceOK, OwnOK, LateOK, Dead, WayOK
  <1>4. DeviceOK(d, disk[d], run[d])'
    BY <1>1, <1>2, <1>3 DEF DeviceOK
  <1>. QED
    BY <1>4, DeviceStep

(* A run that ends leaves its file as it was.                                *)
LEMMA IdleOK ==
    ASSUME RotationInv, NEW d \in Devices
    PROVE  DeviceOK(d, disk[d], Idle)
  <1>1. DeviceOK(d, disk[d], run[d]) /\ account.pw \in Nat
    BY Parts, KeyParts DEF RotationInv, DevicesInv, TypeOK
  <1>2. FileOK(d, disk[d]) /\ CacheOK(d, disk[d]) /\ WayOK(d, disk[d])
    BY <1>1 DEF DeviceOK
  <1>3. KeysOK(disk[d], Idle) /\ PendingOK(disk[d], Idle) /\ OwnOK(Idle)
    BY <1>1, NoneIs DEF KeysOK, PendingOK, OwnOK, Own, Following
  <1>4. LateOK(d, disk[d], Idle)
    BY <1>1, NoneIs DEF DeviceOK, LateOK
  <1>. QED
    BY <1>2, <1>3, <1>4, NoneIs DEF DeviceOK

LEMMA EndsKeeps ==
    ASSUME RotationInv, NEW d \in Devices, Ends(d), UNCHANGED <<disk, server, late, lates, made>>,
           stops' \in 0..MaxStops
    PROVE  RotationInv'
  <1>1. disk' \in [Devices -> Files] /\ run' \in [Devices -> Runs] /\ run'[d] = Idle
        /\ \A x \in Devices \ {d} : disk'[x] = disk[x] /\ run'[x] = run[x]
    BY NoneTyped DEF RotationInv, TypeOK, Ends, Goes
  <1>2. DeviceOK(d, disk'[d], run'[d])
    BY <1>1, IdleOK
  <1>. QED
    BY <1>1, <1>2, QuietStep, NoneIs DEF server


(* A step that moves only the run.                                           *)
Giving == {"settle_again", "probe_again"}
LEMMA RunStep ==
    ASSUME RotationInv, NEW d \in Devices,
           UNCHANGED <<disk, account, committed, vault, grants, late, lates, made>>,
           stops' \in 0..MaxStops,
           run' \in [Devices -> Runs],
           \A x \in Devices \ {d} : run'[x] = run[x],
           run'[d].body \in {NoBody, disk[d].pending, run[d].body},
           run'[d].pc \in Giving => run[d].pc \in Giving,
           KeysOK(disk[d], run'[d]), PendingOK(disk[d], run'[d]), OwnOK(run'[d])
    PROVE  RotationInv'
  <1>1. DeviceOK(d, disk[d], run[d])
    BY DEF RotationInv, DevicesInv
  <1>2. FileOK(d, disk[d]) /\ CacheOK(d, disk[d]) /\ WayOK(d, disk[d])
    BY <1>1 DEF DeviceOK
  <1>3. LateOK(d, disk[d], run'[d])
    BY <1>1 DEF DeviceOK, LateOK, Giving
  <1>4. run'[d].body = NoBody \/ run'[d].body.by = d
    BY <1>1 DEF DeviceOK, FileOK
  <1>5. DeviceOK(d, disk'[d], run'[d])
    BY <1>2, <1>3, <1>4 DEF DeviceOK
  <1>6. disk' \in [Devices -> Files]
    BY DEF RotationInv, TypeOK
  <1>. QED
    BY <1>5, <1>6, QuietStep

LEMMA StartKeeps ==
    ASSUME RotationInv, NEW d \in Devices, Start(d)
    PROVE  RotationInv'
  <1>. DEFINE R == run'[d]
  <1>1. disk[d] \in Files /\ FileOK(d, disk[d]) /\ run \in [Devices -> Runs]
    BY Parts DEF RotationInv, DevicesInv, DeviceOK, TypeOK
  <1>2. PICK ops \in SUBSET disk[d].ops :
          /\ run' = [run EXCEPT ![d] = [Idle EXCEPT !.pc = "open", !.key = disk[d].key,
                                          !.pw = disk[d].pw, !.ops = ops]]
          /\ UNCHANGED <<disk, account, committed, vault, grants, late, lates, made, stops>>
    BY DEF Start, Goes, server, budget
  <1>3. R = [Idle EXCEPT !.pc = "open", !.key = disk[d].key, !.pw = disk[d].pw, !.ops = ops]
    BY <1>1, <1>2
  <1>4. /\ disk[d].key \in Keys /\ disk[d].pw \in 0..MaxChanges /\ ops \in SUBSET Devices
        /\ stops \in 0..MaxStops
    BY <1>1, FileParts DEF RotationInv, TypeOK
  <1>5. R \in Runs
    BY <1>3, <1>4, NoneTyped DEF Runs, Pcs
  <1>6. /\ R.pc = "open" /\ R.key = disk[d].key /\ R.pw = disk[d].pw /\ R.ops = ops
        /\ R.body = NoBody /\ ~R.settling
    BY <1>3 DEF Idle
  <1>7. run' \in [Devices -> Runs] /\ \A x \in Devices \ {d} : run'[x] = run[x]
    BY <1>1, <1>2, <1>3, <1>5
  <1>. HIDE DEF R
  <1>8. KeysOK(disk[d], R) /\ PendingOK(disk[d], R) /\ OwnOK(R)
    BY <1>1, <1>6 DEF KeysOK, PendingOK, OwnOK, Own, Following, FileOK
  <1>. QED
    BY <1>2, <1>4, <1>6, <1>7, <1>8, RunStep DEF Giving, R


LEMMA WriteKeeps ==
    ASSUME RotationInv, NEW d \in Devices, Write(d)
    PROVE  RotationInv'
  <1>. DEFINE D == disk'[d]
              R == run'[d]
  <1>1. /\ disk[d] \in Files /\ run[d] \in Runs /\ DeviceOK(d, disk[d], run[d])
        /\ disk \in [Devices -> Files] /\ run \in [Devices -> Runs] /\ stops \in 0..MaxStops
    BY Parts DEF RotationInv, DevicesInv, TypeOK
  <1>2. /\ run[d].pc = "open" /\ disk[d].own.key = NoKey
        /\ disk' = [disk EXCEPT ![d].own = [key |-> run[d].key, ctx |-> run[d].ops, acked |-> FALSE],
                                ![d].ops = @ \cup {d}]
        /\ run' = [run EXCEPT ![d] = [run[d] EXCEPT !.ops = @ \cup {d}]]
        /\ UNCHANGED <<account, committed, vault, grants, late, lates, made, stops>>
    BY DEF Write, Goes, server, budget
  <1>3. /\ D = [disk[d] EXCEPT !.own = [key |-> run[d].key, ctx |-> run[d].ops, acked |-> FALSE],
                               !.ops = @ \cup {d}]
        /\ R = [run[d] EXCEPT !.ops = @ \cup {d}]
    BY <1>1, <1>2
  <1>4. /\ [key |-> run[d].key, ctx |-> run[d].ops, acked |-> FALSE]
              \in [key : Keys, ctx : SUBSET Devices, acked : BOOLEAN]
        /\ (run[d].ops \cup {d}) \in SUBSET Devices
        /\ (disk[d].ops \cup {d}) \in SUBSET Devices
    BY <1>1, FileParts, RunParts
  <1>5. D \in Files
    BY <1>1, <1>3, <1>4 DEF Files
  <1>6. R \in Runs
    BY <1>1, <1>3, <1>4 DEF Runs
  <1>7. /\ D.key = disk[d].key /\ D.pw = disk[d].pw /\ D.pending = disk[d].pending
        /\ D.wraps = disk[d].wraps /\ D.ops = disk[d].ops \cup {d}
        /\ D.own.key = run[d].key /\ ~D.own.acked
    BY <1>1, <1>3 DEF Files
  <1>8. /\ R.pc = "open" /\ R.key = run[d].key /\ R.pw = run[d].pw /\ R.ops = run[d].ops \cup {d}
        /\ R.body = run[d].body /\ R.settling = run[d].settling
    BY <1>1, <1>2, <1>3 DEF Runs
  <1>9. /\ disk' \in [Devices -> Files] /\ run' \in [Devices -> Runs]
        /\ \A x \in Devices \ {d} : disk'[x] = disk[x] /\ run'[x] = run[x]
    BY <1>1, <1>2, <1>3, <1>5, <1>6
  <1>. HIDE DEF D, R
  <1>10. /\ FileOK(d, disk[d]) /\ CacheOK(d, disk[d]) /\ KeysOK(disk[d], run[d])
         /\ PendingOK(disk[d], run[d]) /\ LateOK(d, disk[d], run[d]) /\ WayOK(d, disk[d])
         /\ (run[d].body = NoBody \/ run[d].body.by = d)
    BY <1>1 DEF DeviceOK
  <1>11. run[d].key = disk[d].key /\ run[d].key # NoKey /\ run[d].ops \subseteq disk[d].ops
    BY <1>2, <1>10, KeysOrdered DEF KeysOK, FileOK, Following, RotationInv
  <1>12. FileOK(d, D)
    BY <1>2, <1>7, <1>10, <1>11 DEF FileOK
  <1>13. CacheOK(d, D)
    BY <1>7, <1>10 DEF CacheOK
  <1>14. KeysOK(D, R) /\ PendingOK(D, R) /\ OwnOK(R)
    BY <1>2, <1>7, <1>8, <1>10, <1>11 DEF KeysOK, PendingOK, OwnOK, Own, Following
  <1>15. LateOK(d, D, R) /\ WayOK(d, D)
    BY <1>2, <1>7, <1>8, <1>10 DEF LateOK, WayOK
  <1>16. DeviceOK(d, D, R)
    BY <1>8, <1>10, <1>12, <1>13, <1>14, <1>15 DEF DeviceOK
  <1>. QED
    BY <1>1, <1>2, <1>7, <1>8, <1>9, <1>16, QuietStep DEF D, R

----------------------------------------------------------------------------
(* The account's answer.                                                     *)

(* A pending commit whose epoch the committed key k has reached can be given *)
(* up by a device that holds k: no request for it is alive, and no grant is  *)
(* missed.                                                                   *)
LEMMA PendingDone ==
    ASSUME RotationInv, NEW d \in Devices, NEW k \in committed,
           disk[d].pending = NoBody \/ disk[d].pending.state.key.e <= k.e
    PROVE  /\ \A m \in late : m.body.by = d /\ m.body = disk[d].pending => Dead(m.body)
           /\ \A l \in committed : l.e > k.e => l # disk[d].pending.state.key
  <1>. USE DEF RotationInv
  <1>1. k.e \in Nat /\ k.e <= account.key.e /\ k.e >= 1 /\ account.key.e \in Nat
    BY KeysOrdered, Parts, KeyParts
  <1>2. disk[d].pending \in Bodies /\ disk[d].pending.state.key.e \in Nat
    BY Parts, FileParts, KeyParts
  <1>3. ASSUME NEW m \in late, m.body = disk[d].pending
        PROVE  Dead(m.body)
    <2>1. m.body # NoBody /\ m.body \in Bound
      BY <1>3, BoundParts DEF LatesInv
    <2>2. m.body.state.key.e <= account.key.e
      BY <1>1, <1>2, <1>3, <2>1
    <2>3. m.body.base.seq < account.seq
      BY <2>1, <2>2, Outdated
    <2>. QED
      BY <2>3 DEF Dead
  <1>4. ASSUME NEW l \in committed, l.e > k.e
        PROVE  l # disk[d].pending.state.key
    BY <1>1, <1>2, <1>4, NoneIs, KeysOrdered
  <1>. QED
    BY <1>3, <1>4


(* The file that adopts keys r.key of a committed answer, and a run over it: *)
(* the parts that both ways of adopting share.                               *)
LEMMA AdoptedWay ==
    ASSUME RotationInv, NEW d \in Devices, NEW k \in committed,
           disk[d].key.e <= k.e,
           disk[d].pending = NoBody \/ disk[d].pending.state.key.e <= k.e,
           NEW D, D.key = k, D.pending = NoBody, NEW R
    PROVE  LateOK(d, D, R) /\ WayOK(d, D)
  <1>1. DeviceOK(d, disk[d], run[d])
    BY DEF RotationInv, DevicesInv
  <1>2. LateOK(d, disk[d], run[d]) /\ WayOK(d, disk[d])
    BY <1>1 DEF DeviceOK
  <1>3. /\ \A m \in late : m.body.by = d /\ m.body = disk[d].pending => Dead(m.body)
        /\ \A l \in committed : l.e > k.e => l # disk[d].pending.state.key
    BY PendingDone
  <1>4. LateOK(d, D, R)
    BY <1>2, <1>3 DEF LateOK
  <1>5. \A l \in committed : l.e > k.e => l.e > disk[d].key.e
    BY KeysOrdered, Parts, FileParts, KeyParts DEF RotationInv
  <1>6. WayOK(d, D)
    BY <1>2, <1>3, <1>5 DEF WayOK
  <1>. QED
    BY <1>4, <1>6

(* A device of a state of the invariant.                                     *)
LEMMA At ==
    ASSUME RotationInv, NEW d \in Devices
    PROVE  /\ disk[d] \in Files /\ run[d] \in Runs /\ account \in States
           /\ disk \in [Devices -> Files] /\ run \in [Devices -> Runs] /\ stops \in 0..MaxStops
           /\ account.pw \in Nat /\ account.pw \in 0..MaxChanges
           /\ account.key \in committed /\ account.key \in Keys
           /\ FileOK(d, disk[d]) /\ CacheOK(d, disk[d]) /\ KeysOK(disk[d], run[d])
           /\ PendingOK(disk[d], run[d]) /\ OwnOK(run[d])
           /\ LateOK(d, disk[d], run[d]) /\ WayOK(d, disk[d])
           /\ (run[d].body = NoBody \/ run[d].body.by = d)
           /\ disk[d].key.e <= account.key.e
  <1>1. DeviceOK(d, disk[d], run[d])
    BY DEF RotationInv, DevicesInv
  <1>2. disk[d].key.e <= account.key.e
    BY <1>1, KeysOrdered DEF DeviceOK, FileOK, RotationInv
  <1>3. account.pw \in Nat
    BY KeyParts DEF RotationInv, TypeOK
  <1>. QED
    BY <1>1, <1>2, <1>3, Parts DEF DeviceOK, RotationInv, TypeOK, AccountInv

(* adopt, when the vault key stays: only the record of the account moves.    *)
LEMMA AdoptInPlace ==
    ASSUME RotationInv, NEW d \in Devices, NEW r \in Runs, NEW s,
           s.key = r.key, s.pw = r.pw,
           r.key = disk[d].key, r.pw <= account.pw, r.ops \subseteq disk[d].ops,
           disk[d].pending = NoBody \/ disk[d].pending.state.key.e <= r.key.e,
           disk' = [disk EXCEPT ![d] = Adopted(d, s, disk[d].wraps, {})],
           Goes(d, Back(r)),
           UNCHANGED <<account, committed, vault, grants, late, lates, made, stops>>
    PROVE  RotationInv'
  <1>. DEFINE D == disk'[d]
              R == run'[d]
  <1>1. D = Adopted(d, s, disk[d].wraps, {}) /\ R = Back(r)
    BY At DEF Goes
  <1>2. /\ D \in Files
        /\ D.key = r.key /\ D.pw = r.pw /\ D.pending = NoBody /\ D.wraps = disk[d].wraps
        /\ D.ops = disk[d].ops /\ D.own = disk[d].own
    <2>1. r.key \in Keys /\ r.pw \in 0..MaxChanges
      BY RunParts
    <2>2. disk[d].ops \cup {} = disk[d].ops
      OBVIOUS
    <2>3. D = [disk[d] EXCEPT !.key = r.key, !.pw = r.pw, !.pending = NoBody,
                              !.wraps = disk[d].wraps, !.ops = disk[d].ops]
      BY <1>1, <2>2 DEF Adopted
    <2>4. disk[d] \in Files /\ NoBody \in Bodies
      BY At, NoneTyped
    <2>. HIDE DEF D
    <2>. QED
      BY <2>1, <2>3, <2>4 DEF Files
  <1>3. /\ R \in Runs
        /\ R.key = r.key /\ R.pw = r.pw /\ R.ops = r.ops /\ R.body = NoBody
        /\ ~R.settling /\ R.pc \in {"upload", "fetch"}
    BY <1>1, NoneTyped, RotationConstants, ZenonT(60) DEF Back, Runs, Pcs, Idle
  <1>4. /\ disk' \in [Devices -> Files] /\ run' \in [Devices -> Runs]
        /\ \A x \in Devices \ {d} : disk'[x] = disk[x] /\ run'[x] = run[x]
    BY <1>1, <1>2, <1>3, At DEF Goes
  <1>. HIDE DEF D, R
  <1>5. FileOK(d, disk[d]) /\ CacheOK(d, disk[d]) /\ disk[d].key.e \in Nat
    BY At, FileParts, KeyParts
  <1>6. FileOK(d, D) /\ CacheOK(d, D)
    BY <1>2, <1>5 DEF FileOK, CacheOK
  <1>7. KeysOK(D, R) /\ PendingOK(D, R) /\ OwnOK(R)
    BY <1>2, <1>3 DEF KeysOK, PendingOK, OwnOK, Own, Following
  <1>8. LateOK(d, D, R) /\ WayOK(d, D)
    BY <1>2, <1>5, AdoptedWay DEF FileOK
  <1>9. DeviceOK(d, D, R)
    BY <1>3, <1>6, <1>7, <1>8 DEF DeviceOK
  <1>. QED
    BY <1>2, <1>3, <1>4, <1>9, At, QuietStep DEF D, R

(* apply_view, on a state that the server held and with keys of this run or  *)
(* of its pending rotation.                                                  *)
LEMMA ApplyViewKeeps ==
    ASSUME RotationInv, NEW d \in Devices, NEW r \in Runs, NEW v \in States,
           ApplyView(d, r, v), UNCHANGED <<server, late, budget>>,
           v.key \in committed, disk[d].key.e <= v.key.e,
           disk[d].pending = NoBody \/ disk[d].pending.state.key.e <= v.key.e,
           r.pw <= account.pw, r.ops \subseteq disk[d].ops,
           r.body \in {NoBody, disk[d].pending, run[d].body}
    PROVE  RotationInv'
  <1>. DEFINE seen == [r EXCEPT !.view = v]
  <1>1. /\ disk[d] \in Files /\ DeviceOK(d, disk[d], run[d])
        /\ disk \in [Devices -> Files] /\ run \in [Devices -> Runs] /\ stops \in 0..MaxStops
    BY Parts DEF RotationInv, DevicesInv, TypeOK
  <1>2. UNCHANGED <<account, committed, vault, grants, late, lates, made, stops>>
    BY DEF server, budget
  <1>3. \/ r.key.e < v.key.e /\ Goes(d, [seen EXCEPT !.pc = "grants"]) /\ UNCHANGED disk
        \/ r.key = v.key /\ Goes(d, [seen EXCEPT !.pc = "password"]) /\ UNCHANGED disk
        \/ r.key = v.key /\ Goes(d, [seen EXCEPT !.pc = "adopt"]) /\ UNCHANGED disk
        \/ /\ r.key = v.key /\ r.key = disk[d].key
           /\ disk' = [disk EXCEPT ![d] = Adopted(d, seen, disk[d].wraps, {})]
           /\ Goes(d, Back(r))
        \/ Ends(d) /\ UNCHANGED disk
    BY Zenon DEF ApplyView
  <1>4. CASE Ends(d) /\ UNCHANGED disk
    BY <1>1, <1>2, <1>4, EndsKeeps DEF server
  <1>5. ASSUME NEW p \in {"grants", "password", "adopt"},
               p # "grants" => r.key = v.key,
               Goes(d, [seen EXCEPT !.pc = p]), UNCHANGED disk
        PROVE  RotationInv'
    <2>. DEFINE R == run'[d]
    <2>1. R = [r EXCEPT !.view = v, !.pc = p] /\ p \in Pcs
      BY <1>1, <1>5 DEF Goes, Pcs
    <2>2. R \in Runs
      BY <2>1 DEF Runs
    <2>3. /\ R.pc = p /\ R.key = r.key /\ R.pw = r.pw /\ R.ops = r.ops /\ R.body = r.body
          /\ R.view = v /\ R.settling = r.settling
      BY <2>1 DEF Runs
    <2>4. run' \in [Devices -> Runs] /\ \A x \in Devices \ {d} : run'[x] = run[x]
      BY <1>1, <1>5, <2>2 DEF Goes
    <2>. HIDE DEF R
    <2>5. KeysOK(disk[d], R) /\ PendingOK(disk[d], R) /\ OwnOK(R)
      BY <1>5, <2>3 DEF KeysOK, PendingOK, OwnOK, Own, Following
    <2>. QED
      BY <1>1, <1>2, <1>5, <2>3, <2>4, <2>5, RunStep DEF Giving, R
  <1>6. CASE /\ r.key = v.key /\ r.key = disk[d].key
             /\ disk' = [disk EXCEPT ![d] = Adopted(d, seen, disk[d].wraps, {})]
             /\ Goes(d, Back(r))
    <2>1. PICK s : s = seen
      OBVIOUS
    <2>2. s.key = r.key /\ s.pw = r.pw
      BY <2>1 DEF Runs
    <2>. QED
      BY <1>2, <1>6, <2>1, <2>2, AdoptInPlace
  <1>. QED
    BY <1>3, <1>4, <1>5, <1>6


LEMMA RefreshKeeps ==
    ASSUME RotationInv, NEW d \in Devices, Refresh(d)
    PROVE  RotationInv'
  <1>1. PICK r : r = run[d]
    OBVIOUS
  <1>2. PICK v : v = account
    OBVIOUS
  <1>3. ApplyView(d, r, v) /\ disk[d].pending = NoBody /\ UNCHANGED <<server, late, budget>>
    BY <1>1, <1>2 DEF Refresh
  <1>4. r \in Runs /\ v \in States /\ v.key \in committed /\ disk[d].key.e <= v.key.e
        /\ r.body = run[d].body
    BY <1>1, <1>2, At
  <1>5. r.pw <= account.pw /\ r.ops \subseteq disk[d].ops
    BY <1>1, At DEF KeysOK
  <1>. QED
    BY <1>3, <1>4, <1>5, ApplyViewKeeps

LEMMA OpenGrantsKeeps ==
    ASSUME RotationInv, NEW d \in Devices, OpenGrants(d)
    PROVE  RotationInv'
  <1>1. /\ run[d].pc = "grants"
        /\ UNCHANGED <<disk, account, committed, vault, grants, late, lates, made, stops>>
        /\ \/ Goes(d, [run[d] EXCEPT !.pc = "catch_up"])
           \/ \E p \in {"password", "adopt"} :
                 Goes(d, [run[d] EXCEPT !.key = run[d].view.key, !.ack = TRUE, !.pc = p])
           \/ Ends(d)
    BY Zenon DEF OpenGrants, server, budget
  <1>2. CASE Ends(d)
    BY <1>1, <1>2, At, EndsKeeps DEF server
  <1>3. KeysOK(disk[d], run[d]) /\ PendingOK(disk[d], run[d]) /\ run[d] \in Runs
        /\ run[d].view.key \in Keys
    BY At, RunParts, KeyParts
  <1>4. ASSUME NEW R, R = run'[d], run' = [run EXCEPT ![d] = R], R \in Runs,
               R.body = run[d].body, R.pw = run[d].pw, R.ops = run[d].ops, R.view = run[d].view,
               R.pc \in {"catch_up", "password", "adopt"},
               R.pc # "catch_up" => R.key = R.view.key
        PROVE  RotationInv'
    <2>1. run' \in [Devices -> Runs] /\ \A x \in Devices \ {d} : run'[x] = run[x]
      BY <1>4, At
    <2>2. KeysOK(disk[d], R) /\ PendingOK(disk[d], R) /\ OwnOK(R)
      BY <1>1, <1>3, <1>4 DEF KeysOK, PendingOK, OwnOK, Own, Following
    <2>. QED
      BY <1>1, <1>4, <2>1, <2>2, At, RunStep DEF Giving
  <1>5. CASE Goes(d, [run[d] EXCEPT !.pc = "catch_up"])
    <2>1. PICK R : R = [run[d] EXCEPT !.pc = "catch_up"]
      OBVIOUS
    <2>2. R = run'[d] /\ run' = [run EXCEPT ![d] = R]
      BY <1>5, <2>1, At DEF Goes
    <2>3. /\ R \in Runs /\ R.pc = "catch_up" /\ R.body = run[d].body /\ R.pw = run[d].pw
          /\ R.ops = run[d].ops /\ R.view = run[d].view
      BY <1>3, <2>1 DEF Runs, Pcs
    <2>. QED
      BY <1>4, <2>2, <2>3
  <1>6. ASSUME NEW p \in {"password", "adopt"},
               Goes(d, [run[d] EXCEPT !.key = run[d].view.key, !.ack = TRUE, !.pc = p])
        PROVE  RotationInv'
    <2>1. PICK R : R = [run[d] EXCEPT !.key = run[d].view.key, !.ack = TRUE, !.pc = p]
      OBVIOUS
    <2>2. R = run'[d] /\ run' = [run EXCEPT ![d] = R]
      BY <1>6, <2>1, At DEF Goes
    <2>3. /\ R \in Runs /\ R.pc = p /\ R.body = run[d].body /\ R.pw = run[d].pw
          /\ R.ops = run[d].ops /\ R.view = run[d].view /\ R.key = run[d].view.key
      BY <1>3, <2>1 DEF Runs, Pcs
    <2>. QED
      BY <1>4, <2>2, <2>3
  <1>. QED
    BY <1>1, <1>2, <1>5, <1>6

LEMMA CatchUpKeeps ==
    ASSUME RotationInv, NEW d \in Devices, CatchUp(d)
    PROVE  RotationInv'
  <1>1. /\ run[d].pc = "catch_up"
        /\ UNCHANGED <<disk, account, committed, vault, grants, late, lates, made, stops>>
        /\ \/ /\ account.key = run[d].view.key
              /\ Goes(d, [run[d] EXCEPT !.key = account.key, !.pc = "adopt"])
           \/ Ends(d)
    BY Zenon DEF CatchUp, server, budget
  <1>2. CASE Ends(d)
    BY <1>1, <1>2, At, EndsKeeps DEF server
  <1>3. CASE /\ account.key = run[d].view.key
             /\ Goes(d, [run[d] EXCEPT !.key = account.key, !.pc = "adopt"])
    <2>. DEFINE R == run'[d]
    <2>1. KeysOK(disk[d], run[d]) /\ PendingOK(disk[d], run[d]) /\ run[d] \in Runs
          /\ account.key \in Keys
      BY At
    <2>2. R = [run[d] EXCEPT !.key = account.key, !.pc = "adopt"]
      BY <1>3, At DEF Goes
    <2>3. /\ R \in Runs /\ R.pc = "adopt" /\ R.body = run[d].body /\ R.pw = run[d].pw
          /\ R.ops = run[d].ops /\ R.view = run[d].view /\ R.key = account.key
      BY <2>1, <2>2 DEF Runs, Pcs
    <2>4. run' \in [Devices -> Runs] /\ \A x \in Devices \ {d} : run'[x] = run[x]
      BY <1>3, <2>3, At DEF Goes
    <2>. HIDE DEF R
    <2>5. KeysOK(disk[d], R) /\ PendingOK(disk[d], R) /\ OwnOK(R)
      BY <1>1, <1>3, <2>1, <2>3 DEF KeysOK, PendingOK, OwnOK, Own, Following
    <2>. QED
      BY <1>1, <2>3, <2>4, <2>5, At, RunStep DEF Giving, R
  <1>. QED
    BY <1>1, <1>2, <1>3


LEMMA FollowPasswordKeeps ==
    ASSUME RotationInv, NEW d \in Devices, FollowPassword(d)
    PROVE  RotationInv'
  <1>1. PICK r : r = [run[d] EXCEPT !.pw = account.pw]
    OBVIOUS
  <1>2. /\ run[d].pc = "password"
        /\ UNCHANGED <<account, committed, vault, grants, late, lates, made, stops>>
        /\ \/ /\ r.key = disk[d].key
              /\ disk' = [disk EXCEPT ![d] = Adopted(d, r, disk[d].wraps, {})]
              /\ Goes(d, Back(r))
           \/ UNCHANGED disk /\ Goes(d, [r EXCEPT !.pc = "adopt"])
    BY <1>1, Zenon DEF FollowPassword, server, budget
  <1>3. KeysOK(disk[d], run[d]) /\ PendingOK(disk[d], run[d]) /\ run[d] \in Runs
        /\ account.pw \in 0..MaxChanges /\ account.pw \in Nat
    BY At
  <1>4. /\ r \in Runs /\ r.key = run[d].key /\ r.ops = run[d].ops /\ r.pw = account.pw
        /\ r.body = run[d].body /\ r.view = run[d].view /\ r.pc = "password"
    BY <1>1, <1>2, <1>3 DEF Runs
  <1>5. /\ r.pw <= account.pw
        /\ r.key = r.view.key /\ r.ops \subseteq disk[d].ops /\ r.view.key \in committed
        /\ disk[d].key.e <= r.view.key.e
        /\ disk[d].pending = NoBody \/ disk[d].pending.state.key.e <= r.view.key.e
    BY <1>2, <1>3, <1>4 DEF KeysOK, Following
  <1>6. CASE /\ r.key = disk[d].key
             /\ disk' = [disk EXCEPT ![d] = Adopted(d, r, disk[d].wraps, {})]
             /\ Goes(d, Back(r))
    BY <1>2, <1>3, <1>4, <1>5, <1>6, AdoptInPlace
  <1>7. CASE UNCHANGED disk /\ Goes(d, [r EXCEPT !.pc = "adopt"])
    <2>. DEFINE R == run'[d]
    <2>1. R = [r EXCEPT !.pc = "adopt"]
      BY <1>7, At DEF Goes
    <2>2. /\ R \in Runs /\ R.pc = "adopt" /\ R.body = r.body /\ R.pw = r.pw
          /\ R.ops = r.ops /\ R.view = r.view /\ R.key = r.key
      BY <1>4, <2>1 DEF Runs, Pcs
    <2>3. run' \in [Devices -> Runs] /\ \A x \in Devices \ {d} : run'[x] = run[x]
      BY <1>7, <2>2, At DEF Goes
    <2>. HIDE DEF R
    <2>4. KeysOK(disk[d], R) /\ PendingOK(disk[d], R) /\ OwnOK(R)
      BY <1>3, <1>4, <1>5, <2>2 DEF KeysOK, PendingOK, OwnOK, Own, Following
    <2>. QED
      BY <1>2, <1>4, <1>7, <2>2, <2>3, <2>4, At, RunStep DEF Giving, R
  <1>. QED
    BY <1>2, <1>6, <1>7

(* A file after a Fetch: at the account's key the rows served are those of   *)
(* every stored op.                                                          *)
LEMMA FetchedFile ==
    ASSUME RotationInv, NEW d \in Devices, NEW D \in Files,
           D.key \in committed, D.pw <= account.pw, D.own = disk[d].own,
           D.pending = NoBody \/ D.pending.by = d,
           D.ops \subseteq disk[d].ops \cup vault.ops,
           {o \in Devices : vault.wraps[o].e = D.key.e} \subseteq D.wraps
    PROVE  FileOK(d, D) /\ CacheOK(d, D)
  <1>1. FileOK(d, disk[d])
    BY At
  <1>2. FileOK(d, D)
    BY <1>1 DEF FileOK
  <1>3. D.key = account.key => \A o \in vault.ops : o \in D.wraps
    BY Parts DEF RotationInv, VaultInv, WrapSetCurrent
  <1>4. \A o \in D.ops : o \in vault.ops \/ (o = d /\ ~D.own.acked)
    BY <1>1 DEF FileOK
  <1>5. CacheOK(d, D)
    BY <1>3, <1>4 DEF CacheOK
  <1>. QED
    BY <1>2, <1>5

(* What a run brings from a Fetch.                                           *)
LEMMA FetchedRun ==
    ASSUME RotationInv, NEW r \in Runs, r.key \in committed
    PROVE  /\ Fetched(r) \in Runs
           /\ Fetched(r).rows = vault.wraps
           /\ r.ops \subseteq Fetched(r).ops
           /\ Fetched(r).ops \subseteq r.ops \cup vault.ops
           /\ Fetched(r).pc = r.pc /\ Fetched(r).key = r.key /\ Fetched(r).pw = r.pw
           /\ Fetched(r).view = r.view /\ Fetched(r).body = r.body
           /\ Fetched(r).settling = r.settling /\ Fetched(r).token = r.token
           /\ Fetched(r).stale = r.stale /\ Fetched(r).ack = r.ack
           /\ WrapRows(Fetched(r)) = {o \in Devices : vault.wraps[o].e = r.key.e}
           /\ \A o \in Devices : vault.wraps[o] = NoKey
                  \/ (o \in vault.ops /\ vault.wraps[o] \in committed /\ vault.wraps[o].e >= r.key.e)
  <1>1. vault.wraps \in [Devices -> Keys] /\ vault.ops \in SUBSET Devices
    BY Parts DEF RotationInv
  <1>2. PICK s : s = r.ops \cup {o \in vault.ops : vault.wraps[o] = r.key}
    OBVIOUS
  <1>3. s \in SUBSET Devices /\ r.ops \subseteq s /\ s \subseteq r.ops \cup vault.ops
    BY <1>1, <1>2, RunParts
  <1>4. Fetched(r) = [r EXCEPT !.rows = vault.wraps, !.ops = s]
    BY <1>2 DEF Fetched
  <1>5. /\ Fetched(r) \in Runs
        /\ Fetched(r).rows = vault.wraps /\ Fetched(r).ops = s
        /\ Fetched(r).pc = r.pc /\ Fetched(r).key = r.key /\ Fetched(r).pw = r.pw
        /\ Fetched(r).view = r.view /\ Fetched(r).body = r.body
        /\ Fetched(r).settling = r.settling /\ Fetched(r).token = r.token
        /\ Fetched(r).stale = r.stale /\ Fetched(r).ack = r.ack
    BY <1>1, <1>3, <1>4 DEF Runs
  <1>6. WrapRows(Fetched(r)) = {o \in Devices : vault.wraps[o].e = r.key.e}
    BY <1>5 DEF WrapRows
  <1>7. /\ \A o \in vault.ops : vault.wraps[o] = account.key
        /\ \A o \in Devices \ vault.ops : vault.wraps[o] = NoKey
        /\ account.key \in committed
    BY DEF RotationInv, VaultInv, WrapSetCurrent, AccountInv
  <1>8. account.key.e >= r.key.e
    BY <1>7, KeysOrdered DEF RotationInv
  <1>. QED
    BY <1>3, <1>5, <1>6, <1>7, <1>8


LEMMA AdoptKeeps ==
    ASSUME RotationInv, NEW d \in Devices, Adopt(d)
    PROVE  RotationInv'
  <1>. DEFINE D == disk'[d]
              R == run'[d]
  <1>1. PICK q : q = run[d]
    OBVIOUS
  <1>2. PICK r : r = Fetched(q)
    OBVIOUS
  <1>3. /\ q.pc = "adopt"
        /\ disk' = [disk EXCEPT ![d] = Adopted(d, r, WrapRows(r), r.ops)]
        /\ \/ Goes(d, [r EXCEPT !.pc = "ack"])
           \/ Goes(d, Back(r))
        /\ UNCHANGED <<account, committed, vault, grants, late, lates, made, stops>>
    BY <1>1, <1>2, Zenon DEF Adopt, server, budget
  <1>4. /\ q \in Runs /\ KeysOK(disk[d], q) /\ disk[d] \in Files
        /\ (q.body = NoBody \/ q.body.by = d)
    BY <1>1, At
  <1>5. /\ q.pw <= account.pw /\ q.ops \subseteq disk[d].ops /\ q.key = q.view.key
        /\ q.key \in committed /\ disk[d].key.e <= q.key.e
        /\ disk[d].pending = NoBody \/ disk[d].pending.state.key.e <= q.key.e
    BY <1>3, <1>4 DEF KeysOK, Following
  <1>6. /\ r \in Runs /\ q.ops \subseteq r.ops /\ r.ops \subseteq q.ops \cup vault.ops
        /\ r.key = q.key /\ r.pw = q.pw /\ r.view = q.view /\ r.body = q.body
        /\ WrapRows(r) = {o \in Devices : vault.wraps[o].e = r.key.e}
    BY <1>2, <1>4, <1>5, FetchedRun
  <1>7. /\ D \in Files /\ D.key = r.key /\ D.pw = r.pw /\ D.pending = NoBody
        /\ D.wraps = WrapRows(r) /\ D.ops = disk[d].ops \cup r.ops /\ D.own = disk[d].own
    <2>1. D = [disk[d] EXCEPT !.key = r.key, !.pw = r.pw, !.pending = NoBody,
                              !.wraps = WrapRows(r), !.ops = @ \cup r.ops]
      BY <1>3, At DEF Adopted
    <2>2. /\ r.key \in Keys /\ r.pw \in 0..MaxChanges /\ WrapRows(r) \in SUBSET Devices
          /\ (disk[d].ops \cup r.ops) \in SUBSET Devices /\ NoBody \in Bodies
      BY <1>4, <1>6, NoneTyped, FileParts, RunParts
    <2>. HIDE DEF D
    <2>. QED
      BY <1>4, <2>1, <2>2 DEF Files
  <1>8. /\ R \in Runs /\ R.key = r.key /\ R.pw = r.pw /\ R.ops = r.ops
        /\ R.body \in {NoBody, r.body}
        /\ \/ R.pc = "ack" /\ R.view = r.view
           \/ R.pc \in {"upload", "fetch"} /\ ~R.settling
    <2>1. CASE Goes(d, [r EXCEPT !.pc = "ack"])
      <3>1. R = [r EXCEPT !.pc = "ack"]
        BY <2>1, At DEF Goes
      <3>. QED
        BY <1>6, <3>1 DEF Runs, Pcs
    <2>2. CASE Goes(d, Back(r))
      <3>1. R = Back(r)
        BY <2>2, At DEF Goes
      <3>. QED
        BY <1>6, <3>1, NoneTyped, RotationConstants, ZenonT(60) DEF Back, Runs, Pcs, Idle
    <2>. QED
      BY <1>3, <2>1, <2>2
  <1>9. /\ disk' \in [Devices -> Files] /\ run' \in [Devices -> Runs]
        /\ \A x \in Devices \ {d} : disk'[x] = disk[x] /\ run'[x] = run[x]
    BY <1>3, <1>7, <1>8, At DEF Goes
  <1>. HIDE DEF D, R
  <1>10. FileOK(d, D) /\ CacheOK(d, D)
    BY <1>5, <1>6, <1>7, FetchedFile
  <1>11. KeysOK(D, R) /\ PendingOK(D, R) /\ OwnOK(R)
    BY <1>5, <1>6, <1>7, <1>8 DEF KeysOK, PendingOK, OwnOK, Own, Following
  <1>12. LateOK(d, D, R) /\ WayOK(d, D)
    BY <1>5, <1>6, <1>7, AdoptedWay
  <1>13. DeviceOK(d, D, R)
    BY <1>4, <1>6, <1>8, <1>10, <1>11, <1>12 DEF DeviceOK
  <1>. QED
    BY <1>1, <1>3, <1>6, <1>7, <1>8, <1>9, <1>13, At, QuietStep, ZenonT(60) DEF D, R

LEMMA AckGrantsKeeps ==
    ASSUME RotationInv, NEW d \in Devices, AckGrants(d)
    PROVE  RotationInv'
  <1>. DEFINE R == run'[d]
  <1>1. PICK r : r = run[d]
    OBVIOUS
  <1>2. /\ r.pc = "ack"
        /\ grants' = {g \in grants : ~(g.to = d /\ g.key.e <= r.view.key.e)}
        /\ Goes(d, Back(r))
        /\ UNCHANGED <<account, committed, vault, disk, late, lates, made, stops>>
    BY <1>1 DEF AckGrants, budget
  <1>3. r \in Runs /\ KeysOK(disk[d], r) /\ r.key \in Keys
    BY <1>1, At, RunParts
  <1>4. r.key = disk[d].key /\ r.key = r.view.key /\ r.pw <= account.pw
        /\ r.ops \subseteq disk[d].ops
    BY <1>2, <1>3 DEF KeysOK, Following
  <1>5. R = Back(r)
    BY <1>2, At DEF Goes
  <1>6. /\ R \in Runs
        /\ R.key = r.key /\ R.pw = r.pw /\ R.ops = r.ops /\ R.body = NoBody
        /\ ~R.settling /\ R.pc \in {"upload", "fetch"}
    BY <1>3, <1>5, NoneTyped, RotationConstants, ZenonT(60) DEF Back, Runs, Pcs, Idle
  <1>7. run' \in [Devices -> Runs] /\ \A x \in Devices \ {d} : run'[x] = run[x]
    BY <1>2, <1>6, At DEF Goes
  <1>. HIDE DEF R
  <1>8. FileOK(d, disk[d]) /\ CacheOK(d, disk[d]) /\ LateOK(d, disk[d], r) /\ WayOK(d, disk[d])
        /\ PendingOK(disk[d], r)
    BY <1>1, At
  <1>9. FileOK(d, disk[d])' /\ CacheOK(d, disk[d])' /\ LateOK(d, disk[d], run[d])'
    BY <1>2, <1>6, <1>8 DEF FileOK, CacheOK, LateOK, Dead, R
  <1>10. KeysOK(disk[d], run[d])' /\ PendingOK(disk[d], run[d])' /\ OwnOK(run[d])'
    BY <1>2, <1>4, <1>6, <1>8 DEF KeysOK, PendingOK, OwnOK, Own, Following, R
  <1>11. WayOK(d, disk[d])'
    <2>1. \A k \in committed : k \in Keys /\ k.e \in Nat
      BY KeysOrdered DEF RotationInv
    <2>2. r.view.key.e \in Nat
      BY <1>3, <1>4, KeyParts
    <2>3. \A g \in grants : g.key \in committed /\ g.key.e > r.view.key.e => g \in grants'
      BY <1>2, <2>1, <2>2
    <2>. QED
      BY <1>2, <1>4, <1>8, <2>1, <2>2, <2>3 DEF WayOK
  <1>12. DeviceOK(d, disk[d], run[d])'
    BY <1>6, <1>9, <1>10, <1>11 DEF DeviceOK, R
  <1>13. grants' \subseteq grants /\ \A g \in grants : g.to # d => g \in grants'
    BY <1>2
  <1>14. disk' \in [Devices -> Files] /\ stops' \in 0..MaxStops
    BY <1>2, At
  <1>. QED
    BY <1>2, <1>6, <1>7, <1>12, <1>13, <1>14, DeviceStep DEF R


(* fetch: from a run at the file's key, to one that uploads, has synced, or  *)
(* rebuilds its commit.                                                      *)
LEMMA FetchRowsKeeps ==
    ASSUME RotationInv, NEW d \in Devices, NEW p \in {"upload", "synced", "rebuild"},
           run[d].pc \in {"fetch", "fetch_again", "refetch"},
           run[d].pc = "refetch" <=> p = "rebuild",
           p = "synced" => disk[d].own.key = NoKey \/ disk[d].own.acked,
           FetchRows(d, p), UNCHANGED <<server, late, budget>>
    PROVE  RotationInv'
  <1>. DEFINE D == disk'[d]
              R == run'[d]
  <1>1. PICK q : q = run[d]
    OBVIOUS
  <1>2. PICK r : r = Fetched(q)
    OBVIOUS
  <1>3. /\ disk' = [disk EXCEPT ![d].wraps = @ \cup WrapRows(r), ![d].ops = @ \cup r.ops]
        /\ run' = [run EXCEPT ![d] = [r EXCEPT !.pc = p]]
        /\ UNCHANGED <<account, committed, vault, grants, late, lates, made, stops>>
    BY <1>1, <1>2, Zenon DEF FetchRows, Goes, server, budget
  <1>4. /\ q \in Runs /\ KeysOK(disk[d], q) /\ PendingOK(disk[d], q) /\ OwnOK(q)
        /\ disk[d] \in Files /\ FileOK(d, disk[d])
        /\ (q.body = NoBody \/ q.body.by = d)
    BY <1>1, At
  <1>5. /\ q.pw <= account.pw /\ q.ops \subseteq disk[d].ops /\ q.key = disk[d].key
        /\ q.key \in committed
    BY <1>1, <1>4 DEF KeysOK, FileOK, Following
  <1>6. /\ r \in Runs /\ q.ops \subseteq r.ops /\ r.ops \subseteq q.ops \cup vault.ops
        /\ r.key = q.key /\ r.pw = q.pw /\ r.body = q.body /\ r.settling = q.settling
        /\ r.rows = vault.wraps
        /\ WrapRows(r) = {o \in Devices : vault.wraps[o].e = r.key.e}
        /\ r.token = q.token
        /\ \A o \in Devices : vault.wraps[o] = NoKey
              \/ (o \in vault.ops /\ vault.wraps[o] \in committed /\ vault.wraps[o].e >= r.key.e)
    BY <1>2, <1>4, <1>5, FetchedRun
  <1>7. /\ D \in Files /\ D.key = disk[d].key /\ D.pw = disk[d].pw /\ D.pending = disk[d].pending
        /\ D.wraps = disk[d].wraps \cup WrapRows(r) /\ D.ops = disk[d].ops \cup r.ops
        /\ D.own = disk[d].own
    <2>1. D = [disk[d] EXCEPT !.wraps = @ \cup WrapRows(r), !.ops = @ \cup r.ops]
      BY <1>3, At
    <2>2. /\ (disk[d].wraps \cup WrapRows(r)) \in SUBSET Devices
          /\ (disk[d].ops \cup r.ops) \in SUBSET Devices
      BY <1>4, <1>6, FileParts, RunParts
    <2>. HIDE DEF D
    <2>. QED
      BY <1>4, <2>1, <2>2 DEF Files
  <1>8. /\ R \in Runs /\ R.key = r.key /\ R.pw = r.pw /\ R.ops = r.ops
        /\ R.body = r.body /\ R.pc = p /\ R.settling = r.settling /\ R.rows = r.rows
        /\ R.token = r.token
    <2>1. R = [r EXCEPT !.pc = p] /\ p \in Pcs
      BY <1>3, At DEF Pcs
    <2>. QED
      BY <1>6, <2>1 DEF Runs
  <1>9. /\ disk' \in [Devices -> Files] /\ run' \in [Devices -> Runs]
        /\ \A x \in Devices \ {d} : disk'[x] = disk[x] /\ run'[x] = run[x]
    BY <1>3, <1>7, <1>8, At
  <1>. HIDE DEF D, R
  <1>10. FileOK(d, D) /\ CacheOK(d, D)
    BY <1>4, <1>5, <1>6, <1>7, FetchedFile DEF FileOK
  <1>11. KeysOK(D, R)
    BY <1>1, <1>4, <1>5, <1>6, <1>7, <1>8 DEF KeysOK, Own, Following
  <1>12. PendingOK(D, R) /\ OwnOK(R)
    BY <1>1, <1>4, <1>5, <1>6, <1>7, <1>8 DEF PendingOK, OwnOK, Own
  <1>13. LateOK(d, D, R) /\ WayOK(d, D)
    BY <1>7, <1>8, At DEF LateOK, WayOK
  <1>14. DeviceOK(d, D, R)
    BY <1>4, <1>6, <1>8, <1>10, <1>11, <1>12, <1>13, ZenonT(60) DEF DeviceOK
  <1>15. /\ disk'[d].pending \in {NoBody, disk[d].pending, run[d].body}
         /\ run'[d].body \in {NoBody, disk[d].pending, run[d].body}
         /\ stops' \in 0..MaxStops
         /\ DeviceOK(d, disk'[d], run'[d])
    BY <1>1, <1>3, <1>6, <1>7, <1>8, <1>14, At DEF D, R
  <1>. QED
    BY <1>3, <1>9, <1>15, QuietStep


LEMMA FetchKeeps ==
    ASSUME RotationInv, NEW d \in Devices, Fetch(d)
    PROVE  RotationInv'
  <1>1. PICK p : p = IF run[d].pc = "fetch" /\ Queued(d) THEN "upload" ELSE "synced"
    OBVIOUS
  <1>2. /\ run[d].pc \in {"fetch", "fetch_again"} /\ FetchRows(d, p)
        /\ UNCHANGED <<server, late, budget>> /\ p \in {"upload", "synced"}
    BY <1>1 DEF Fetch
  <1>3. p = "synced" => disk[d].own.key = NoKey \/ disk[d].own.acked
    BY <1>1, <1>2, At DEF Queued, KeysOK
  <1>. QED
    BY <1>2, <1>3, FetchRowsKeeps

LEMMA RefetchKeeps ==
    ASSUME RotationInv, NEW d \in Devices, Refetch(d)
    PROVE  RotationInv'
  BY FetchRowsKeeps DEF Refetch

LEMMA ReissueKeeps ==
    ASSUME RotationInv, NEW d \in Devices, Reissue(d)
    PROVE  RotationInv'
  <1>. DEFINE D == disk'[d]
              R == run'[d]
  <1>1. /\ run[d].pc = "upload"
        /\ UNCHANGED <<account, committed, vault, grants, late, lates, made, stops>>
        /\ \/ /\ d \in run[d].ops
              /\ run[d].key.e > disk[d].own.key.e
              /\ disk' = [disk EXCEPT ![d].own.key = run[d].key]
              /\ Goes(d, [run[d] EXCEPT !.stale = FALSE])
           \/ Ends(d) /\ UNCHANGED disk
    BY Zenon DEF Reissue, server, budget
  <1>2. CASE Ends(d) /\ UNCHANGED disk
    BY <1>1, <1>2, At, EndsKeeps DEF server
  <1>3. CASE /\ d \in run[d].ops
             /\ run[d].key.e > disk[d].own.key.e
             /\ disk' = [disk EXCEPT ![d].own.key = run[d].key]
             /\ Goes(d, [run[d] EXCEPT !.stale = FALSE])
    <2>1. /\ run[d] \in Runs /\ disk[d] \in Files
          /\ FileOK(d, disk[d]) /\ CacheOK(d, disk[d]) /\ KeysOK(disk[d], run[d])
          /\ PendingOK(disk[d], run[d]) /\ LateOK(d, disk[d], run[d]) /\ WayOK(d, disk[d])
          /\ (run[d].body = NoBody \/ run[d].body.by = d)
          /\ run[d].key \in Keys
          /\ disk[d].own \in [key : Keys, ctx : SUBSET Devices, acked : BOOLEAN]
      BY At, RunParts, FileParts
    <2>2. run[d].key = disk[d].key /\ run[d].key \in committed /\ run[d].key # NoKey
      BY <1>1, <2>1, KeysOrdered DEF KeysOK, FileOK, Following, RotationInv
    <2>3. /\ D = [disk[d] EXCEPT !.own = [@ EXCEPT !.key = run[d].key]]
          /\ R = [run[d] EXCEPT !.stale = FALSE]
      BY <1>3, At DEF Goes
    <2>4. [disk[d].own EXCEPT !.key = run[d].key] \in [key : Keys, ctx : SUBSET Devices, acked : BOOLEAN]
      BY <2>1
    <2>5. /\ D \in Files /\ D.key = disk[d].key /\ D.pw = disk[d].pw /\ D.pending = disk[d].pending
          /\ D.wraps = disk[d].wraps /\ D.ops = disk[d].ops
          /\ D.own = [disk[d].own EXCEPT !.key = run[d].key]
      BY <2>1, <2>3, <2>4 DEF Files
    <2>6. D.own.key = run[d].key /\ D.own.acked = disk[d].own.acked
      BY <2>1, <2>5
    <2>7. /\ R \in Runs /\ R.pc = "upload" /\ R.key = run[d].key /\ R.pw = run[d].pw
          /\ R.ops = run[d].ops /\ R.body = run[d].body /\ R.settling = run[d].settling
      BY <1>1, <2>1, <2>3 DEF Runs
    <2>8. /\ disk' \in [Devices -> Files] /\ run' \in [Devices -> Runs]
          /\ \A x \in Devices \ {d} : disk'[x] = disk[x] /\ run'[x] = run[x]
      BY <1>3, <2>5, <2>7, At DEF Goes
    <2>. HIDE DEF D, R
    <2>9. FileOK(d, D)
      BY <2>1, <2>2, <2>5, <2>6 DEF FileOK
    <2>10. CacheOK(d, D)
      BY <2>1, <2>2, <2>5, <2>6 DEF CacheOK
    <2>11. KeysOK(D, R) /\ PendingOK(D, R) /\ OwnOK(R)
      BY <1>1, <2>1, <2>2, <2>5, <2>7 DEF KeysOK, PendingOK, OwnOK, Own, Following
    <2>12. LateOK(d, D, R) /\ WayOK(d, D)
      BY <1>1, <2>1, <2>5, <2>7 DEF LateOK, WayOK
    <2>13. DeviceOK(d, D, R)
      BY <2>1, <2>7, <2>9, <2>10, <2>11, <2>12 DEF DeviceOK
    <2>. QED
      BY <1>1, <2>5, <2>7, <2>8, <2>13, At, QuietStep DEF D, R
  <1>. QED
    BY <1>1, <1>2, <1>3

LEMMA EndKeeps ==
    ASSUME RotationInv, NEW d \in Devices, End(d)
    PROVE  RotationInv'
  BY At, EndsKeeps DEF End, server, budget


----------------------------------------------------------------------------
(* Giving a pending rotation up.                                             *)

(* No way is lost with a pending rotation whose key was not committed, if no *)
(* request for it is alive.                                                  *)
LEMMA DropKeeps ==
    ASSUME RotationInv, NEW d \in Devices,
           disk' = [disk EXCEPT ![d].pending = NoBody],
           NEW R \in Runs, run' = [run EXCEPT ![d] = R],
           R.body = NoBody, R.pc \in {"off", "open"}, ~R.settling,
           R.pc = "open" => R.key = disk[d].key,
           R.pw <= account.pw, R.ops \subseteq disk[d].ops,
           UNCHANGED <<account, committed, vault, grants, late, lates, made, stops>>,
           lates = 0 \/ account.pw = 0 => disk[d].pending.state.key \notin committed,
           account.pw = 0 => \A m \in late : m.body.by = d => Dead(m.body)
    PROVE  RotationInv'
  <1>. DEFINE D == disk'[d]
  <1>1. D = [disk[d] EXCEPT !.pending = NoBody] /\ disk[d] \in Files
    BY At
  <1>2. /\ D \in Files /\ D.key = disk[d].key /\ D.pw = disk[d].pw /\ D.pending = NoBody
        /\ D.wraps = disk[d].wraps /\ D.ops = disk[d].ops /\ D.own = disk[d].own
    BY <1>1, NoneTyped DEF Files
  <1>3. /\ disk' \in [Devices -> Files] /\ run' \in [Devices -> Runs] /\ run'[d] = R
        /\ \A x \in Devices \ {d} : disk'[x] = disk[x] /\ run'[x] = run[x]
    BY <1>2, At
  <1>. HIDE DEF D
  <1>4. FileOK(d, D) /\ CacheOK(d, D)
    BY <1>2, At DEF FileOK, CacheOK
  <1>5. KeysOK(D, R) /\ PendingOK(D, R) /\ OwnOK(R)
    BY <1>2 DEF KeysOK, PendingOK, OwnOK, Own, Following
  <1>6. LateOK(d, D, R)
    BY DEF LateOK
  <1>7. WayOK(d, D)
    BY <1>2, At DEF WayOK
  <1>8. DeviceOK(d, D, R)
    BY <1>4, <1>5, <1>6, <1>7 DEF DeviceOK
  <1>. QED
    BY <1>2, <1>3, <1>8, At, QuietStep DEF D

LEMMA DropUnsettledKeeps ==
    ASSUME RotationInv, NEW d \in Devices, DropUnsettled(d),
           run[d].pc \in {"settle_again", "probe_again", "reauth"},
           UNCHANGED <<account, committed, vault, grants, late, lates, made, stops>>,
           lates = 0 \/ account.pw = 0 => disk[d].pending.state.key \notin committed,
           account.pw = 0 => run[d].pc \in Giving
    PROVE  RotationInv'
  <1>1. PICK R : R = [run[d] EXCEPT !.pc = "open", !.body = NoBody, !.settling = FALSE,
                                    !.view = NoState, !.token = 0]
    OBVIOUS
  <1>2. disk' = [disk EXCEPT ![d].pending = NoBody] /\ run' = [run EXCEPT ![d] = R]
    BY <1>1 DEF DropUnsettled, Goes
  <1>3. 0 \in 0..MaxChanges /\ run[d] \in Runs /\ NoBody \in Bodies
    BY At, NoneTyped, RotationConstants
  <1>4. /\ R \in Runs /\ R.pc = "open" /\ R.body = NoBody /\ ~R.settling
        /\ R.key = run[d].key /\ R.pw = run[d].pw /\ R.ops = run[d].ops
    BY <1>1, <1>3 DEF Runs, Pcs
  <1>5. KeysOK(disk[d], run[d]) /\ LateOK(d, disk[d], run[d])
    BY At
  <1>6. R.key = disk[d].key /\ R.pw <= account.pw /\ R.ops \subseteq disk[d].ops
    BY <1>4, <1>5 DEF KeysOK, Following
  <1>7. account.pw = 0 => \A m \in late : m.body.by = d => Dead(m.body)
    BY <1>5 DEF LateOK, Giving
  <1>. QED
    BY <1>2, <1>4, <1>6, <1>7, DropKeeps

LEMMA AbandonsKeeps ==
    ASSUME RotationInv, NEW d \in Devices, Abandons(d),
           run[d].pc \in {"rebuild", "refused"},
           UNCHANGED <<account, committed, vault, grants, late, lates, made, stops>>
    PROVE  RotationInv'
  <1>1. disk' = [disk EXCEPT ![d].pending = NoBody] /\ run' = [run EXCEPT ![d] = Idle]
    BY DEF Abandons, Ends, Goes
  <1>2. PendingOK(disk[d], run[d]) /\ OwnOK(run[d]) /\ LateOK(d, disk[d], run[d])
        /\ account.pw \in Nat
    BY At
  <1>3. /\ run[d].body = disk[d].pending
        /\ disk[d].pending.state.key \notin committed
        /\ \A m \in late : m.body.state.key.n # disk[d].pending.state.key.n
    BY <1>2 DEF PendingOK, OwnOK, Own
  <1>4. account.pw = 0 => \A m \in late : m.body.by = d => Dead(m.body)
    BY <1>2, <1>3 DEF LateOK
  <1>5. PICK R : R = Idle
    OBVIOUS
  <1>6. /\ R \in Runs /\ R.body = NoBody /\ R.pc \in {"off", "open"} /\ ~R.settling
        /\ R.pc # "open" /\ R.pw <= account.pw /\ R.ops \subseteq disk[d].ops
    BY <1>2, <1>5, NoneTyped, NoneIs
  <1>. QED
    BY <1>1, <1>3, <1>4, <1>5, <1>6, DropKeeps

(* The server does not hold the state of a commit a run still works on.      *)
LEMMA OwnNotCommitted ==
    ASSUME RotationInv, NEW d \in Devices, Own(run[d])
    PROVE  ~Committed(run[d].body)
  BY At DEF OwnOK, Committed

LEMMA RefusedKeeps ==
    ASSUME RotationInv, NEW d \in Devices, Refused(d)
    PROVE  RotationInv'
  <1>1. run[d].pc = "refused" /\ Own(run[d])
    BY At DEF Refused, PendingOK, Own
  <1>2. Abandons(d) /\ UNCHANGED <<account, committed, vault, grants, late, lates, made, stops>>
    BY <1>1, OwnNotCommitted DEF Refused, server, budget
  <1>. QED
    BY <1>1, <1>2, AbandonsKeeps

----------------------------------------------------------------------------
(* Settling a rotation of an earlier run.                                    *)

(* A commit whose key is not the account's and not below it: not committed.  *)
LEMMA NotLanded ==
    ASSUME RotationInv, NEW b \in Bodies, ~Landed(b, account), ~MovedOn(b, account)
    PROVE  b.state.key \notin committed
  <1>1. b.state.key.e \in Nat /\ account.key.e \in Nat
    BY KeyParts, Parts DEF RotationInv
  <1>. QED
    BY <1>1, KeysOrdered DEF RotationInv, Landed, MovedOn

(* A device that has a grant at the epoch of its rotation lost the race.     *)
LEMMA OutrunLost ==
    ASSUME RotationInv, NEW d \in Devices, NEW b \in Bound, b.by = d, Outrun(d, b)
    PROVE  b.state.key \notin committed
  BY DEF RotationInv, Outrun, GrantsInv, AccountInv

LEMMA ReauthenticatedKeeps ==
    ASSUME RotationInv, NEW d \in Devices, Reauth(d)
    PROVE  RotationInv'
  <1>1. /\ run[d].pc = "reauth"
        /\ UNCHANGED <<account, committed, vault, grants, late, lates, made, stops>>
        /\ \/ /\ UNCHANGED disk
              /\ Goes(d, [run[d] EXCEPT !.pc = "sent", !.token = account.pw])
           \/ run[d].pw # account.pw /\ DropUnsettled(d)
    BY Zenon DEF Reauth, server, budget
  <1>2. /\ run[d] \in Runs /\ KeysOK(disk[d], run[d]) /\ PendingOK(disk[d], run[d])
        /\ account.pw \in 0..MaxChanges /\ account.pw \in Nat /\ run[d].pw \in Nat
    BY At, RunParts
  <1>3. CASE run[d].pw # account.pw /\ DropUnsettled(d)
    <2>1. account.pw # 0
      BY <1>2, <1>3 DEF KeysOK
    <2>2. lates = 0 => disk[d].pending.state.key \notin committed
      BY <1>1, <1>2 DEF PendingOK
    <2>. QED
      BY <1>1, <1>3, <2>1, <2>2, DropUnsettledKeeps
  <1>4. CASE UNCHANGED disk /\ Goes(d, [run[d] EXCEPT !.pc = "sent", !.token = account.pw])
    <2>. DEFINE R == run'[d]
    <2>1. R = [run[d] EXCEPT !.pc = "sent", !.token = account.pw]
      BY <1>4, At DEF Goes
    <2>2. /\ R \in Runs /\ R.pc = "sent" /\ R.body = run[d].body /\ R.pw = run[d].pw
          /\ R.ops = run[d].ops /\ R.token = account.pw /\ R.key = run[d].key
          /\ R.settling = run[d].settling
      BY <1>2, <2>1 DEF Runs, Pcs
    <2>3. run' \in [Devices -> Runs] /\ \A x \in Devices \ {d} : run'[x] = run[x]
      BY <1>4, <2>2, At DEF Goes
    <2>. HIDE DEF R
    <2>4. KeysOK(disk[d], R) /\ PendingOK(disk[d], R) /\ OwnOK(R)
      BY <1>1, <1>2, <2>2 DEF KeysOK, PendingOK, OwnOK, Own, Following
    <2>. QED
      BY <1>1, <1>4, <2>2, <2>3, <2>4, At, RunStep DEF Giving, R
  <1>. QED
    BY <1>1, <1>3, <1>4


LEMMA PromoteKeeps ==
    ASSUME RotationInv, NEW d \in Devices, Promote(d)
    PROVE  RotationInv'
  <1>1. PICK r : r = Promoted(run[d])
    OBVIOUS
  <1>2. PICK v : v = account
    OBVIOUS
  <1>3. /\ run[d].pc = "promote" /\ ApplyView(d, r, v) /\ UNCHANGED <<server, late, budget>>
    BY <1>1, <1>2 DEF Promote
  <1>4. /\ run[d] \in Runs /\ KeysOK(disk[d], run[d]) /\ PendingOK(disk[d], run[d])
        /\ run[d].body.state.key \in Keys
    BY At, RunParts, KeyParts
  <1>5. r \in Runs /\ r.pw = run[d].pw /\ r.ops = run[d].ops /\ r.body = run[d].body
    BY <1>1, <1>4 DEF Promoted, Runs
  <1>6. v \in States /\ v.key \in committed /\ disk[d].key.e <= v.key.e
    BY <1>2, At
  <1>7. r.pw <= account.pw /\ r.ops \subseteq disk[d].ops
    BY <1>4, <1>5 DEF KeysOK
  <1>8. disk[d].pending.state.key.e <= v.key.e
    BY <1>2, <1>3, <1>4, KeysOrdered DEF PendingOK, RotationInv
  <1>. QED
    BY <1>3, <1>5, <1>6, <1>7, <1>8, ApplyViewKeeps

LEMMA ProbeKeeps ==
    ASSUME RotationInv, NEW d \in Devices, Probe(d)
    PROVE  RotationInv'
  <1>1. /\ run[d].pc \in {"probe", "probe_again"}
        /\ UNCHANGED <<server, late, budget>>
        /\ \/ ApplyView(d, Promoted(run[d]), run[d].view)
           \/ Outrun(d, run[d].body) /\ run[d].pc = "probe_again" /\ DropUnsettled(d)
           \/ /\ Outrun(d, run[d].body) /\ UNCHANGED disk
              /\ Goes(d, [run[d] EXCEPT !.pc = "reauth", !.view = NoState])
    BY Zenon DEF Probe
  <1>2. UNCHANGED <<account, committed, vault, grants, late, lates, made, stops>>
    BY <1>1 DEF server, budget
  <1>3. /\ run[d] \in Runs /\ KeysOK(disk[d], run[d]) /\ PendingOK(disk[d], run[d])
        /\ run[d].body.state.key \in Keys /\ run[d].view \in States
        /\ run[d].view.key \in Keys
        /\ (run[d].body = NoBody \/ run[d].body.by = d)
    BY At, RunParts, KeyParts
  <1>4. /\ run[d].body = disk[d].pending /\ run[d].body # NoBody
        /\ run[d].view.key \in committed /\ disk[d].key.e <= run[d].view.key.e
        /\ run[d].body.state.key.e < run[d].view.key.e
        /\ run[d].settling
    BY <1>1, <1>3 DEF PendingOK
  <1>5. run[d].body \in Bound /\ run[d].body.by = d
    BY <1>3, <1>4, BoundParts DEF RotationInv
  <1>6. Outrun(d, run[d].body) => run[d].body.state.key \notin committed
    <2>1. PICK b : b = run[d].body
      OBVIOUS
    <2>. QED
      BY <1>5, <2>1, OutrunLost
  <1>7. CASE ApplyView(d, Promoted(run[d]), run[d].view)
    <2>1. PICK r : r = Promoted(run[d])
      OBVIOUS
    <2>2. PICK v : v = run[d].view
      OBVIOUS
    <2>3. ApplyView(d, r, v)
      BY <1>7, <2>1, <2>2
    <2>4. r \in Runs /\ r.pw = run[d].pw /\ r.ops = run[d].ops /\ r.body = run[d].body
      BY <1>3, <2>1 DEF Promoted, Runs
    <2>5. r.pw <= account.pw /\ r.ops \subseteq disk[d].ops
      BY <1>3, <2>4 DEF KeysOK
    <2>6. v \in States /\ v.key \in committed /\ disk[d].key.e <= v.key.e
          /\ disk[d].pending.state.key.e <= v.key.e
      BY <1>3, <1>4, <2>2, KeyParts
    <2>. QED
      BY <1>1, <2>3, <2>4, <2>5, <2>6, ApplyViewKeeps
  <1>8. CASE Outrun(d, run[d].body) /\ run[d].pc = "probe_again" /\ DropUnsettled(d)
    BY <1>2, <1>4, <1>6, <1>8, DropUnsettledKeeps DEF Giving
  <1>9. CASE /\ Outrun(d, run[d].body) /\ UNCHANGED disk
             /\ Goes(d, [run[d] EXCEPT !.pc = "reauth", !.view = NoState])
    <2>. DEFINE R == run'[d]
    <2>1. R = [run[d] EXCEPT !.pc = "reauth", !.view = NoState]
      BY <1>9, At DEF Goes
    <2>2. /\ R \in Runs /\ R.pc = "reauth" /\ R.body = run[d].body /\ R.pw = run[d].pw
          /\ R.ops = run[d].ops /\ R.key = run[d].key /\ R.settling = run[d].settling
      BY <1>3, <2>1, NoneTyped DEF Runs, Pcs
    <2>3. run' \in [Devices -> Runs] /\ \A x \in Devices \ {d} : run'[x] = run[x]
      BY <1>9, <2>2, At DEF Goes
    <2>. HIDE DEF R
    <2>4. KeysOK(disk[d], R) /\ PendingOK(disk[d], R) /\ OwnOK(R)
      BY <1>1, <1>3, <1>4, <1>6, <1>9, <2>2 DEF KeysOK, PendingOK, OwnOK, Own, Following
    <2>. QED
      BY <1>2, <1>9, <2>2, <2>3, <2>4, At, RunStep DEF Giving, R
  <1>. QED
    BY <1>1, <1>7, <1>8, <1>9

LEMMA SettleKeeps ==
    ASSUME RotationInv, NEW d \in Devices, Settle(d)
    PROVE  RotationInv'
  <1>1. PICK r : r = [run[d] EXCEPT !.body = disk[d].pending, !.settling = TRUE]
    OBVIOUS
  <1>2. /\ \/ run[d].pc = "open" /\ disk[d].pending # NoBody
           \/ run[d].pc = "settle_again"
        /\ UNCHANGED <<server, late, budget>>
    BY DEF Settle
  <1>3. UNCHANGED <<account, committed, vault, grants, late, lates, made, stops>>
    BY <1>2 DEF server, budget
  <1>4. \/ Landed(r.body, account) /\ ApplyView(d, Promoted(r), account)
        \/ /\ MovedOn(r.body, account)
           /\ \E p \in {"probe", "probe_again"} :
                /\ p = "probe_again" => run[d].pc = "settle_again"
                /\ Goes(d, [r EXCEPT !.pc = p, !.view = account])
           /\ UNCHANGED disk
        \/ /\ ~Landed(r.body, account) /\ ~MovedOn(r.body, account)
           /\ \/ run[d].pc = "settle_again" /\ DropUnsettled(d)
              \/ Goes(d, [r EXCEPT !.pc = "reauth"]) /\ UNCHANGED disk
    BY <1>1, Zenon DEF Settle
  <1>5. /\ run[d] \in Runs /\ KeysOK(disk[d], run[d]) /\ PendingOK(disk[d], run[d])
        /\ account \in States /\ disk[d].pending \in Bodies
    BY At, FileParts
  <1>6. /\ r \in Runs /\ r.body = disk[d].pending /\ r.settling /\ r.key = run[d].key
        /\ r.pw = run[d].pw /\ r.ops = run[d].ops
    BY <1>1, <1>5 DEF Runs
  <1>7. /\ r.key = disk[d].key /\ r.body # NoBody /\ r.pw <= account.pw /\ r.ops \subseteq disk[d].ops
    BY <1>2, <1>5, <1>6 DEF KeysOK, PendingOK, Following
  <1>8. CASE Landed(r.body, account) /\ ApplyView(d, Promoted(r), account)
    <2>1. PICK s : s = Promoted(r)
      OBVIOUS
    <2>2. PICK v : v = account
      OBVIOUS
    <2>3. s \in Runs /\ s.pw = r.pw /\ s.ops = r.ops /\ s.body = disk[d].pending
      BY <1>5, <1>6, <2>1, KeyParts DEF Promoted, Runs
    <2>4. disk[d].pending.state.key.e <= v.key.e
      BY <1>6, <1>8, <2>2, At, KeyParts DEF Landed
    <2>5. v \in States /\ v.key \in committed /\ disk[d].key.e <= v.key.e
      BY <2>2, At
    <2>. QED
      BY <1>2, <1>7, <1>8, <2>1, <2>2, <2>3, <2>4, <2>5, ApplyViewKeeps
  <1>9. ASSUME NEW R \in Runs, run' = [run EXCEPT ![d] = R], UNCHANGED disk,
               R.pc \in {"probe", "probe_again", "reauth"},
               R.pc = "probe_again" => run[d].pc = "settle_again",
               R.pc # "reauth" => R.view = account /\ MovedOn(r.body, account),
               R.pc = "reauth" => r.body.state.key \notin committed,
               R.body = r.body, R.settling, R.key = r.key, R.pw = r.pw, R.ops = r.ops
        PROVE  RotationInv'
    <2>1. run' \in [Devices -> Runs] /\ run'[d] = R /\ \A x \in Devices \ {d} : run'[x] = run[x]
      BY <1>9, At
    <2>2. KeysOK(disk[d], R) /\ OwnOK(R)
      BY <1>6, <1>7, <1>9 DEF KeysOK, OwnOK, Own, Following
    <2>3. R.pc # "reauth" => /\ R.view.key \in committed /\ disk[d].key.e <= R.view.key.e
                             /\ R.body.state.key.e < R.view.key.e
      BY <1>5, <1>6, <1>9, At, KeyParts DEF MovedOn
    <2>4. PendingOK(disk[d], R)
      BY <1>6, <1>7, <1>9, <2>3 DEF PendingOK
    <2>. QED
      BY <1>3, <1>6, <1>9, <2>1, <2>2, <2>4, At, RunStep DEF Giving
  <1>10. ASSUME NEW p \in {"probe", "probe_again"}, p = "probe_again" => run[d].pc = "settle_again",
                MovedOn(r.body, account), Goes(d, [r EXCEPT !.pc = p, !.view = account]),
                UNCHANGED disk
         PROVE  RotationInv'
    <2>1. PICK R : R = [r EXCEPT !.pc = p, !.view = account]
      OBVIOUS
    <2>2. /\ R \in Runs /\ R.pc = p /\ R.view = account /\ R.body = r.body /\ R.settling
          /\ R.key = r.key /\ R.pw = r.pw /\ R.ops = r.ops
      BY <1>5, <1>6, <2>1 DEF Runs, Pcs
    <2>3. run' = [run EXCEPT ![d] = R]
      BY <1>10, <2>1 DEF Goes
    <2>. QED
      BY <1>9, <1>10, <2>2, <2>3
  <1>11. CASE /\ ~Landed(r.body, account) /\ ~MovedOn(r.body, account)
              /\ \/ run[d].pc = "settle_again" /\ DropUnsettled(d)
                 \/ Goes(d, [r EXCEPT !.pc = "reauth"]) /\ UNCHANGED disk
    <2>1. r.body.state.key \notin committed
      BY <1>5, <1>6, <1>11, NotLanded
    <2>2. CASE run[d].pc = "settle_again" /\ DropUnsettled(d)
      BY <1>3, <1>6, <2>1, <2>2, DropUnsettledKeeps DEF Giving
    <2>3. CASE Goes(d, [r EXCEPT !.pc = "reauth"]) /\ UNCHANGED disk
      <3>1. PICK R : R = [r EXCEPT !.pc = "reauth"]
        OBVIOUS
      <3>2. /\ R \in Runs /\ R.pc = "reauth" /\ R.body = r.body /\ R.settling
            /\ R.key = r.key /\ R.pw = r.pw /\ R.ops = r.ops
        BY <1>6, <3>1 DEF Runs, Pcs
      <3>3. run' = [run EXCEPT ![d] = R]
        BY <2>3, <3>1 DEF Goes
      <3>. QED
        BY <1>9, <2>1, <2>3, <3>2, <3>3
    <2>. QED
      BY <1>11, <2>2, <2>3
  <1>. QED
    BY <1>4, <1>8, <1>10, <1>11


----------------------------------------------------------------------------
(* Building and sending a commit.                                            *)

(* The commit that a run at the account's key builds from a complete Fetch.  *)
LEMMA BuiltOK ==
    ASSUME RotationInv, NEW d \in Devices, NEW r \in Runs, NEW key \in Keys,
           r.key = account.key, r.ops \subseteq disk[d].ops,
           run[d].ops = r.ops,
           disk[d].own.key = NoKey \/ disk[d].own.acked,
           \A o \in Devices : r.rows[o] = NoKey
             \/ (o \in vault.ops /\ r.rows[o] \in committed /\ r.rows[o].e >= r.key.e),
           NEW b, b = Built(d, r, account, key)
    PROVE  /\ b \in Bodies /\ b.by = d /\ b.base = account /\ b.state.key = key
           /\ b.state.seq = b.base.seq + 1 /\ b.state.pw = b.base.pw /\ b.state.set = b.base.set
           /\ b.base.key \in committed /\ b.drop = {}
           /\ b.cursor \subseteq vault.ops /\ b.rewrap \subseteq vault.ops
           /\ Devices \subseteq b.base.set
  <1>1. account \in States /\ account.key \in committed /\ Devices \subseteq account.set
        /\ account.key # NoKey
    BY At, KeysOrdered DEF RotationInv, AccountInv
  <1>2. PICK st : st = [account EXCEPT !.seq = @ + 1, !.key = key]
    OBVIOUS
  <1>3. st \in States /\ st.key = key /\ st.seq = account.seq + 1 /\ st.pw = account.pw
        /\ st.set = account.set
    <2>1. account.seq + 1 \in Nat
      BY <1>1 DEF States
    <2>2. PICK q \in Nat : q = account.seq + 1
      BY <2>1
    <2>. QED
      BY <1>1, <1>2, <2>2 DEF States
  <1>4. Cursor(d) \subseteq vault.ops
    <2>1. FileOK(d, disk[d])
      BY At
    <2>. QED
      BY <2>1 DEF FileOK, Cursor
  <1>5. \A o \in Devices : r.rows[o] \in {NoKey, r.key}
    <2>1. \A k \in committed : k.e \in Nat /\ k.e <= account.key.e
                                 /\ (k.e = account.key.e => k = account.key)
      BY KeysOrdered DEF RotationInv
    <2>2. account.key.e \in Nat
      BY <1>1, <2>1
    <2>3. \A k \in committed : k.e >= account.key.e => k = account.key
      BY <2>1, <2>2
    <2>. QED
      BY <2>3
  <1>6. {o \in Devices : r.rows[o] \notin {NoKey, r.key}} = {}
    BY <1>5
  <1>7. {o \in Devices : r.rows[o] = r.key} \subseteq vault.ops
    BY <1>1
  <1>8. vault.ops \subseteq Devices
    BY Parts DEF RotationInv
  <1>9. b = [by |-> d, base |-> account, state |-> st, cursor |-> Cursor(d),
             rewrap |-> {o \in Devices : r.rows[o] = r.key}, drop |-> {}]
    BY <1>2, <1>6 DEF Built
  <1>10. b.by = d /\ b.base = account /\ b.state = st /\ b.cursor = Cursor(d)
         /\ b.rewrap = {o \in Devices : r.rows[o] = r.key} /\ b.drop = {}
    BY <1>9
  <1>11. b \in Bodies
    BY <1>1, <1>3, <1>4, <1>8, <1>9 DEF Bodies, Members
  <1>. QED
    BY <1>1, <1>2, <1>3, <1>4, <1>7, <1>10, <1>11

(* A device sends a commit b: a key of its own that is not committed and not *)
(* in a request on its way, in place of a pending one that is in none.       *)
LEMMA SendsKeeps ==
    ASSUME RotationInv, NEW d \in Devices, NEW r \in Runs, NEW b \in Bodies,
           Sends(d, r, b),
           UNCHANGED <<account, committed, vault, grants, late, lates, stops>>,
           made' \in {made, made + 1}, made' <= MaxKeys,
           b.by = d, b.base = account, b.base.key \in committed,
           b.state.seq = b.base.seq + 1 /\ b.state.pw = b.base.pw /\ b.state.set = b.base.set,
           b.drop = {}, b.cursor \subseteq vault.ops, b.rewrap \subseteq vault.ops,
           Devices \subseteq b.base.set,
           b.state.key.e = account.key.e + 1, b.state.key.e <= made' + 1,
           b.state.key.n \in 1..made', b.state.key \notin committed,
           \A c \in Bound : c.state.key.n = b.state.key.n => c.by = d,
           \A g \in grants : g.key.n = b.state.key.n => g.to # d,
           \A m \in late : m.body.state.key.n # b.state.key.n /\ m.body # disk[d].pending,
           r.key = account.key, disk[d].key = account.key, ~r.settling,
           r.pw <= account.pw, r.token <= account.pw, r.ops \subseteq disk[d].ops,
           disk[d].own.key = NoKey \/ disk[d].own.acked
    PROVE  RotationInv'
  <1>. DEFINE D == disk'[d]
              R == run'[d]
  <1>1. /\ disk' = [disk EXCEPT ![d].pending = b]
        /\ run' = [run EXCEPT ![d] = [r EXCEPT !.pc = "sent", !.body = b, !.rows = Idle.rows]]
    BY DEF Sends, Goes
  <1>2. D = [disk[d] EXCEPT !.pending = b] /\ R = [r EXCEPT !.pc = "sent", !.body = b, !.rows = Idle.rows]
    BY <1>1, At
  <1>3. /\ D \in Files /\ D.key = disk[d].key /\ D.pw = disk[d].pw /\ D.pending = b
        /\ D.wraps = disk[d].wraps /\ D.ops = disk[d].ops /\ D.own = disk[d].own
    BY <1>2, At DEF Files
  <1>4. /\ R \in Runs /\ R.pc = "sent" /\ R.body = b /\ R.key = r.key /\ R.pw = r.pw
        /\ R.ops = r.ops /\ R.token = r.token /\ R.settling = r.settling
    <2>1. Idle.rows \in [Devices -> Keys]
      BY NoneTyped, RunParts
    <2>. QED
      BY <1>2, <2>1, ZenonT(60) DEF Runs, Pcs
  <1>5. /\ disk' \in [Devices -> Files] /\ run' \in [Devices -> Runs]
        /\ \A x \in Devices \ {d} : disk'[x] = disk[x] /\ run'[x] = run[x]
    BY <1>1, <1>2, <1>3, <1>4, At
  <1>6. disk'[d].pending = b /\ run'[d].body = b
    BY <1>3, <1>4
  <1>. HIDE DEF D, R
  <1>7. made \in Nat /\ made' \in Nat /\ made <= made' /\ MaxKeys \in Nat
    BY RotationConstants DEF RotationInv, TypeOK
  <1>8. TypeOK'
    BY <1>5, <1>7 DEF RotationInv, TypeOK
  <1>9. AccountInv' /\ VaultInv' /\ LatesInv'
    <2>1. AccountInv'
      BY <1>7, KeysOrdered, Parts, KeyParts DEF RotationInv, AccountInv
    <2>. QED
      BY <2>1 DEF RotationInv, VaultInv, WrapSetCurrent, LatesInv
  <1>10. Bound' \subseteq Bound \cup {b}
    <2>1. \A x \in Devices : disk'[x].pending \in {disk[x].pending, b} /\ run'[x].body \in {run[x].body, b}
      BY <1>5, <1>6
    <2>. QED
      BY <2>1 DEF Bound
  <1>11. BodiesInv'
    <2>1. ASSUME NEW c \in Bound
          PROVE  BodyOK(c)'
      <3>1. BodyOK(c) /\ c.state.key \in Keys
        BY BoundParts, KeyParts DEF RotationInv, BodiesInv
      <3>. QED
        BY <1>7, <3>1, KeyParts DEF BodyOK
    <2>2. BodyOK(b)'
      BY Parts DEF BodyOK, RotationInv
    <2>. QED
      BY <1>10, <2>1, <2>2 DEF BodiesInv
  <1>12. MakersInv'
    BY <1>10 DEF RotationInv, MakersInv
  <1>13. GrantsInv'
    <2>1. GrantsInv
      BY DEF RotationInv
    <2>2. ASSUME NEW g \in grants, NEW c \in Bound', c.state.key.n = g.key.n
          PROVE  c.by # g.to
      BY <1>10, <2>1, <2>2 DEF GrantsInv
    <2>. QED
      BY <2>1, <2>2 DEF GrantsInv
  <1>14. ASSUME NEW x \in Devices \ {d}
         PROVE  DeviceOK(x, disk[x], run[x])'
    <2>1. DeviceOK(x, disk[x], run[x]) /\ disk'[x] = disk[x] /\ run'[x] = run[x]
      BY <1>5 DEF RotationInv, DevicesInv
    <2>. QED
      BY <2>1 DEF DeviceOK, FileOK, CacheOK, KeysOK, PendingOK, OwnOK, LateOK, Dead, WayOK
  <1>15. DeviceOK(d, D, R)
    <2>1. FileOK(d, D) /\ CacheOK(d, D)
      BY <1>3, At DEF FileOK, CacheOK
    <2>2. KeysOK(D, R) /\ PendingOK(D, R)
      <3>1. b # NoBody
        BY NoneIs, Parts, KeyParts DEF RotationInv
      <3>. QED
        BY <1>3, <1>4, <3>1 DEF KeysOK, PendingOK, Own, Following
    <2>3. OwnOK(R)
      BY <1>4 DEF OwnOK
    <2>4. LateOK(d, D, R)
      BY <1>3, <1>4, At DEF LateOK
    <2>5. WayOK(d, D)
      BY <1>3, KeysOrdered, Parts, KeyParts DEF WayOK, RotationInv
    <2>. QED
      BY <1>4, <2>1, <2>2, <2>3, <2>4, <2>5 DEF DeviceOK
  <1>16. DeviceOK(d, disk[d], run[d])'
    <2>1. DeviceOK(d, disk'[d], run'[d])
      BY <1>15 DEF D, R
    <2>. QED
      BY <2>1 DEF DeviceOK, FileOK, CacheOK, KeysOK, PendingOK, OwnOK, LateOK, Dead, WayOK
  <1>17. DevicesInv'
    BY <1>14, <1>16 DEF DevicesInv
  <1>. QED
    BY <1>8, <1>9, <1>11, <1>12, <1>13, <1>17 DEF RotationInv


LEMMA BeginRotationKeeps ==
    ASSUME RotationInv, NEW d \in Devices, BeginRotation(d)
    PROVE  RotationInv'
  <1>1. PICK q : q = run[d]
    OBVIOUS
  <1>2. PICK r : r = [q EXCEPT !.token = account.pw]
    OBVIOUS
  <1>3. PICK key : key = [e |-> account.key.e + 1, n |-> made + 1]
    OBVIOUS
  <1>4. PICK b : b = Built(d, q, account, key)
    OBVIOUS
  <1>5. /\ q.pc = "synced" /\ made < MaxKeys /\ q.key = account.key
        /\ made' = made + 1 /\ Sends(d, r, b)
        /\ UNCHANGED <<account, committed, vault, grants, late, lates, stops>>
    BY <1>1, <1>2, <1>3, <1>4 DEF BeginRotation, server
  <1>6. /\ q \in Runs /\ KeysOK(disk[d], q) /\ PendingOK(disk[d], q)
        /\ account.pw \in 0..MaxChanges /\ account.pw \in Nat
    BY <1>1, At
  <1>7. /\ made \in Nat /\ MaxKeys \in Nat /\ account.key.e \in Nat /\ account.key.e <= made + 1
    BY RotationConstants, Parts, KeyParts DEF RotationInv, TypeOK, AccountInv
  <1>8. /\ key \in Keys /\ key.e = account.key.e + 1 /\ key.n = made + 1
        /\ key.e <= made' + 1 /\ key.n \in 1..made'
    BY <1>3, <1>5, <1>7 DEF Keys
  <1>9. /\ q.ops \subseteq disk[d].ops /\ q.key = disk[d].key /\ q.pw <= account.pw
        /\ (disk[d].own.key = NoKey \/ disk[d].own.acked)
        /\ \A o \in Devices : q.rows[o] = NoKey
             \/ (o \in vault.ops /\ q.rows[o] \in committed /\ q.rows[o].e >= q.key.e)
    BY <1>5, <1>6 DEF KeysOK, Following
  <1>10. disk[d].pending = NoBody /\ ~q.settling
    BY <1>5, <1>6 DEF PendingOK
  <1>11. /\ b \in Bodies /\ b.by = d /\ b.base = account /\ b.state.key = key
         /\ b.state.seq = b.base.seq + 1 /\ b.state.pw = b.base.pw /\ b.state.set = b.base.set
         /\ b.base.key \in committed /\ b.drop = {}
         /\ b.cursor \subseteq vault.ops /\ b.rewrap \subseteq vault.ops
         /\ Devices \subseteq b.base.set
    <2>1. run[d].ops = q.ops /\ q.key = account.key /\ q \in Runs /\ key \in Keys
      BY <1>1, <1>5, <1>6, <1>8
    <2>. QED
      BY ONLY RotationInv, d \in Devices, <1>4, <1>9, <2>1, BuiltOK
  <1>12. /\ r \in Runs /\ r.key = q.key /\ ~r.settling /\ r.pw = q.pw /\ r.token = account.pw
         /\ r.ops = q.ops
    BY <1>2, <1>6, <1>10 DEF Runs
  <1>13. /\ \A k \in committed : k.n <= made /\ k.n \in Nat
         /\ \A c \in Bound : c.state.key.n <= made /\ c.state.key.n \in Nat
    <2>1. \A k \in committed : k.n <= made /\ k.n \in Nat
      BY KeysOrdered DEF RotationInv, AccountInv
    <2>2. ASSUME NEW c \in Bound
          PROVE  c.state.key.n <= made /\ c.state.key.n \in Nat
      <3>1. BodyOK(c) /\ c.state.key \in Keys
        BY BoundParts, KeyParts DEF RotationInv, BodiesInv
      <3>. QED
        BY <1>7, <3>1 DEF BodyOK
    <2>. QED
      BY <2>1, <2>2
  <1>14. /\ key \notin committed
         /\ \A c \in Bound : c.state.key.n # key.n
         /\ \A g \in grants : g.key.n # key.n
         /\ \A m \in late : m.body.state.key.n # key.n /\ m.body # NoBody
    <2>1. \A g \in grants : g.key \in committed
      BY DEF RotationInv, GrantsInv
    <2>2. \A m \in late : m.body \in Bound /\ m.body # NoBody
      BY BoundParts DEF RotationInv, LatesInv
    <2>. QED
      BY <1>7, <1>8, <1>13, <2>1, <2>2
  <1>15. made' \in {made, made + 1} /\ made' <= MaxKeys /\ r.token <= account.pw
    BY <1>5, <1>6, <1>7, <1>12
  <1>16. /\ b.state.key.e = account.key.e + 1 /\ b.state.key.e <= made' + 1
         /\ b.state.key.n \in 1..made' /\ b.state.key \notin committed
         /\ \A c \in Bound : c.state.key.n = b.state.key.n => c.by = d
         /\ \A g \in grants : g.key.n = b.state.key.n => g.to # d
         /\ \A m \in late : m.body.state.key.n # b.state.key.n /\ m.body # disk[d].pending
    BY <1>8, <1>10, <1>11, <1>14
  <1>17. /\ r.key = account.key /\ disk[d].key = account.key /\ ~r.settling
         /\ r.pw <= account.pw /\ r.token <= account.pw /\ r.ops \subseteq disk[d].ops
    BY <1>5, <1>9, <1>12, <1>15
  <1>. QED
    BY ONLY RotationInv, d \in Devices, <1>5, <1>9, <1>11, <1>12, <1>15, <1>16, <1>17, SendsKeeps

LEMMA RebuildKeeps ==
    ASSUME RotationInv, NEW d \in Devices, Rebuild(d)
    PROVE  RotationInv'
  <1>1. PICK q : q = run[d]
    OBVIOUS
  <1>2. PICK r : r = [q EXCEPT !.rebuilds = @ + 1]
    OBVIOUS
  <1>3. PICK key : key = q.body.state.key
    OBVIOUS
  <1>4. PICK b : b = Built(d, q, account, key)
    OBVIOUS
  <1>5. /\ run[d].pc = "rebuild"
        /\ UNCHANGED <<account, committed, vault, grants, late, lates, made, stops>>
    BY DEF Rebuild, server, budget
  <1>6. /\ q \in Runs /\ KeysOK(disk[d], q) /\ PendingOK(disk[d], q) /\ OwnOK(q)
        /\ (q.body = NoBody \/ q.body.by = d)
    BY <1>1, At
  <1>7. ~q.settling /\ Own(q) /\ q.body = disk[d].pending /\ q.body # NoBody /\ q.body.by = d
    BY <1>1, <1>5, <1>6 DEF PendingOK, Own
  <1>8. ~Committed(q.body)
    BY <1>1, <1>7, OwnNotCommitted
  <1>9. \/ /\ [account EXCEPT !.seq = q.body.base.seq, !.set = q.body.base.set] = q.body.base
           /\ MayRebuild(q) /\ Sends(d, r, b)
        \/ Abandons(d)
    BY <1>1, <1>2, <1>3, <1>4, <1>8, Zenon DEF Rebuild
  <1>10. CASE Abandons(d)
    BY <1>5, <1>10, AbandonsKeeps
  <1>11. CASE /\ [account EXCEPT !.seq = q.body.base.seq, !.set = q.body.base.set] = q.body.base
              /\ MayRebuild(q) /\ Sends(d, r, b)
    <2>1. q.body \in Bound /\ BodyOK(q.body) /\ key \in Keys
      BY <1>1, <1>3, <1>6, <1>7, BoundParts, RunParts, KeyParts DEF RotationInv, BodiesInv
    <2>2. account \in States /\ account.key = q.body.base.key
      BY <1>11, At DEF States
    <2>3. /\ key.e = account.key.e + 1 /\ key.e <= made + 1 /\ key.n \in 1..made
          /\ made \in Nat /\ made <= MaxKeys
      BY <1>3, <2>1, <2>2, RotationConstants DEF BodyOK, RotationInv, TypeOK
    <2>4. /\ q.ops \subseteq disk[d].ops /\ q.key = disk[d].key /\ q.pw <= account.pw
          /\ q.token <= account.pw
          /\ (disk[d].own.key = NoKey \/ disk[d].own.acked)
          /\ \A o \in Devices : q.rows[o] = NoKey
               \/ (o \in vault.ops /\ q.rows[o] \in committed /\ q.rows[o].e >= q.key.e)
      BY <1>1, <1>5, <1>6, <1>7 DEF KeysOK, Following
    <2>5. /\ q.key = account.key /\ key \notin committed
          /\ \A m \in late : m.body.state.key.n # key.n
      BY <1>3, <1>6, <1>7, <2>2 DEF OwnOK
    <2>6. /\ b \in Bodies /\ b.by = d /\ b.base = account /\ b.state.key = key
          /\ b.state.seq = b.base.seq + 1 /\ b.state.pw = b.base.pw /\ b.state.set = b.base.set
          /\ b.base.key \in committed /\ b.drop = {}
          /\ b.cursor \subseteq vault.ops /\ b.rewrap \subseteq vault.ops
          /\ Devices \subseteq b.base.set
      <3>1. run[d].ops = q.ops /\ q \in Runs /\ key \in Keys /\ q.key = account.key
        BY <1>1, <1>6, <2>1, <2>5
      <3>. QED
        BY ONLY RotationInv, d \in Devices, <1>4, <2>4, <3>1, BuiltOK
    <2>7. /\ r \in Runs /\ r.key = q.key /\ ~r.settling /\ r.pw = q.pw /\ r.token = q.token
          /\ r.ops = q.ops
      <3>1. q.rebuilds + 1 \in 0..MaxRebuilds
        BY <1>6, <1>11, RotationConstants DEF MayRebuild, Runs
      <3>2. PICK n \in 0..MaxRebuilds : n = q.rebuilds + 1
        BY <3>1
      <3>3. r = [q EXCEPT !.rebuilds = n]
        BY <1>2, <3>2
      <3>. QED
        BY <1>6, <1>7, <3>3 DEF Runs
    <2>8. \A c \in Bound : c.state.key.n = key.n => c.by = d
      BY <1>3, <1>7, <2>1 DEF RotationInv, MakersInv
    <2>9. \A g \in grants : g.key.n = key.n => g.to # d
      BY <1>3, <1>7, <2>1 DEF RotationInv, GrantsInv
    <2>10. \A m \in late : m.body # disk[d].pending
      BY <1>3, <1>7, <2>5
    <2>11. made' \in {made, made + 1} /\ made' <= MaxKeys /\ made' = made
      BY <1>5, <2>3
    <2>12. /\ b.state.key.e = account.key.e + 1 /\ b.state.key.e <= made' + 1
           /\ b.state.key.n \in 1..made' /\ b.state.key \notin committed
           /\ \A c \in Bound : c.state.key.n = b.state.key.n => c.by = d
           /\ \A g \in grants : g.key.n = b.state.key.n => g.to # d
           /\ \A m \in late : m.body.state.key.n # b.state.key.n /\ m.body # disk[d].pending
      BY <2>3, <2>5, <2>6, <2>8, <2>9, <2>10, <2>11
    <2>13. /\ r.key = account.key /\ disk[d].key = account.key /\ ~r.settling
           /\ r.pw <= account.pw /\ r.token <= account.pw /\ r.ops \subseteq disk[d].ops
      BY <2>4, <2>5, <2>7
    <2>. QED
      BY ONLY RotationInv, d \in Devices, <1>5, <1>11, <2>4, <2>6, <2>7, <2>11, <2>12, <2>13, SendsKeeps
  <1>. QED
    BY <1>9, <1>10, <1>11


----------------------------------------------------------------------------
(* Runs that stop, and sessions that end.                                    *)

LEMMA StopKeeps ==
    ASSUME RotationInv, NEW d \in Devices, Stop(d)
    PROVE  RotationInv'
  <1>1. /\ Ends(d) /\ stops' \in 0..MaxStops
        /\ UNCHANGED <<account, committed, vault, grants, disk, made>>
        /\ \/ UNCHANGED <<late, lates>>
           \/ /\ run[d].pc = "sent" /\ lates < MaxLate /\ lates' = lates + 1
              /\ late' = late \cup {[body |-> run[d].body, token |-> run[d].token]}
    BY At, RotationConstants DEF Stop, server
  <1>2. CASE UNCHANGED <<late, lates>>
    BY <1>1, <1>2, EndsKeeps DEF server
  <1>3. CASE /\ run[d].pc = "sent" /\ lates < MaxLate /\ lates' = lates + 1
             /\ late' = late \cup {[body |-> run[d].body, token |-> run[d].token]}
    <2>1. PICK b : b = run[d].body
      OBVIOUS
    <2>2. /\ b \in Bound /\ b \in Bodies /\ b # NoBody /\ b.by = d /\ b = disk[d].pending
          /\ run[d].token \in 0..MaxChanges
      BY <1>3, <2>1, At, BoundParts, RunParts DEF PendingOK, RotationInv
    <2>3. \A m \in late' : m \in late \/ m.body = b
      BY <1>3, <2>1
    <2>4. /\ run' \in [Devices -> Runs] /\ run'[d] = Idle
          /\ \A x \in Devices \ {d} : run'[x] = run[x]
      BY <1>1, At, NoneTyped DEF Ends, Goes
    <2>5. lates' \in 0..MaxLate /\ lates' # 0
      BY <1>3, RotationConstants DEF RotationInv, TypeOK
    <2>6. TypeOK'
      <3>1. late' \subseteq [body : Bodies, token : 0..MaxChanges]
        BY <1>3, <2>1, <2>2 DEF RotationInv, TypeOK
      <3>. QED
        BY <1>1, <2>4, <2>5, <3>1 DEF RotationInv, TypeOK
    <2>7. AccountInv' /\ VaultInv'
      BY <1>1 DEF RotationInv, AccountInv, VaultInv, WrapSetCurrent
    <2>8. Bound' \subseteq Bound
      <3>1. \A x \in Devices : disk'[x] = disk[x] /\ run'[x].body \in {run[x].body, NoBody}
        BY <1>1, <2>4, NoneIs
      <3>. QED
        BY <2>2, <2>3, <3>1 DEF Bound
    <2>9. BodiesInv' /\ MakersInv' /\ GrantsInv'
      BY <1>1, <2>8 DEF RotationInv, BodiesInv, BodyOK, MakersInv, GrantsInv
    <2>10. LatesInv'
      BY <2>2, <2>3, <2>5 DEF RotationInv, LatesInv
    <2>11. ASSUME NEW x \in Devices \ {d}
           PROVE  DeviceOK(x, disk[x], run[x])'
      <3>1. DeviceOK(x, disk[x], run[x]) /\ disk'[x] = disk[x] /\ run'[x] = run[x]
        BY <1>1, <2>4 DEF RotationInv, DevicesInv
      <3>2. FileOK(x, disk[x])' /\ CacheOK(x, disk[x])' /\ KeysOK(disk[x], run[x])'
        BY <1>1, <3>1 DEF DeviceOK, FileOK, CacheOK, KeysOK
      <3>3. PendingOK(disk[x], run[x])'
        BY <1>1, <2>5, <3>1 DEF DeviceOK, PendingOK
      <3>4. OwnOK(run[x])'
        <4>1. OwnOK(run[x]) /\ PendingOK(disk[x], run[x]) /\ (run[x].body = NoBody \/ run[x].body.by = x)
          BY <3>1 DEF DeviceOK
        <4>2. Own(run[x]) => run[x].body \in Bound /\ run[x].body.by = x
          BY <4>1, BoundParts DEF RotationInv, PendingOK, Own
        <4>3. Own(run[x]) => b.state.key.n # run[x].body.state.key.n
          BY <2>2, <4>2 DEF RotationInv, MakersInv
        <4>. QED
          BY <1>1, <2>3, <3>1, <4>1, <4>3 DEF OwnOK
      <3>5. LateOK(x, disk[x], run[x])'
        BY <1>1, <2>2, <2>3, <3>1 DEF DeviceOK, LateOK, Dead
      <3>6. WayOK(x, disk[x])'
        BY <1>1, <2>5, <3>1 DEF DeviceOK, WayOK
      <3>. QED
        BY <3>1, <3>2, <3>3, <3>4, <3>5, <3>6 DEF DeviceOK
    <2>12. DeviceOK(d, disk[d], run[d])'
      <3>1. DeviceOK(d, disk[d], Idle) /\ LateOK(d, disk[d], Idle)
        BY IdleOK DEF DeviceOK
      <3>2. FileOK(d, disk[d])' /\ CacheOK(d, disk[d])' /\ KeysOK(disk[d], run[d])'
        BY <1>1, <2>4, <3>1 DEF DeviceOK, FileOK, CacheOK, KeysOK
      <3>3. PendingOK(disk[d], run[d])' /\ OwnOK(run[d])'
        BY <1>1, <2>4, NoneIs DEF PendingOK, OwnOK, Own
      <3>4. LateOK(d, disk[d], run[d])'
        BY <1>1, <2>2, <2>3, <2>4, <3>1, NoneIs DEF LateOK, Dead
      <3>5. WayOK(d, disk[d])'
        BY <1>1, <2>5, <3>1 DEF DeviceOK, WayOK
      <3>. QED
        BY <2>4, <3>2, <3>3, <3>4, <3>5, NoneIs DEF DeviceOK
    <2>13. DevicesInv'
      BY <2>11, <2>12 DEF DevicesInv
    <2>. QED
      BY <2>6, <2>7, <2>9, <2>10, <2>13 DEF RotationInv
  <1>. QED
    BY <1>1, <1>2, <1>3

LEMMA SessionExpiredKeeps ==
    ASSUME RotationInv, NEW d \in Devices, SessionExpired(d)
    PROVE  RotationInv'
  <1>. DEFINE R == run'[d]
  <1>1. PICK p \in {"settle_again", "refused"} :
          /\ run' = [run EXCEPT ![d] = [run[d] EXCEPT !.pc = p]]
          /\ p = "settle_again" <=> run[d].settling
    BY DEF SessionExpired, Answered, Goes
  <1>2. /\ run[d].pc = "sent" /\ late' = {m \in late : m.body.by # d}
        /\ UNCHANGED <<disk, account, committed, vault, grants, lates, made, stops>>
    BY DEF SessionExpired, Answered, server, budget
  <1>3. run[d] \in Runs /\ KeysOK(disk[d], run[d]) /\ PendingOK(disk[d], run[d]) /\ OwnOK(run[d])
        /\ FileOK(d, disk[d]) /\ CacheOK(d, disk[d]) /\ WayOK(d, disk[d])
        /\ (run[d].body = NoBody \/ run[d].body.by = d)
    BY At
  <1>4. R = [run[d] EXCEPT !.pc = p] /\ p \in Pcs
    BY <1>1, At DEF Pcs
  <1>5. /\ R \in Runs /\ R.pc = p /\ R.body = run[d].body /\ R.pw = run[d].pw
        /\ R.ops = run[d].ops /\ R.key = run[d].key /\ R.settling = run[d].settling
    BY <1>3, <1>4 DEF Runs
  <1>6. run' \in [Devices -> Runs] /\ \A x \in Devices \ {d} : run'[x] = run[x]
    BY <1>1, <1>4, <1>5, At
  <1>. HIDE DEF R
  <1>7. KeysOK(disk[d], R) /\ PendingOK(disk[d], R) /\ OwnOK(R)
    BY <1>1, <1>2, <1>3, <1>5 DEF KeysOK, PendingOK, OwnOK, Own, Following
  <1>8. FileOK(d, disk[d])' /\ CacheOK(d, disk[d])' /\ WayOK(d, disk[d])'
    BY <1>2, <1>3 DEF FileOK, CacheOK, WayOK
  <1>9. KeysOK(disk[d], run[d])' /\ PendingOK(disk[d], run[d])' /\ OwnOK(run[d])'
    BY <1>2, <1>7 DEF KeysOK, PendingOK, OwnOK, Own, R
  <1>10. LateOK(d, disk[d], run[d])'
    BY <1>2 DEF LateOK
  <1>11. DeviceOK(d, disk[d], run[d])'
    BY <1>3, <1>5, <1>8, <1>9, <1>10 DEF DeviceOK, R
  <1>. QED
    BY <1>2, <1>5, <1>6, <1>11, At, DeviceStep DEF R


----------------------------------------------------------------------------
(* Uploads, and other changes of the account.                                *)

(* A device whose op the vault does not refuse wrapped it with the account's *)
(* key.                                                                      *)
LEMMA UploadKeeps ==
    ASSUME RotationInv, NEW d \in Devices, Upload(d)
    PROVE  RotationInv'
  <1>1. /\ run[d].pc = "upload"
        /\ UNCHANGED <<account, committed, grants, late, lates, made, stops>>
        /\ \/ /\ disk[d].own.key.e >= account.key.e
              /\ vault' = [vault EXCEPT !.ops = @ \cup {d}, !.wraps[d] = disk[d].own.key,
                                        !.carried[d] = disk[d].own.key]
              /\ disk' = [disk EXCEPT ![d].own.acked = TRUE]
              /\ Goes(d, [run[d] EXCEPT !.pc = "fetch_again"])
           \/ /\ Goes(d, [run[d] EXCEPT !.pc = "open", !.stale = TRUE])
              /\ UNCHANGED <<vault, disk>>
    BY Zenon DEF Upload, budget
  <1>2. /\ run[d] \in Runs /\ disk[d] \in Files
        /\ FileOK(d, disk[d]) /\ CacheOK(d, disk[d]) /\ KeysOK(disk[d], run[d])
        /\ PendingOK(disk[d], run[d]) /\ LateOK(d, disk[d], run[d]) /\ WayOK(d, disk[d])
        /\ (run[d].body = NoBody \/ run[d].body.by = d)
        /\ disk[d].own \in [key : Keys, ctx : SUBSET Devices, acked : BOOLEAN]
    BY At, FileParts
  <1>3. CASE /\ Goes(d, [run[d] EXCEPT !.pc = "open", !.stale = TRUE])
             /\ UNCHANGED <<vault, disk>>
    <2>. DEFINE R == run'[d]
    <2>1. R = [run[d] EXCEPT !.pc = "open", !.stale = TRUE]
      BY <1>3, At DEF Goes
    <2>2. /\ R \in Runs /\ R.pc = "open" /\ R.body = run[d].body /\ R.pw = run[d].pw
          /\ R.ops = run[d].ops /\ R.key = run[d].key /\ R.settling = run[d].settling
      BY <1>2, <2>1 DEF Runs, Pcs
    <2>3. run' \in [Devices -> Runs] /\ \A x \in Devices \ {d} : run'[x] = run[x]
      BY <1>3, <2>2, At DEF Goes
    <2>. HIDE DEF R
    <2>4. KeysOK(disk[d], R) /\ PendingOK(disk[d], R) /\ OwnOK(R)
      BY <1>1, <1>2, <2>2 DEF KeysOK, PendingOK, OwnOK, Own, Following
    <2>. QED
      BY <1>1, <1>3, <2>2, <2>3, <2>4, At, RunStep DEF Giving, R
  <1>4. CASE /\ disk[d].own.key.e >= account.key.e
             /\ vault' = [vault EXCEPT !.ops = @ \cup {d}, !.wraps[d] = disk[d].own.key,
                                       !.carried[d] = disk[d].own.key]
             /\ disk' = [disk EXCEPT ![d].own.acked = TRUE]
             /\ Goes(d, [run[d] EXCEPT !.pc = "fetch_again"])
    <2>. DEFINE D == disk'[d]
                R == run'[d]
    <2>1. disk[d].own.key = account.key /\ account.key # NoKey /\ account.key \in Keys
      <3>1. account.key \in committed /\ account.key \in Keys
        BY At
      <3>2. \A k \in committed : k.e \in Nat /\ k.e <= account.key.e /\ k.e >= 1 /\ k # NoKey
                                 /\ (k.e = account.key.e => k = account.key)
        BY KeysOrdered DEF RotationInv
      <3>3. disk[d].own.key \in committed
        BY <1>2, <1>4, <3>1, <3>2, NoneIs DEF FileOK
      <3>. QED
        BY <1>4, <3>1, <3>2, <3>3
    <2>2. /\ vault \in Vaults /\ vault.ops \in SUBSET Devices
          /\ vault.wraps \in [Devices -> Keys] /\ vault.carried \in [Devices -> Keys]
      BY Parts DEF RotationInv, TypeOK
    <2>3. /\ vault'.ops = vault.ops \cup {d}
          /\ vault'.wraps = [vault.wraps EXCEPT ![d] = account.key]
          /\ vault'.carried = [vault.carried EXCEPT ![d] = account.key]
          /\ vault' \in Vaults
      <3>1. vault' = [vault EXCEPT !.ops = @ \cup {d},
                                   !.wraps = [@ EXCEPT ![d] = account.key],
                                   !.carried = [@ EXCEPT ![d] = account.key]]
        BY <1>4, <2>1
      <3>2. PICK o, w, c : /\ o = vault.ops \cup {d} /\ w = [vault.wraps EXCEPT ![d] = account.key]
                           /\ c = [vault.carried EXCEPT ![d] = account.key]
        OBVIOUS
      <3>3. vault' = [vault EXCEPT !.ops = o, !.wraps = w, !.carried = c]
        BY <3>1, <3>2
      <3>4. o \in SUBSET Devices /\ w \in [Devices -> Keys] /\ c \in [Devices -> Keys]
        BY <2>1, <2>2, <3>2
      <3>. QED
        BY <2>2, <3>2, <3>3, <3>4 DEF Vaults
    <2>4. /\ \A o \in Devices : o # d => vault'.wraps[o] = vault.wraps[o]
                                         /\ vault'.carried[o] = vault.carried[o]
          /\ vault'.wraps[d] = account.key /\ vault'.carried[d] = account.key
      BY <2>2, <2>3
    <2>5. /\ D = [disk[d] EXCEPT !.own = [@ EXCEPT !.acked = TRUE]]
          /\ R = [run[d] EXCEPT !.pc = "fetch_again"]
      BY <1>4, At DEF Goes
    <2>6. [disk[d].own EXCEPT !.acked = TRUE] \in [key : Keys, ctx : SUBSET Devices, acked : BOOLEAN]
      BY <1>2
    <2>7. /\ D \in Files /\ D.key = disk[d].key /\ D.pw = disk[d].pw /\ D.pending = disk[d].pending
          /\ D.wraps = disk[d].wraps /\ D.ops = disk[d].ops
          /\ D.own = [disk[d].own EXCEPT !.acked = TRUE]
      <3>1. PICK w : w = [disk[d].own EXCEPT !.acked = TRUE]
        OBVIOUS
      <3>2. /\ disk[d] \in Files /\ D = [disk[d] EXCEPT !.own = w]
            /\ w \in [key : Keys, ctx : SUBSET Devices, acked : BOOLEAN]
        BY <1>2, <2>5, <2>6, <3>1
      <3>. QED
        BY ONLY <3>1, <3>2 DEF Files
    <2>8. D.own.key = account.key /\ D.own.acked
      BY <1>2, <2>1, <2>7
    <2>9. /\ R \in Runs /\ R.pc = "fetch_again" /\ R.key = run[d].key /\ R.pw = run[d].pw
          /\ R.ops = run[d].ops /\ R.body = run[d].body /\ R.settling = run[d].settling
      BY <1>2, <2>5 DEF Runs, Pcs
    <2>10. /\ disk' \in [Devices -> Files] /\ run' \in [Devices -> Runs]
           /\ \A x \in Devices \ {d} : disk'[x] = disk[x] /\ run'[x] = run[x]
      BY <1>4, <2>7, <2>9, At DEF Goes
    <2>. HIDE DEF D, R
    <2>11. TypeOK'
      BY <1>1, <2>3, <2>10 DEF RotationInv, TypeOK
    <2>12. AccountInv' /\ LatesInv'
      BY <1>1 DEF RotationInv, AccountInv, LatesInv
    <2>13. VaultInv'
      BY <1>1, <2>2, <2>3, <2>4 DEF RotationInv, VaultInv, WrapSetCurrent
    <2>14. Bound' = Bound
      <3>1. \A x \in Devices : disk'[x].pending = disk[x].pending /\ run'[x].body = run[x].body
        BY <2>7, <2>9, <2>10 DEF D, R
      <3>. QED
        BY <1>1, <3>1 DEF Bound
    <2>15. BodiesInv' /\ MakersInv' /\ GrantsInv'
      BY <1>1, <2>3, <2>14 DEF RotationInv, BodiesInv, BodyOK, MakersInv, GrantsInv
    <2>16. ASSUME NEW x \in Devices \ {d}
           PROVE  DeviceOK(x, disk[x], run[x])'
      <3>1. DeviceOK(x, disk[x], run[x]) /\ disk'[x] = disk[x] /\ run'[x] = run[x]
        BY <2>10 DEF RotationInv, DevicesInv
      <3>2. FileOK(x, disk[x])' /\ CacheOK(x, disk[x])'
        BY <1>1, <2>3, <3>1 DEF DeviceOK, FileOK, CacheOK
      <3>3. KeysOK(disk[x], run[x])'
        BY <1>1, <2>3, <3>1 DEF DeviceOK, KeysOK
      <3>4. PendingOK(disk[x], run[x])' /\ OwnOK(run[x])' /\ WayOK(x, disk[x])'
        BY <1>1, <3>1 DEF DeviceOK, PendingOK, OwnOK, WayOK
      <3>5. LateOK(x, disk[x], run[x])'
        BY <1>1, <2>3, <3>1 DEF DeviceOK, LateOK, Dead
      <3>. QED
        BY <3>1, <3>2, <3>3, <3>4, <3>5 DEF DeviceOK
    <2>17. DeviceOK(d, disk[d], run[d])'
      <3>1. FileOK(d, disk[d])'
        BY <1>1, <1>2, <2>1, <2>3, <2>7, <2>8, At DEF FileOK, D
      <3>2. CacheOK(d, disk[d])'
        BY <1>1, <1>2, <2>7, <2>8 DEF CacheOK, D
      <3>3. KeysOK(disk[d], run[d])'
        BY <1>1, <1>2, <2>7, <2>8, <2>9 DEF KeysOK, Own, Following, D, R
      <3>4. PendingOK(disk[d], run[d])' /\ OwnOK(run[d])'
        BY <1>1, <1>2, <2>7, <2>9 DEF PendingOK, OwnOK, Own, D, R
      <3>5. WayOK(d, disk[d])'
        BY <1>1, <1>2, <2>7 DEF WayOK, D
      <3>6. LateOK(d, disk[d], run[d])'
        BY <1>1, <1>2, <2>3, <2>7, <2>9 DEF LateOK, Dead, D, R
      <3>. QED
        BY <1>2, <2>9, <3>1, <3>2, <3>3, <3>4, <3>5, <3>6 DEF DeviceOK, R
    <2>18. DevicesInv'
      BY <2>16, <2>17 DEF DevicesInv
    <2>. QED
      BY <2>11, <2>12, <2>13, <2>15, <2>18 DEF RotationInv
  <1>. QED
    BY <1>1, <1>3, <1>4


(* A change of the account that keeps its keys: every commit built before it *)
(* is overtaken.                                                             *)
LEMMA Overtaken ==
    ASSUME RotationInv, account'.seq = account.seq + 1, account'.key = account.key,
           account'.set \in SUBSET Members, account.set \subseteq account'.set,
           UNCHANGED <<committed, vault, grants, late, made>>,
           Bound' \subseteq Bound
    PROVE  AccountInv' /\ VaultInv' /\ BodiesInv' /\ MakersInv' /\ GrantsInv'
  <1>. USE DEF RotationInv
  <1>1. account.seq \in Nat
    BY Parts
  <1>2. AccountInv' /\ VaultInv'
    BY <1>1 DEF AccountInv, VaultInv, WrapSetCurrent
  <1>3. ASSUME NEW b \in Bound
        PROVE  BodyOK(b)'
    <2>1. BodyOK(b) /\ b.base.seq \in Nat
      BY BoundParts, KeyParts DEF BodiesInv
    <2>. QED
      BY <1>1, <2>1 DEF BodyOK
  <1>4. BodiesInv'
    BY <1>3 DEF BodiesInv
  <1>. QED
    BY <1>2, <1>4 DEF MakersInv, GrantsInv

LEMMA ChangesFinite ==
    ASSUME RotationInv
    PROVE  Cardinality(account.set \ Devices) \in Nat
  <1>1. account.set \ Devices \subseteq {Newcomer}
    BY DEF RotationInv, TypeOK, States, Members
  <1>2. IsFiniteSet({Newcomer})
    BY FS_Singleton
  <1>. QED
    BY <1>1, <1>2, FS_Subset, FS_CardinalityType

LEMMA EnrolKeeps ==
    ASSUME RotationInv, Enrol
    PROVE  RotationInv'
  <1>1. /\ account' = [account EXCEPT !.seq = @ + 1, !.set = @ \cup {Newcomer}]
        /\ UNCHANGED <<committed, vault, grants, disk, run, late, made, stops, lates>>
    BY DEF Enrol, budget
  <1>2. account \in States /\ account.seq \in Nat
    BY Parts DEF RotationInv, TypeOK
  <1>3. /\ account' \in States /\ account'.seq = account.seq + 1 /\ account'.key = account.key
        /\ account'.pw = account.pw /\ account'.set = account.set \cup {Newcomer}
        /\ account'.set \in SUBSET Members
    <2>1. PICK q, s : q = account.seq + 1 /\ s = account.set \cup {Newcomer}
      OBVIOUS
    <2>2. q \in Nat /\ s \in SUBSET Members
      BY <1>2, <2>1 DEF States, Members
    <2>3. account' = [account EXCEPT !.seq = q, !.set = s]
      BY <1>1, <2>1
    <2>. QED
      BY <1>2, <2>1, <2>2, <2>3 DEF States
  <1>4. TypeOK'
    BY <1>1, <1>3 DEF RotationInv, TypeOK
  <1>5. Bound' = Bound
    BY <1>1 DEF Bound
  <1>6. AccountInv' /\ VaultInv' /\ BodiesInv' /\ MakersInv' /\ GrantsInv'
    BY <1>1, <1>3, <1>5, Overtaken
  <1>7. LatesInv'
    BY <1>1 DEF RotationInv, LatesInv
  <1>8. ASSUME NEW x \in Devices
        PROVE  DeviceOK(x, disk[x], run[x])'
    <2>1. DeviceOK(x, disk[x], run[x]) /\ disk'[x] = disk[x] /\ run'[x] = run[x]
      BY <1>1 DEF RotationInv, DevicesInv
    <2>2. \A b \in Bodies : Dead(b) => Dead(b)'
      BY <1>1, <1>2, <1>3, KeyParts DEF Dead
    <2>3. LateOK(x, disk[x], run[x])'
      BY <1>1, <1>3, <2>1, <2>2, Parts DEF RotationInv, DeviceOK, LateOK
    <2>. QED
      BY <1>1, <1>3, <2>1, <2>3 DEF DeviceOK, FileOK, CacheOK, KeysOK, PendingOK, OwnOK, WayOK
  <1>9. DevicesInv'
    BY <1>8 DEF DevicesInv
  <1>. QED
    BY <1>4, <1>6, <1>7, <1>9 DEF RotationInv

LEMMA ChangePasswordKeeps ==
    ASSUME RotationInv, NEW d \in Devices, ChangePassword(d)
    PROVE  RotationInv'
  <1>1. /\ account' = [account EXCEPT !.seq = @ + 1, !.pw = @ + 1]
        /\ disk' = [disk EXCEPT ![d].pw = account.pw + 1]
        /\ Ends(d) /\ Changes < MaxChanges
        /\ UNCHANGED <<committed, vault, grants, late, made, stops, lates>>
    BY DEF ChangePassword, budget
  <1>2. account \in States /\ account.seq \in Nat /\ account.pw \in Nat
    BY Parts, KeyParts DEF RotationInv, TypeOK
  <1>3. account.pw + 1 \in 0..MaxChanges
    BY <1>1, <1>2, ChangesFinite, RotationConstants DEF Changes
  <1>4. PICK w \in 0..MaxChanges : w = account.pw + 1
    BY <1>3
  <1>5. /\ account' \in States /\ account'.seq = account.seq + 1 /\ account'.key = account.key
        /\ account'.pw = w /\ account'.set = account.set
        /\ account'.set \in SUBSET Members
    <2>1. PICK q : q = account.seq + 1
      OBVIOUS
    <2>2. q \in Nat
      BY <1>2, <2>1
    <2>3. account' = [account EXCEPT !.seq = q, !.pw = w]
      BY <1>1, <1>4, <2>1
    <2>. QED
      BY <1>2, <2>1, <2>2, <2>3 DEF States
  <1>6. w \in Nat /\ w # 0 /\ account.pw <= w
    BY <1>2, <1>4
  <1>7. /\ disk'[d] = [disk[d] EXCEPT !.pw = w] /\ run'[d] = Idle
        /\ disk[d] \in Files
    BY <1>1, <1>4, At DEF Ends, Goes
  <1>8. /\ disk'[d] \in Files /\ disk'[d].key = disk[d].key /\ disk'[d].pw = w
        /\ disk'[d].pending = disk[d].pending /\ disk'[d].wraps = disk[d].wraps
        /\ disk'[d].ops = disk[d].ops /\ disk'[d].own = disk[d].own
    BY <1>7 DEF Files
  <1>9. /\ disk' \in [Devices -> Files] /\ run' \in [Devices -> Runs]
        /\ \A x \in Devices \ {d} : disk'[x] = disk[x] /\ run'[x] = run[x]
    BY <1>1, <1>7, <1>8, At, NoneTyped DEF Ends, Goes
  <1>10. TypeOK'
    BY <1>1, <1>5, <1>9 DEF RotationInv, TypeOK
  <1>11. Bound' \subseteq Bound
    <2>1. \A x \in Devices : disk'[x].pending = disk[x].pending /\ run'[x].body \in {run[x].body, NoBody}
      BY <1>7, <1>8, <1>9, NoneIs
    <2>. QED
      BY <1>1, <2>1 DEF Bound
  <1>12. AccountInv' /\ VaultInv' /\ BodiesInv' /\ MakersInv' /\ GrantsInv'
    BY <1>1, <1>5, <1>11, Overtaken
  <1>13. LatesInv'
    BY <1>1 DEF RotationInv, LatesInv
  <1>14. ASSUME NEW x \in Devices \ {d}
         PROVE  DeviceOK(x, disk[x], run[x])'
    <2>1. DeviceOK(x, disk[x], run[x]) /\ disk'[x] = disk[x] /\ run'[x] = run[x]
      BY <1>9 DEF RotationInv, DevicesInv
    <2>2. disk[x].pw \in Nat /\ run[x].pw \in Nat /\ run[x].token \in Nat
      BY At, FileParts, RunParts
    <2>3. FileOK(x, disk[x])' /\ CacheOK(x, disk[x])'
      BY <1>1, <1>2, <1>5, <1>6, <2>1, <2>2 DEF DeviceOK, FileOK, CacheOK
    <2>4. KeysOK(disk[x], run[x])'
      BY <1>1, <1>2, <1>5, <1>6, <2>1, <2>2 DEF DeviceOK, KeysOK
    <2>5. PendingOK(disk[x], run[x])' /\ OwnOK(run[x])'
      BY <1>1, <2>1 DEF DeviceOK, PendingOK, OwnOK
    <2>6. LateOK(x, disk[x], run[x])' /\ WayOK(x, disk[x])'
      BY <1>1, <1>5, <1>6, <2>1 DEF DeviceOK, LateOK, WayOK
    <2>. QED
      BY <2>1, <2>3, <2>4, <2>5, <2>6 DEF DeviceOK
  <1>15. DeviceOK(d, disk[d], run[d])'
    <2>1. DeviceOK(d, disk[d], Idle) /\ FileOK(d, disk[d]) /\ WayOK(d, disk[d]) /\ CacheOK(d, disk[d])
      BY IdleOK, At
    <2>2. FileOK(d, disk[d])' /\ CacheOK(d, disk[d])'
      BY <1>1, <1>5, <1>6, <1>8, <2>1 DEF FileOK, CacheOK
    <2>3. KeysOK(disk[d], run[d])' /\ PendingOK(disk[d], run[d])' /\ OwnOK(run[d])'
      BY <1>5, <1>6, <1>7, NoneIs DEF KeysOK, PendingOK, OwnOK, Own, Following
    <2>4. LateOK(d, disk[d], run[d])' /\ WayOK(d, disk[d])'
      BY <1>1, <1>5, <1>6, <1>8, <2>1 DEF LateOK, WayOK
    <2>. QED
      BY <1>7, <2>2, <2>3, <2>4, NoneIs DEF DeviceOK
  <1>16. DevicesInv'
    BY <1>14, <1>15 DEF DevicesInv
  <1>. QED
    BY <1>10, <1>12, <1>13, <1>16 DEF RotationInv


----------------------------------------------------------------------------
(* Commits.                                                                  *)

(* The rows of the wrap set are those of the stored ops, so that a commit    *)
(* covers and names exactly these.                                           *)
LEMMA RowsAre ==
    ASSUME RotationInv
    PROVE  {o \in Devices : vault.wraps[o] # NoKey} = vault.ops
  <1>1. account.key # NoKey
    BY KeysOrdered DEF RotationInv, AccountInv
  <1>. QED
    BY <1>1, Parts DEF RotationInv, VaultInv, WrapSetCurrent

(* A commit of a session at the account's password that is refused is dead.  *)
LEMMA RefusedIsDead ==
    ASSUME RotationInv, NEW b \in Bound, Answer(b, account.pw) # "ok"
    PROVE  Dead(b)
  <1>1. b \in Bodies /\ BodyOK(b)
    BY BoundParts DEF RotationInv, BodiesInv
  <1>2. b.base.seq \in Nat /\ account.seq \in Nat
    BY <1>1, Parts, KeyParts DEF RotationInv
  <1>3. /\ b.base.seq <= account.seq /\ b.state.seq = b.base.seq + 1
        /\ b.drop = {} /\ b.cursor \subseteq vault.ops /\ b.rewrap \subseteq vault.ops
    BY <1>1 DEF BodyOK
  <1>4. Known(b)
    BY <1>3, RowsAre DEF Known
  <1>5. Covered(b) <=> vault.ops \subseteq b.rewrap
    BY <1>3, RowsAre DEF Covered
  <1>6. b.state.seq # account.seq + 1 \/ ~Covered(b) \/ b.cursor # vault.ops
    BY <1>4 DEF Answer
  <1>. QED
    BY <1>2, <1>3, <1>5, <1>6 DEF Dead

(* What an applied commit does.                                              *)
LEMMA Applied ==
    ASSUME RotationInv, NEW b \in Bound, NEW tok,
           Answer(b, tok) = "ok", b.state # account, Commit(b, tok)
    PROVE  /\ b.base = account /\ account' = b.state /\ account' \in States
           /\ account'.seq = account.seq + 1 /\ account'.pw = account.pw
           /\ account'.key.e = account.key.e + 1 /\ account'.set = account.set
           /\ committed' = committed \cup {account'.key}
           /\ account'.key \notin committed /\ account'.key \in Keys
           /\ grants' = grants \cup {[to |-> r, from |-> account.key, key |-> account'.key] :
                                       r \in account.set \ {b.by}}
           /\ b.cursor = vault.ops /\ vault.ops \subseteq b.rewrap
           /\ ~Dead(b)
           /\ vault' = WriteVault(b)
  <1>1. b \in Bodies /\ BodyOK(b) /\ b.state \in States
    BY BoundParts, KeyParts DEF RotationInv, BodiesInv
  <1>2. /\ b.base.seq \in Nat /\ account.seq \in Nat /\ b.state.seq \in Nat
        /\ account.key.e \in Nat /\ b.state.key \in Keys
    BY <1>1, Parts, KeyParts DEF RotationInv
  <1>3. /\ b.state.seq = account.seq + 1 /\ Covered(b) /\ b.cursor = vault.ops
    BY DEF Answer
  <1>4. b.base.seq = account.seq /\ b.base = account /\ b.drop = {}
        /\ b.state.pw = account.pw /\ b.state.set = account.set
        /\ b.state.key.e = account.key.e + 1
    BY <1>1, <1>2, <1>3 DEF BodyOK
  <1>5. vault.ops \subseteq b.rewrap
    BY <1>3, <1>4, RowsAre DEF Covered
  <1>6. /\ account' = b.state /\ committed' = committed \cup {b.state.key}
        /\ grants' = grants \cup {[to |-> r, from |-> b.base.key, key |-> b.state.key] :
                                    r \in b.state.set \ {b.by}}
        /\ vault' = WriteVault(b)
    BY DEF Commit
  <1>7. b.state.key \notin committed
    BY <1>2, <1>4, KeysOrdered DEF RotationInv
  <1>8. ~Dead(b)
    BY <1>2, <1>3, <1>4, <1>5 DEF Dead
  <1>. QED
    BY <1>1, <1>2, <1>3, <1>4, <1>5, <1>6, <1>7, <1>8

LEMMA AppliedVault ==
    ASSUME RotationInv, NEW b \in Bound, vault' = WriteVault(b), b.state.key \in Keys
    PROVE  /\ vault' \in Vaults /\ vault'.ops = vault.ops
           /\ \A o \in Devices : vault'.carried[o] = NoKey
           /\ \A o \in Devices : o \in b.rewrap => vault'.wraps[o] = b.state.key
           /\ \A o \in Devices : o \notin b.rewrap => vault'.wraps[o] = vault.wraps[o]
  <1>1. /\ vault \in Vaults /\ vault.wraps \in [Devices -> Keys]
        /\ b.drop = {}
    BY Parts DEF RotationInv, TypeOK, BodiesInv, BodyOK
  <1>2. PICK w : w = [o \in Devices |-> IF o \in b.rewrap THEN b.state.key
                                        ELSE IF o \in b.drop THEN NoKey ELSE vault.wraps[o]]
    OBVIOUS
  <1>3. PICK c : c = [o \in Devices |-> NoKey]
    OBVIOUS
  <1>4. w \in [Devices -> Keys] /\ c \in [Devices -> Keys]
    BY <1>1, <1>2, <1>3, NoneTyped
  <1>5. vault' = [vault EXCEPT !.wraps = w, !.carried = c]
    BY <1>2, <1>3 DEF WriteVault
  <1>6. vault' \in Vaults /\ vault'.ops = vault.ops /\ vault'.wraps = w /\ vault'.carried = c
    BY <1>1, <1>4, <1>5 DEF Vaults
  <1>. QED
    BY <1>1, <1>2, <1>3, <1>6


Applies(b, tok) == Answer(b, tok) = "ok" /\ b.state # account /\ Commit(b, tok)

(* The account, the vault and the commits after it.                          *)
LEMMA AppliedServer ==
    ASSUME RotationInv, NEW b \in Bound, NEW tok, Applies(b, tok),
           made' = made, Bound' \subseteq Bound
    PROVE  /\ AccountInv' /\ VaultInv' /\ BodiesInv' /\ MakersInv' /\ GrantsInv'
           /\ account' \in States /\ committed' \subseteq Keys /\ vault' \in Vaults
           /\ grants' \subseteq [to : Members, from : Keys, key : Keys]
  <1>. USE DEF RotationInv
  <1>1. /\ b.base = account /\ account' = b.state /\ account' \in States
        /\ account'.seq = account.seq + 1 /\ account'.pw = account.pw
        /\ account'.key.e = account.key.e + 1 /\ account'.set = account.set
        /\ committed' = committed \cup {account'.key}
        /\ account'.key \notin committed /\ account'.key \in Keys
        /\ grants' = grants \cup {[to |-> r, from |-> account.key, key |-> account'.key] :
                                    r \in account.set \ {b.by}}
        /\ vault.ops \subseteq b.rewrap
        /\ vault' = WriteVault(b)
    BY Applied DEF Applies
  <1>2. /\ vault' \in Vaults /\ vault'.ops = vault.ops
        /\ \A o \in Devices : vault'.carried[o] = NoKey
        /\ \A o \in Devices : o \in b.rewrap => vault'.wraps[o] = b.state.key
        /\ \A o \in Devices : o \notin b.rewrap => vault'.wraps[o] = vault.wraps[o]
    BY <1>1, AppliedVault
  <1>3. /\ BodyOK(b) /\ account.seq \in Nat /\ account.key \in Keys /\ account.key.e \in Nat
        /\ account.set \subseteq Members /\ made \in Nat /\ vault.ops \subseteq Devices
        /\ account.key \in committed /\ account.key.e >= 1
    BY Parts, KeyParts, KeysOrdered, RotationConstants DEF BodiesInv, TypeOK, AccountInv, States
  <1>4. AccountInv'
    <2>1. account'.key.e <= made + 1 /\ account'.key.n <= made
      BY <1>1, <1>3 DEF BodyOK
    <2>2. \A k \in committed : k.e \in Nat /\ k.e >= 1 /\ k.e <= account.key.e /\ k.n <= made
      BY KeysOrdered DEF AccountInv
    <2>3. \A k \in committed' : k.e \in 1..account'.key.e /\ k.n <= made
      BY <1>1, <1>3, <2>1, <2>2
    <2>4. \A k, l \in committed' : k.e = l.e => k = l
      BY <1>1, <1>3, <2>2 DEF AccountInv
    <2>5. \A e \in 1..account'.key.e : \E k \in committed' : k.e = e
      <3>1. \A e \in 1..account.key.e : \E k \in committed : k.e = e
        BY DEF AccountInv
      <3>. QED
        BY <1>1, <1>3, <3>1
    <2>. QED
      BY <1>1, <1>3, <2>1, <2>3, <2>4, <2>5 DEF AccountInv
  <1>5. VaultInv'
    <2>1. \A o \in vault.ops : vault'.wraps[o] = account'.key
      BY <1>1, <1>2, <1>3
    <2>2. \A o \in Devices \ vault.ops : o \notin b.rewrap
      BY <1>3 DEF BodyOK
    <2>. QED
      BY <1>2, <1>3, <2>1, <2>2 DEF VaultInv, WrapSetCurrent
  <1>6. BodiesInv'
    <2>1. ASSUME NEW c \in Bound
          PROVE  BodyOK(c)'
      <3>1. BodyOK(c) /\ c.base.seq \in Nat
        BY BoundParts, KeyParts DEF BodiesInv
      <3>. QED
        BY <1>1, <1>2, <1>3, <3>1 DEF BodyOK
    <2>. QED
      BY <2>1 DEF BodiesInv
  <1>7. MakersInv'
    BY DEF MakersInv
  <1>8. \A g \in grants' : g \in grants \/ (\E r \in account.set \ {b.by} :
                              g = [to |-> r, from |-> account.key, key |-> account'.key])
    BY <1>1
  <1>9. GrantsInv'
    <2>1. ASSUME NEW g \in grants
          PROVE  /\ g.from \in committed' /\ g.key \in committed' /\ g.key.e = g.from.e + 1
                 /\ \A c \in Bound' : c.state.key.n = g.key.n => c.by # g.to
      BY <1>1 DEF GrantsInv
    <2>2. ASSUME NEW g, NEW r \in account.set \ {b.by},
                 g = [to |-> r, from |-> account.key, key |-> account'.key]
          PROVE  /\ g.from \in committed' /\ g.key \in committed' /\ g.key.e = g.from.e + 1
                 /\ \A c \in Bound' : c.state.key.n = g.key.n => c.by # g.to
      <3>1. g.to = r /\ g.from = account.key /\ g.key = b.state.key
        BY <1>1, <2>2
      <3>2. \A c \in Bound : c.state.key.n = b.state.key.n => c.by = b.by
        BY DEF MakersInv
      <3>. QED
        BY <1>1, <1>3, <2>2, <3>1, <3>2
    <2>. QED
      BY <1>8, <2>1, <2>2 DEF GrantsInv
  <1>10. grants' \subseteq [to : Members, from : Keys, key : Keys]
    BY <1>1, <1>3, <1>8 DEF TypeOK
  <1>11. committed' \subseteq Keys
    BY <1>1 DEF TypeOK
  <1>. QED
    BY <1>1, <1>2, <1>4, <1>5, <1>6, <1>7, <1>9, <1>10, <1>11

(* The parts of a device that a commit leaves alone, for any device whose    *)
(* file it does not change.                                                  *)
LEMMA AppliedDevice ==
    ASSUME RotationInv, NEW b \in Bound, NEW tok, Applies(b, tok),
           NEW x \in Devices, disk'[x] = disk[x]
    PROVE  FileOK(x, disk[x])' /\ CacheOK(x, disk[x])'
  <1>1. /\ committed \subseteq committed' /\ account'.key \notin committed
        /\ account'.pw = account.pw /\ b.state.key \in Keys /\ vault' = WriteVault(b)
    BY Applied DEF Applies
  <1>2. vault'.ops = vault.ops
    BY <1>1, AppliedVault
  <1>3. FileOK(x, disk[x]) /\ CacheOK(x, disk[x])
    BY At
  <1>4. FileOK(x, disk[x])'
    BY <1>1, <1>2, <1>3 DEF FileOK
  <1>5. CacheOK(x, disk[x])'
    BY <1>1, <1>3 DEF FileOK, CacheOK
  <1>. QED
    BY <1>4, <1>5

(* A commit of another device, or one that no run of this device waits for.  *)
LEMMA AppliedElsewhere ==
    ASSUME RotationInv, NEW b \in Bound, NEW tok, Applies(b, tok),
           NEW x \in Devices, disk'[x] = disk[x], run'[x] = run[x],
           late' \subseteq late, lates' = lates,
           \/ b.by # x
           \/ /\ lates # 0
              /\ Own(run[x]) => b.state.key # run[x].body.state.key
              /\ account.pw = 0 => disk[x].pending = b
    PROVE  DeviceOK(x, disk[x], run[x])'
  <1>1. /\ account' = b.state /\ account'.pw = account.pw /\ account'.seq = account.seq + 1
        /\ committed' = committed \cup {b.state.key}
        /\ grants' = grants \cup {[to |-> r, from |-> account.key, key |-> account'.key] :
                                    r \in account.set \ {b.by}}
        /\ vault' = WriteVault(b) /\ b.state.key \in Keys
    BY Applied DEF Applies
  <1>2. vault'.ops = vault.ops
    BY <1>1, AppliedVault
  <1>3. /\ KeysOK(disk[x], run[x]) /\ PendingOK(disk[x], run[x]) /\ OwnOK(run[x])
        /\ LateOK(x, disk[x], run[x]) /\ WayOK(x, disk[x])
        /\ (run[x].body = NoBody \/ run[x].body.by = x)
    BY At
  <1>4. FileOK(x, disk[x])' /\ CacheOK(x, disk[x])'
    BY AppliedDevice
  <1>5. KeysOK(disk[x], run[x])'
    BY <1>1, <1>2, <1>3 DEF KeysOK
  <1>6. b.by # x /\ run[x].body # NoBody => run[x].body.state.key # b.state.key
    BY <1>3, BoundParts DEF RotationInv, MakersInv
  <1>7. PendingOK(disk[x], run[x])'
    BY <1>1, <1>3, <1>6 DEF PendingOK
  <1>8. OwnOK(run[x])'
    <2>1. Own(run[x]) => run[x].body # NoBody
      BY <1>3 DEF PendingOK, Own
    <2>. QED
      BY <1>1, <1>3, <1>6, <2>1 DEF OwnOK
  <1>9. LateOK(x, disk[x], run[x])'
    <2>1. \A m \in late : Dead(m.body) => Dead(m.body)'
      <3>1. \A m \in late : m.body.base.seq \in Nat
        BY Parts, KeyParts DEF RotationInv
      <3>2. account.seq \in Nat
        BY Parts DEF RotationInv
      <3>. QED
        BY <1>1, <1>2, <3>1, <3>2 DEF Dead
    <2>. QED
      BY <1>1, <1>3, <2>1 DEF LateOK
  <1>10. WayOK(x, disk[x])'
    <2>1. CASE b.by # x
      <3>1. x \in account.set
        BY DEF RotationInv, AccountInv
      <3>2. PICK h : h = [to |-> x, from |-> account.key, key |-> account'.key]
        OBVIOUS
      <3>3. h \in grants' /\ h.to = x /\ h.key = b.state.key
        BY <1>1, <2>1, <3>1, <3>2
      <3>. QED
        BY <1>1, <1>3, <3>3 DEF WayOK
    <2>2. CASE lates # 0 /\ (account.pw = 0 => disk[x].pending = b)
      BY <1>1, <1>3, <2>2 DEF WayOK
    <2>. QED
      BY <2>1, <2>2
  <1>. QED
    BY <1>3, <1>4, <1>5, <1>7, <1>8, <1>9, <1>10 DEF DeviceOK


LEMMA ArrivesKeeps ==
    ASSUME RotationInv, NEW m \in late, Arrives(m)
    PROVE  RotationInv'
  <1>1. PICK b : b = m.body
    OBVIOUS
  <1>2. PICK tok : tok = m.token
    OBVIOUS
  <1>3. /\ Commit(b, tok) /\ late' = late \ {m}
        /\ UNCHANGED <<disk, run, made, stops, lates>>
    BY <1>1, <1>2 DEF Arrives, budget
  <1>4. b \in Bound /\ b.by \in Devices /\ b # NoBody /\ lates # 0 /\ b \in Bodies
    BY <1>1, BoundParts DEF RotationInv, LatesInv
  <1>5. Bound' \subseteq Bound
    BY <1>3 DEF Bound
  <1>6. CASE UNCHANGED server
    <2>1. PICK d \in Devices : d = b.by
      BY <1>4
    <2>2. UNCHANGED <<account, committed, vault, grants>>
      BY <1>6 DEF server
    <2>3. DeviceOK(d, disk[d], run[d])
      BY DEF RotationInv, DevicesInv
    <2>4. DeviceOK(d, disk[d], run[d])'
      BY <1>3, <2>2, <2>3
         DEF DeviceOK, FileOK, CacheOK, KeysOK, PendingOK, OwnOK, LateOK, Dead, WayOK
    <2>5. disk' \in [Devices -> Files] /\ run' \in [Devices -> Runs] /\ stops' \in 0..MaxStops
      BY <1>3, At, <2>1
    <2>. QED
      BY <1>3, <2>2, <2>4, <2>5, DeviceStep
  <1>7. CASE Applies(b, tok)
    <2>1. /\ AccountInv' /\ VaultInv' /\ BodiesInv' /\ MakersInv' /\ GrantsInv'
          /\ account' \in States /\ committed' \subseteq Keys /\ vault' \in Vaults
          /\ grants' \subseteq [to : Members, from : Keys, key : Keys]
      BY <1>3, <1>4, <1>5, <1>7, AppliedServer
    <2>2. TypeOK'
      BY <1>3, <2>1 DEF RotationInv, TypeOK
    <2>3. LatesInv'
      BY <1>3, <1>4 DEF RotationInv, LatesInv
    <2>4. ~Dead(b)
      BY <1>4, <1>7, Applied DEF Applies
    <2>5. ASSUME NEW x \in Devices
          PROVE  DeviceOK(x, disk[x], run[x])'
      <3>1. OwnOK(run[x]) /\ LateOK(x, disk[x], run[x])
        BY At
      <3>2. Own(run[x]) => b.state.key # run[x].body.state.key
        BY <1>1, <3>1 DEF OwnOK
      <3>3. b.by = x /\ account.pw = 0 => disk[x].pending = b
        BY <1>1, <2>4, <3>1 DEF LateOK
      <3>. QED
        BY <1>3, <1>4, <1>7, <3>2, <3>3, AppliedElsewhere
    <2>6. DevicesInv'
      BY <2>5 DEF DevicesInv
    <2>. QED
      BY <2>1, <2>2, <2>3, <2>6 DEF RotationInv
  <1>. QED
    BY <1>3, <1>6, <1>7 DEF Commit, Applies

(* A commit that is answered without being applied.                          *)
LEMMA NotAppliedKeeps ==
    ASSUME RotationInv, NEW d \in Devices, run[d].pc = "sent",
           NEW a, a = Answer(run[d].body, run[d].token),
           a # "ok" \/ run[d].body.state = account,
           Answered(d, a), UNCHANGED <<server, late, budget>>
    PROVE  RotationInv'
  <1>. DEFINE R == run'[d]
  <1>1. UNCHANGED <<account, committed, vault, grants, late, lates, made, stops>>
    BY DEF server, budget
  <1>2. /\ run[d] \in Runs /\ KeysOK(disk[d], run[d]) /\ PendingOK(disk[d], run[d])
        /\ OwnOK(run[d]) /\ FileOK(d, disk[d]) /\ CacheOK(d, disk[d])
        /\ LateOK(d, disk[d], run[d]) /\ WayOK(d, disk[d])
        /\ (run[d].body = NoBody \/ run[d].body.by = d)
        /\ account.key \in committed /\ account.pw \in Nat
    BY At
  <1>3. run[d].body = disk[d].pending /\ run[d].body # NoBody /\ run[d].token <= account.pw
        /\ run[d].token \in Nat
    BY <1>2, RunParts DEF PendingOK, KeysOK
  <1>4. run[d].body \in Bound
    BY <1>3, BoundParts DEF RotationInv
  <1>5. a = "ok" => run[d].settling /\ run[d].body.state.key \in committed
    <2>1. Own(run[d]) => ~Committed(run[d].body)
      BY OwnNotCommitted
    <2>. QED
      BY <1>2, <2>1 DEF Own, Committed, Runs
  <1>6. PICK p \in {"promote", "settle_again", "refetch", "refused"} :
          /\ run' = [run EXCEPT ![d] = [run[d] EXCEPT !.pc = p]]
          /\ UNCHANGED disk
          /\ p = "promote" => run[d].settling /\ a = "ok"
          /\ p = "settle_again" => run[d].settling /\ a # "ok"
          /\ p \in {"refetch", "refused"} => ~run[d].settling
    <2>1. CASE run[d].settling
      BY <2>1 DEF Answered, Goes
    <2>2. CASE ~run[d].settling
      BY <1>5, <2>2 DEF Answered, Goes
    <2>. QED
      BY <2>1, <2>2
  <1>7. R = [run[d] EXCEPT !.pc = p] /\ p \in Pcs
    BY <1>6, At DEF Pcs
  <1>8. /\ R \in Runs /\ R.pc = p /\ R.body = run[d].body /\ R.pw = run[d].pw
        /\ R.ops = run[d].ops /\ R.key = run[d].key /\ R.settling = run[d].settling
        /\ R.token = run[d].token
    BY <1>2, <1>7 DEF Runs
  <1>9. run' \in [Devices -> Runs] /\ \A x \in Devices \ {d} : run'[x] = run[x]
    BY <1>6, <1>7, <1>8, At
  <1>. HIDE DEF R
  <1>10. KeysOK(disk[d], R) /\ PendingOK(disk[d], R) /\ OwnOK(R)
    BY <1>2, <1>3, <1>5, <1>6, <1>8 DEF KeysOK, PendingOK, OwnOK, Own, Following
  <1>11. CASE p # "settle_again"
    BY <1>1, <1>6, <1>8, <1>9, <1>10, <1>11, At, RunStep DEF Giving, R
  <1>12. CASE p = "settle_again"
    <2>1. account.pw = 0 => Dead(run[d].body)
      <3>1. PICK b \in Bound : b = run[d].body
        BY <1>4
      <3>2. account.pw = 0 => Answer(b, account.pw) # "ok"
        BY <1>2, <1>3, <1>6, <1>12, <3>1
      <3>. QED
        BY <3>1, <3>2, RefusedIsDead
    <2>2. LateOK(d, disk[d], R)
      BY <1>2, <1>3, <2>1 DEF LateOK
    <2>3. DeviceOK(d, disk[d], R)
      BY <1>2, <1>8, <1>10, <2>2 DEF DeviceOK
    <2>4. DeviceOK(d, disk'[d], run'[d])
      BY <1>6, <2>3 DEF R
    <2>5. disk' \in [Devices -> Files] /\ stops' \in 0..MaxStops
      BY <1>1, <1>6, At
    <2>. QED
      BY <1>1, <1>6, <1>8, <1>9, <2>4, <2>5, QuietStep DEF R
  <1>. QED
    BY <1>11, <1>12


(* A commit that is applied and answered: an earlier run's is promoted, the  *)
(* run's own moves its file to the new key with the rows it re-wrapped.      *)
LEMMA AnsweredKeeps ==
    ASSUME RotationInv, NEW d \in Devices, run[d].pc = "sent",
           Applies(run[d].body, run[d].token), Answered(d, "ok"), UNCHANGED <<late, budget>>
    PROVE  RotationInv'
  <1>1. PICK b : b = run[d].body
    OBVIOUS
  <1>2. PICK tok : tok = run[d].token
    OBVIOUS
  <1>3. Applies(b, tok) /\ UNCHANGED <<late, made, stops, lates>>
    BY <1>1, <1>2 DEF budget
  <1>4. /\ run[d] \in Runs /\ disk[d] \in Files
        /\ KeysOK(disk[d], run[d]) /\ PendingOK(disk[d], run[d])
        /\ OwnOK(run[d]) /\ FileOK(d, disk[d]) /\ CacheOK(d, disk[d])
        /\ LateOK(d, disk[d], run[d]) /\ WayOK(d, disk[d])
        /\ (b = NoBody \/ b.by = d)
    BY <1>1, At
  <1>5. b = disk[d].pending /\ b # NoBody /\ b \in Bound /\ b.by = d /\ b \in Bodies
    BY <1>1, <1>4, BoundParts DEF PendingOK, RotationInv
  <1>6. /\ account' = b.state /\ account'.pw = account.pw /\ account'.seq = account.seq + 1
        /\ account'.key.e = account.key.e + 1
        /\ committed' = committed \cup {b.state.key} /\ committed \subseteq committed'
        /\ grants \subseteq grants' /\ vault.ops \subseteq b.rewrap
        /\ vault' = WriteVault(b) /\ b.state.key \in Keys
    BY <1>3, <1>5, Applied DEF Applies
  <1>7. vault'.ops = vault.ops
    BY <1>5, <1>6, AppliedVault
  <1>8. /\ account.seq \in Nat /\ account.key.e \in Nat
        /\ \A m \in late : m.body.base.seq \in Nat
    BY Parts, KeyParts DEF RotationInv
  <1>9. \A m \in late : Dead(m.body) => Dead(m.body)'
    BY <1>6, <1>7, <1>8 DEF Dead
  <1>10. ASSUME run' \in [Devices -> Runs], disk' \in [Devices -> Files],
                \A x \in Devices \ {d} : run'[x] = run[x] /\ disk'[x] = disk[x],
                disk'[d].pending \in {NoBody, disk[d].pending},
                run'[d].body \in {NoBody, run[d].body},
                DeviceOK(d, disk[d], run[d])'
         PROVE  RotationInv'
    <2>1. Bound' \subseteq Bound
      <3>1. \A x \in Devices : disk'[x].pending \in {NoBody, disk[x].pending}
                               /\ run'[x].body \in {NoBody, run[x].body}
        BY <1>10
      <3>. QED
        BY <1>3, <3>1 DEF Bound
    <2>2. /\ AccountInv' /\ VaultInv' /\ BodiesInv' /\ MakersInv' /\ GrantsInv'
          /\ account' \in States /\ committed' \subseteq Keys /\ vault' \in Vaults
          /\ grants' \subseteq [to : Members, from : Keys, key : Keys]
      BY <1>3, <1>5, <2>1, AppliedServer
    <2>3. TypeOK'
      BY <1>3, <1>10, <2>2 DEF RotationInv, TypeOK
    <2>4. LatesInv'
      BY <1>3 DEF RotationInv, LatesInv
    <2>5. ASSUME NEW x \in Devices \ {d}
          PROVE  DeviceOK(x, disk[x], run[x])'
      BY <1>3, <1>5, <1>10, AppliedElsewhere
    <2>6. DevicesInv'
      BY <1>10, <2>5 DEF DevicesInv
    <2>. QED
      BY <2>2, <2>3, <2>4, <2>6 DEF RotationInv
  <1>11. CASE run[d].settling
    <2>. DEFINE R == run'[d]
    <2>1. run' = [run EXCEPT ![d] = [run[d] EXCEPT !.pc = "promote"]] /\ UNCHANGED disk
      BY <1>11 DEF Answered, Goes
    <2>2. R = [run[d] EXCEPT !.pc = "promote"]
      BY <2>1, At
    <2>3. /\ R \in Runs /\ R.pc = "promote" /\ R.body = b /\ R.pw = run[d].pw
          /\ R.ops = run[d].ops /\ R.key = run[d].key /\ R.settling = run[d].settling
      BY <1>1, <1>4, <2>2 DEF Runs, Pcs
    <2>4. /\ run' \in [Devices -> Runs] /\ disk' \in [Devices -> Files]
          /\ \A x \in Devices \ {d} : run'[x] = run[x] /\ disk'[x] = disk[x]
      BY <2>1, <2>3, At
    <2>. HIDE DEF R
    <2>5. FileOK(d, disk[d])' /\ CacheOK(d, disk[d])'
      BY <1>3, <1>5, <2>1, AppliedDevice
    <2>6. KeysOK(disk[d], run[d])'
      BY <1>4, <1>6, <1>7, <2>1, <2>3 DEF KeysOK, Own, Following, R
    <2>7. PendingOK(disk[d], run[d])' /\ OwnOK(run[d])'
      <3>1. PendingOK(disk[d], run[d])'
        BY <1>4, <1>5, <1>6, <1>11, <2>1, <2>3 DEF PendingOK, Own, R
      <3>2. OwnOK(run[d])'
        BY <1>4, <1>5, <1>6, <1>11, <2>1, <2>3 DEF OwnOK, Own, R
      <3>. QED
        BY <3>1, <3>2
    <2>8. LateOK(d, disk[d], run[d])'
      BY <1>3, <1>4, <1>6, <1>9, <2>1, <2>3 DEF LateOK, R
    <2>9. WayOK(d, disk[d])'
      BY <1>3, <1>4, <1>5, <1>6, <2>1 DEF WayOK
    <2>10. DeviceOK(d, disk[d], run[d])'
      BY <1>5, <2>3, <2>5, <2>6, <2>7, <2>8, <2>9 DEF DeviceOK, R
    <2>. QED
      BY <1>1, <1>10, <2>1, <2>3, <2>4, <2>10 DEF R
  <1>12. CASE ~run[d].settling
    <2>. DEFINE D == disk'[d]
                R == run'[d]
    <2>1. /\ disk' = [disk EXCEPT ![d] = [@ EXCEPT !.key = b.state.key, !.pending = NoBody,
                                                   !.wraps = b.rewrap]]
          /\ run' = [run EXCEPT ![d] = [Idle EXCEPT !.pc = "open", !.key = b.state.key,
                                                    !.pw = run[d].pw, !.ops = run[d].ops]]
      BY <1>1, <1>12 DEF Answered, Finishes, Goes
    <2>2. /\ D = [disk[d] EXCEPT !.key = b.state.key, !.pending = NoBody, !.wraps = b.rewrap]
          /\ R = [Idle EXCEPT !.pc = "open", !.key = b.state.key, !.pw = run[d].pw,
                              !.ops = run[d].ops]
      BY <2>1, At
    <2>3. /\ run[d].pw \in 0..MaxChanges /\ run[d].ops \in SUBSET Devices
          /\ b.rewrap \in SUBSET Devices
      BY <1>4, <1>5, RunParts, KeyParts
    <2>4. /\ D \in Files /\ D.key = b.state.key /\ D.pw = disk[d].pw /\ D.pending = NoBody
          /\ D.wraps = b.rewrap /\ D.ops = disk[d].ops /\ D.own = disk[d].own
      BY <1>4, <1>6, <2>2, <2>3, NoneTyped DEF Files
    <2>5. /\ R \in Runs /\ R.pc = "open" /\ R.key = b.state.key /\ R.pw = run[d].pw
          /\ R.ops = run[d].ops /\ R.body = NoBody /\ ~R.settling
      BY <1>6, <2>2, <2>3, NoneTyped, ZenonT(60) DEF Runs, Pcs, Idle
    <2>6. /\ run' \in [Devices -> Runs] /\ disk' \in [Devices -> Files]
          /\ \A x \in Devices \ {d} : run'[x] = run[x] /\ disk'[x] = disk[x]
      BY <2>1, <2>4, <2>5, At
    <2>. HIDE DEF D, R
    <2>7. Own(run[d])
      BY <1>12 DEF Own
    <2>8. \A m \in late : m.body # disk[d].pending
      BY <1>1, <1>4, <1>5, <2>7 DEF OwnOK
    <2>9. FileOK(d, disk[d])'
      BY <1>4, <1>6, <1>7, <2>4 DEF FileOK, D
    <2>10. CacheOK(d, disk[d])'
      <3>1. \A o \in disk[d].ops : o \in vault.ops \/ (o = d /\ ~disk[d].own.acked)
        BY <1>4 DEF FileOK
      <3>. QED
        BY <1>6, <2>4, <3>1 DEF CacheOK, D
    <2>11. KeysOK(disk[d], run[d])'
      BY <1>4, <1>6, <2>4, <2>5 DEF KeysOK, Own, Following, D, R
    <2>12. PendingOK(disk[d], run[d])' /\ OwnOK(run[d])'
      BY <2>4, <2>5 DEF PendingOK, OwnOK, Own, D, R
    <2>13. LateOK(d, disk[d], run[d])'
      BY <1>3, <1>4, <1>6, <1>9, <2>8 DEF LateOK
    <2>14. WayOK(d, disk[d])'
      <3>1. \A k \in committed : k.e \in Nat /\ k.e <= account.key.e
        BY KeysOrdered DEF RotationInv
      <3>2. \A k \in committed' : ~(k.e > b.state.key.e)
        BY <1>6, <1>8, <3>1
      <3>. QED
        BY <2>4, <3>2 DEF WayOK, D
    <2>15. DeviceOK(d, disk[d], run[d])'
      BY <2>5, <2>9, <2>10, <2>11, <2>12, <2>13, <2>14 DEF DeviceOK, R
    <2>. QED
      BY <1>10, <2>4, <2>5, <2>6, <2>15 DEF D, R
  <1>. QED
    BY <1>11, <1>12

LEMMA CommitAnsweredKeeps ==
    ASSUME RotationInv, NEW d \in Devices, CommitAnswered(d)
    PROVE  RotationInv'
  <1>1. PICK a : a = Answer(run[d].body, run[d].token)
    OBVIOUS
  <1>2. /\ run[d].pc = "sent" /\ Commit(run[d].body, run[d].token)
        /\ Answered(d, a) /\ UNCHANGED <<late, budget>>
    BY <1>1 DEF CommitAnswered
  <1>3. CASE a = "ok" /\ run[d].body.state # account
    BY <1>1, <1>2, <1>3, AnsweredKeeps DEF Applies
  <1>4. CASE a # "ok" \/ run[d].body.state = account
    <2>1. UNCHANGED server
      BY <1>1, <1>2, <1>4 DEF Commit
    <2>. QED
      BY <1>1, <1>2, <1>4, <2>1, NotAppliedKeeps
  <1>. QED
    BY <1>3, <1>4

----------------------------------------------------------------------------
(* Every step.                                                               *)

LEMMA RotationInit == Init => RotationInv
  <1>. SUFFICES ASSUME Init
                PROVE  RotationInv
    OBVIOUS
  <1>. USE RotationConstants, NoneTyped DEF Init
  <1>1. FirstKey.e = 1 /\ FirstKey.n = 0 /\ FirstKey # NoKey
    BY DEF FirstKey, NoKey
  <1>2. /\ account.seq = 1 /\ account.key = FirstKey /\ account.pw = 0 /\ account.set = Devices
        /\ account \in States
    BY DEF FirstState, States, Members
  <1>3. /\ vault.ops = {} /\ vault \in Vaults
        /\ \A o \in Devices : vault.wraps[o] = NoKey
    BY DEF Vaults
  <1>4. \A d \in Devices :
          /\ disk[d].key = FirstKey /\ disk[d].pw = 0 /\ disk[d].pending = NoBody
          /\ disk[d].ops = {} /\ disk[d].own.key = NoKey /\ ~disk[d].own.acked
    OBVIOUS
  <1>5. disk \in [Devices -> Files]
    BY DEF Files
  <1>6. \A d \in Devices : run[d] = Idle
    OBVIOUS
  <1>7. TypeOK
    <2>1. made \in 0..MaxKeys /\ stops \in 0..MaxStops /\ lates \in 0..MaxLate
      OBVIOUS
    <2>2. committed \subseteq Keys /\ run \in [Devices -> Runs]
      OBVIOUS
    <2>. QED
      BY <1>2, <1>3, <1>5, <2>1, <2>2 DEF TypeOK
  <1>8. AccountInv
    BY <1>1, <1>2 DEF AccountInv
  <1>9. VaultInv
    BY <1>3 DEF VaultInv, WrapSetCurrent
  <1>10. Bound = {}
    BY <1>4, <1>6, NoneIs DEF Bound
  <1>11. BodiesInv /\ MakersInv /\ GrantsInv /\ LatesInv
    BY <1>10 DEF BodiesInv, MakersInv, GrantsInv, LatesInv
  <1>12. ASSUME NEW d \in Devices
         PROVE  DeviceOK(d, disk[d], run[d])
    <2>1. FileOK(d, disk[d]) /\ CacheOK(d, disk[d])
      BY <1>1, <1>2, <1>3, <1>4 DEF FileOK, CacheOK
    <2>2. KeysOK(disk[d], run[d]) /\ PendingOK(disk[d], run[d]) /\ OwnOK(run[d])
      BY <1>2, <1>6, NoneIs DEF KeysOK, PendingOK, OwnOK, Own, Following
    <2>3. LateOK(d, disk[d], run[d]) /\ WayOK(d, disk[d])
      BY <1>1, <1>4 DEF LateOK, WayOK
    <2>. QED
      BY <1>6, <2>1, <2>2, <2>3, NoneIs DEF DeviceOK
  <1>. QED
    BY <1>7, <1>8, <1>9, <1>11, <1>12 DEF RotationInv, DevicesInv

LEMMA StutterKeeps ==
    ASSUME RotationInv, UNCHANGED vars
    PROVE  RotationInv'
  <1>. USE DEF vars
  <1>1. Bound' = Bound
    BY DEF Bound
  <1>2. (TypeOK /\ AccountInv /\ VaultInv)'
    BY DEF RotationInv, TypeOK, AccountInv, VaultInv, WrapSetCurrent
  <1>3. (BodiesInv /\ MakersInv /\ GrantsInv /\ LatesInv)'
    BY <1>1 DEF RotationInv, BodiesInv, BodyOK, MakersInv, GrantsInv, LatesInv
  <1>4. DevicesInv'
    BY DEF RotationInv, DevicesInv, DeviceOK, FileOK, CacheOK, KeysOK, PendingOK, OwnOK,
           LateOK, WayOK, Dead
  <1>. QED
    BY <1>2, <1>3, <1>4 DEF RotationInv

LEMMA NextKeeps == RotationInv /\ [Next]_vars => RotationInv'
  <1>. SUFFICES ASSUME RotationInv, [Next]_vars
                PROVE  RotationInv'
    OBVIOUS
  <1>1. ASSUME NEW d \in Devices, Works(d)
        PROVE  RotationInv'
    <2>1. CASE Start(d) \/ Refresh(d) \/ OpenGrants(d) \/ CatchUp(d) \/ FollowPassword(d)
      BY <2>1, StartKeeps, RefreshKeeps, OpenGrantsKeeps, CatchUpKeeps, FollowPasswordKeeps
    <2>2. CASE Adopt(d) \/ AckGrants(d) \/ Fetch(d) \/ Upload(d) \/ Reissue(d)
      BY <2>2, AdoptKeeps, AckGrantsKeeps, FetchKeeps, UploadKeeps, ReissueKeeps
    <2>3. CASE CommitAnswered(d) \/ Refetch(d) \/ Rebuild(d) \/ Refused(d)
      BY <2>3, CommitAnsweredKeeps, RefetchKeeps, RebuildKeeps, RefusedKeeps
    <2>4. CASE Settle(d) \/ Probe(d) \/ Reauth(d) \/ Promote(d) \/ End(d)
      BY <2>4, SettleKeeps, ProbeKeeps, ReauthenticatedKeeps, PromoteKeeps, EndKeeps
    <2>. QED
      BY <1>1, <2>1, <2>2, <2>3, <2>4 DEF Works
  <1>2. ASSUME NEW d \in Devices, Happens(d)
        PROVE  RotationInv'
    BY <1>2, WriteKeeps, BeginRotationKeeps, ChangePasswordKeeps, SessionExpiredKeeps, StopKeeps
       DEF Happens
  <1>3. CASE \E m \in late : Arrives(m)
    BY <1>3, ArrivesKeeps
  <1>4. CASE Enrol
    BY <1>4, EnrolKeeps
  <1>5. CASE UNCHANGED vars
    BY <1>5, StutterKeeps
  <1>. QED
    BY <1>1, <1>2, <1>3, <1>4, <1>5 DEF Next

(* The invariant holds in every reachable state.                             *)
LEMMA RotationInvariant == Spec => []RotationInv
  BY RotationInit, NextKeeps, PTL DEF Spec

----------------------------------------------------------------------------
(* A chain of grants opens.                                                  *)

(* A set of natural numbers has a least element.                             *)
LEMMA LeastElement ==
    ASSUME NEW T \in SUBSET Nat, T # {}
    PROVE  \E x \in T : \A y \in T : x <= y
  <1>. DEFINE R == OpToRel(<, Nat)
  <1>1. IsWellFoundedOn(R, Nat)
    BY NatLessThanWellFounded
  <1>2. \A x, y \in Nat : y < x => <<y, x>> \in R
    BY DEF OpToRel
  <1>. HIDE DEF R
  <1>3. PICK x \in T : \A y \in T : ~(<<y, x>> \in R)
    BY <1>1, WFMin
  <1>4. \A y \in T : ~(y < x) /\ x \in Nat /\ y \in Nat
    BY <1>2, <1>3
  <1>. QED
    BY <1>4

(* With a grant for every epoch after that of key k, the chain that          *)
(* apply_device_grants follows from k ends at the account's key.             *)
LEMMA ChainOpens ==
    ASSUME TypeOK, AccountInv, GrantsInv, NEW d \in Devices, NEW k \in committed,
           \A l \in committed : l.e > k.e => \E g \in grants : g.to = d /\ g.key = l
    PROVE  KeyAfter(d, k, account.key.e) = account.key
  <1>. DEFINE E == k.e..account.key.e
              Of(e) == CHOOSE l \in committed : l.e = e
              Found(e, f) == {g \in grants : g.to = d /\ g.key.e = e /\ g.from = f}
              Step(e, f) == IF e = k.e THEN k
                            ELSE IF Found(e, f[e - 1]) = {} THEN NoKey
                                 ELSE (CHOOSE g \in Found(e, f[e - 1]) : TRUE).key
              at == CHOOSE f : f = [e \in E |-> Step(e, f)]
              keys == [e \in E |-> Of(e)]
  <1>1. /\ k.e \in Nat /\ k.e >= 1 /\ account.key.e \in Nat /\ k.e <= account.key.e
        /\ account.key \in committed
    BY KeysOrdered DEF AccountInv
  <1>2. \A l \in committed : l.e \in Nat /\ Of(l.e) = l
    BY KeysOrdered DEF AccountInv
  <1>3. \A e \in E : Of(e) \in committed /\ Of(e).e = e
    BY <1>1 DEF AccountInv
  <1>4. ASSUME NEW e \in E, e # k.e
        PROVE  /\ Found(e, Of(e - 1)) # {}
               /\ \A g \in Found(e, Of(e - 1)) : g.key = Of(e)
    <2>1. e \in Nat /\ e > k.e /\ e - 1 \in E
      BY <1>1, <1>4
    <2>2. Of(e) \in committed /\ Of(e).e = e
      BY <1>3
    <2>3. PICK g \in grants : g.to = d /\ g.key = Of(e)
      BY <2>1, <2>2
    <2>4. g.from \in committed /\ g.from.e \in Nat /\ g.key.e = g.from.e + 1
      BY <2>3, <1>2 DEF GrantsInv
    <2>5. g.from.e = e - 1
      BY <2>1, <2>2, <2>3, <2>4
    <2>6. g.from = Of(e - 1)
      BY <2>4, <2>5, <1>2
    <2>7. \A h \in Found(e, Of(e - 1)) : h.key = Of(e)
      BY <1>2 DEF GrantsInv
    <2>. QED
      BY <2>2, <2>3, <2>6, <2>7
  <1>5. \A e \in E : e # k.e => e - 1 \in E
    BY <1>1
  <1>6. KeyAfter(d, k, account.key.e) = at[account.key.e]
    BY DEF KeyAfter
  <1>7. Of(k.e) = k
    BY <1>2
  <1>. HIDE DEF Of, Found, E
  <1>8. keys = [e \in E |-> Step(e, keys)]
    <2>1. ASSUME NEW e \in E
          PROVE  Of(e) = Step(e, keys)
      BY <1>4, <1>5, <1>7
    <2>. QED
      BY <2>1
  <1>9. at = [e \in E |-> Step(e, at)]
    BY <1>8
  <1>. HIDE DEF at, keys
  <1>. DEFINE Off == {e \in E : at[e] # Of(e)}
  <1>10. Off = {}
    <2>. SUFFICES ASSUME Off # {}
                  PROVE  FALSE
      OBVIOUS
    <2>1. Off \in SUBSET Nat /\ E \subseteq Nat
      BY <1>1 DEF E
    <2>2. PICK e \in Off : \A x \in Off : e <= x
      BY <2>1, LeastElement
    <2>3. e \in E /\ e \in Nat /\ at[e] = Step(e, at)
      BY <1>9, <2>1, <2>2
    <2>4. e # k.e
      BY <1>7, <2>2, <2>3
    <2>5. e - 1 \in E /\ ~(e <= e - 1)
      BY <1>5, <2>3, <2>4
    <2>6. at[e - 1] = Of(e - 1)
      BY <2>2, <2>5
    <2>7. Step(e, at) = Of(e)
      BY <1>4, <2>3, <2>4, <2>6
    <2>. QED
      BY <2>2, <2>3, <2>7
  <1>11. account.key.e \in E /\ Of(account.key.e) = account.key
    BY <1>1, <1>2 DEF E
  <1>. QED
    BY <1>6, <1>10, <1>11

(* The way of a device, followed: from the key of its file, or from that of  *)
(* its pending rotation when the server committed it.                        *)
LEMMA WayReaches ==
    ASSUME RotationInv, lates = 0 \/ account.pw = 0, NEW d \in Devices
    PROVE  Reaches(d)
  <1>1. /\ TypeOK /\ AccountInv /\ GrantsInv /\ WayOK(d, disk[d])
        /\ disk[d].key \in committed
    BY DEF RotationInv, DevicesInv, DeviceOK, FileOK
  <1>2. \A k \in committed : k.e \in Nat /\ k # NoKey /\ k.e <= account.key.e
    BY <1>1, KeysOrdered
  <1>3. PICK p : p = disk[d].pending.state.key
    OBVIOUS
  <1>4. \A k \in committed : k.e > disk[d].key.e =>
            k = p \/ \E g \in grants : g.to = d /\ g.key = k
    BY <1>1, <1>3 DEF WayOK
  <1>5. CASE p \in committed /\ p.e > disk[d].key.e
    <2>1. \A k \in committed : k.e > p.e => \E g \in grants : g.to = d /\ g.key = k
      <3>1. \A k \in committed : k.e > p.e => k.e > disk[d].key.e /\ k # p
        BY <1>1, <1>2, <1>5
      <3>. QED
        BY <1>4, <3>1
    <2>2. KeyAfter(d, p, account.key.e) = account.key
      BY <1>1, <1>5, <2>1, ChainOpens
    <2>. QED
      BY <1>2, <1>3, <1>5, <2>2 DEF Reaches
  <1>6. CASE ~(p \in committed /\ p.e > disk[d].key.e)
    <2>1. \A k \in committed : k.e > disk[d].key.e =>
              \E g \in grants : g.to = d /\ g.key = k
      BY <1>4, <1>6
    <2>2. KeyAfter(d, disk[d].key, account.key.e) = account.key
      BY <1>1, <2>1, ChainOpens
    <2>. QED
      BY <1>1, <1>2, <2>2 DEF Reaches
  <1>. QED
    BY <1>5, <1>6

----------------------------------------------------------------------------
(* The theorems.                                                             *)

(* Whatever uploads, rotations, rebuilds and late commits race at the server,*)
(* every stored op has a wrap-set row under the account's current vault key, *)
(* and no record carries a wrap under another key (check_wraps, check_cutoff *)
(* and write_vault in one transaction with the account state).               *)
THEOREM WrapSetStaysCurrent == Spec => []WrapSetCurrent
  <1>1. RotationInv => WrapSetCurrent
    BY DEF RotationInv, VaultInv
  <1>. QED
    BY <1>1, RotationInvariant, PTL

(* A device whose file holds the account's current key opens every op in it, *)
(* its own unsent one aside, whatever way the key came there: by grants, by  *)
(* login, by its own rotation or by one settled later (adopt,                *)
(* finish_rotation, the wrap rows of a Fetch).                               *)
THEOREM CacheStaysOpen == Spec => []CacheOpensAtCurrent
  <1>1. ASSUME RotationInv
        PROVE  CacheOpensAtCurrent
    <2>. SUFFICES ASSUME NEW d \in Devices, disk[d].key = account.key, NEW o \in disk[d].ops
                  PROVE  Opens(d, o) \/ (o = d /\ Queued(d))
      BY DEF CacheOpensAtCurrent
    <2>1. CacheOK(d, disk[d]) /\ FileOK(d, disk[d])
      BY <1>1 DEF RotationInv, DevicesInv, DeviceOK
    <2>2. o \in disk[d].wraps
            \/ (o = d /\ (disk[d].own.key = disk[d].key \/ ~disk[d].own.acked))
      BY <2>1 DEF CacheOK
    <2>3. o = d => disk[d].own.key # NoKey
      BY <2>1 DEF FileOK
    <2>. QED
      BY <2>2, <2>3 DEF Opens, Queued
  <1>. QED
    BY <1>1, RotationInvariant, PTL

(* Every device holds only keys of states the server committed, never that   *)
(* of a rotation that lost a race (pending_applied, commit_landed,           *)
(* on_state_conflict); and as long as no commit outlived its run, or the     *)
(* password stayed the same, it can compute the account's key from its file  *)
(* and the grants that wait for it (persist_rotation before the send,        *)
(* settle_pending, the acknowledgement of grants after the adoption).        *)
THEOREM KeysStaySafe == Spec => []KeysSafe
  <1>1. ASSUME RotationInv
        PROVE  KeysSafe
    <2>1. TypeOK
      BY <1>1 DEF RotationInv
    <2>2. KeysCommitted
      BY <1>1 DEF KeysCommitted, RotationInv, DevicesInv, DeviceOK, FileOK
    <2>3. KeyKept
      BY <1>1, WayReaches DEF KeyKept
    <2>. QED
      BY <2>1, <2>2, <2>3 DEF KeysSafe
  <1>. QED
    BY <1>1, RotationInvariant, PTL

=============================================================================
