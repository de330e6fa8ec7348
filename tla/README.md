# A TLA+ model of rizzy-vault

rizzy-vault is an end-to-end encrypted password manager. Devices write signed ops and snapshots
of items, a server that cannot read them stores and serves them, and a worker deletes what
snapshots have made redundant. This directory models the parts of the program that can go wrong
without a test noticing: the record store and its compaction, the client's causal log, each
device's own chain across crashes and restores of the server, the merge of items, key rotation,
and the server's account flows.

`PROJECT.json` lists every component, run, mutant, finding, hazard and theorem, and maps each
definition to the source lines it stands for.

## 1. Inventory

| Component | State | Operations | Talks to |
|---|---|---|---|
| Record store, `rizzy-domain-vault` (`store`, `upload`, `intake`, `authors`, `repo`) | ops (header, body or not), retained snapshots with clamp and store sequence, compaction queue, vault epoch | upload, healing request, fetch | account lock, device directory of the auth domain, bus |
| Compaction, `rizzy-sync/src/compaction.rs`, `rizzy-domain-vault/src/compact.rs` | none of its own (reads and deletes rows) | R1 (bodies), R3 (snapshots), covers of a page, checks of a snapshot and of a healing request | record store |
| Worker, `rizzy-server/src/worker.rs`, `rizzy-storage/src/leader_lock.rs` | leader lock, queue | run, batch, defer, step down | record store, auth maintenance |
| Causal log, `rizzy-sync/src/causal.rs` | per chain: links, head, frontier; per item: settled vector; cut-offs | plan covers, commit, deliver, learn revocation | client sync |
| Client fetch loop, `rizzy-client/src/sync.rs` | item keys, waiting and opened bodies, merges | verify page, retry, absorb, deliver, prune | causal log, item merge, cache file |
| Own chain, `causal/own.rs`, `sync.rs`, `sync/heal.rs`, `store/floors.rs` | own ops, acknowledged seq, generation of unanswered sends, rows on disk | write, upload, re-issue, re-publish, load | server, cache file |
| Keys and rotation, `keys.rs`, `rotation.rs` | vault epoch, self grants, item-key wraps | rotate, heal grants, fill wraps | auth changes |
| Item merge, `rizzy-sync/src/merge*` | field states, version vector | apply op, absorb snapshot | causal log |
| Hybrid logical clock, `hlc.rs` | one clock value | tick, receive | write, deliver |
| Auth domain, `rizzy-domain-auth` | accounts, sessions, login states, devices, recovery, TOTP, rate limits | login, enrol, change, revoke, recover, heal | storage, vault rotation |
| Storage, `rizzy-storage` | pools, writer, instance and account locks, migrations, restore generation | transactions, dump, restore | everything on the server |
| Bus, HTTP, CLI, wasm, apps, import, match, core, proto | - | - | - |

What is hard here:

* **Concurrency.** Uploads, healing requests, revocations and workers of several processes meet at
  the account lock; the worker may lose its leader lock in the middle of a batch.
* **Partial failure.** An upload keeps the records before the first refused one, a healing request
  keeps all or nothing, and a process can die between any two statements.
* **Restores.** The server can go back in time. Devices learn it from a restore generation and have
  to decide, for each op whose answer never came, whether it was ever stored.
* **Untrusted pages.** The client accepts any order, repetition and omission of records, and bodies
  it cannot open yet or ever.
* **Deletion.** A body is deleted on the word of snapshots; a mistake loses data for good.
* **Keys.** A rotation is one commit on the server and a sequence of requests and file writes on
  each device; the process may stop between any two, and the only copy of a key may be in a file
  that the next run decides to drop.
* **Single use.** Login states, tickets, request counters, one-time codes and recoveries are checked
  by one request and used by another, or by two at once.

The properties that make each part correct are the ones of section 4; the `hazards` of
`PROJECT.json` give the line at which each of them bites.

## 2. Modules

| Module | Models | State and steps |
|---|---|---|
| `VersionVector` | `vv.rs` | covers, join, meet and order on functions from devices to sequence numbers |
| `Compaction` | rules of `compaction.rs` | clamp, covers, R1, the need for a snapshot, the checks of snapshots and healing requests |
| `CompactionPlan` | `plan_worker`, `select_covers` | R3's one pass and the cover selection as folds, against the restarting loop and the covers a page must carry; a worker run and a page as steps |
| `CompactionWorker` | `worker.rs`, `leader_lock.rs` | queue order, leader lock, batches; damaged items, passing errors, lost locks, restarts |
| `VaultStore` | upload, heal, compaction, revocation | `db` committed, `w` the open transaction, `tx` the handler that holds the lock; one step per record or loop iteration; `Abort` anywhere |
| `AppendOnlyVault` | what `VaultStore` promises | a set of readable ops that grows at the ends of its chains, and the standing of each device; `ImplementsVault` in `VaultStore` is the mapping |
| `VaultSync` | causal log and fetch loop | phases of `apply_fetch` and `settle`, one step per record, cover or delivery, any page of signed headers |
| `HonestSync` | the same against `fetch.rs` | composes `VaultSync` with a server: pages in chain order from the cursor, late item keys, a worker that deletes bodies between pages |
| `OwnChain` | `causal/own.rs`, `heal.rs`, `floors.rs` | `mem` and `file` of the device, `srv`, one call awaited, requests given up that may arrive late, backup, restore, rotation, another device that heals the chain |
| `Hlc` | `hlc.rs` | tick and receive on the packed value, the skew guard, both ends of the range |
| `ItemMerge` | `merge.rs`, `merge/join.rs`, `merge/evidence.rs`, `items.rs` | composes `Hlc`, `VersionVector` and the merge: per device an item state, kept bodies and snapshots, a clock; write, trash, restore, purge, snapshot, upload, a page of records in any causal order, re-issue |
| `Rotation` | `rotation.rs` (client and both domains), `rows.rs`, `device.rs` of the CLI | the server's state, wraps and grants; each device's file and running program, one request per step; commits that outlive their sender |
| `AccountService` | `rizzy-domain-auth` | login, device authentication, sessions, suspension, recovery, account changes, restore and healing; one action per transaction |
| `RequestWindow` | `rules.rs`, `device.rs`, `session.rs` | the bitmap of request counters, read before and again under the account lock |
| `Totp` | `totp.rs` of the domain and of `rizzy-core` | pending and confirmed enrolments, last accepted step |
| `RateLimit` | `ratelimit.rs` | buckets of a name and of a source, backoff, clearing, purge |
| `CompactionProofs`, `VaultStoreProofs` | - | lemmas about covers; the theorems about the record store and its refinement |
| `CompactionPlanProofs` | - | the theorems about the computed plan, the covers of a page and the workers' queue |
| `VaultSyncProofs`, `OwnChainProofs` | - | the theorems about the log of the other chains and about the own chain |
| `ItemMergeProofs` | - | the theorems about purged items |
| `RotationProofs` | - | the theorems about keys, wraps and caches through rotations |
| `AccountProofs` | - | the theorems about the account, its request windows, second factor and rate limits |

An `MC` module gives the constants of its component their values. `MCCompaction` and
`MCAccountService` hold several small machines: a variable `mode` is chosen in the initial state
and only the machine of that mode moves, so the machines are explored side by side and not
multiplied.

Definitions keep the names of the functions they model. Operators whose comment starts with
*Mutant* are wrong on purpose: each is a plausible bug, and replacing the definition after it by the
mutant makes the property named in `PROJECT.json` fail. A property that is a conjunction of named parts
(`LogSound`, `RestartSafe`, `KeysSafe`, `RowsSound`, ...) is one statement about one structure; its parts
are defined and explained just before it.

Abstractions, all of data: an op is its header, and its body is present or absent; signatures and
envelopes are what verifies or opens and what does not; a re-issued op differs only in its epoch, as
in the code; a value in `ItemMerge` is the op that wrote it; a key in `Rotation` is the account key and
the vault key that one rotation makes together; a password, a recovery code or an account key in
`AccountService` is the epoch it belongs to; time is an order or a count of ticks.

Limits of the models:

* `VaultStore` has one vault and no wraps; wraps are in `Rotation`, those of healing requests in none.
* `VaultSync` assumes one signed record per dot (`FreeOfForks`). The code reports forks; its
  bookkeeping for them is not modelled. It takes the item merge as its version vector and the
  headers it was told of; `ItemMerge` has the values.
* `OwnChain` follows `rizzy-cli`: rows are committed with the change of memory or the process ends.
  Own snapshots are left out, and the other devices are one peer that re-publishes what it fetched.
* `CompactionWorker` is the PostgreSQL setting. On SQLite the lock cannot be lost, which is the
  same model without `lose_lock` and `check_fails`. The clock is assumed not to run backwards.
* `ItemMerge`: wall clocks stand still, so that the counters do the work; a page of records brings
  all of its bodies or none; the item exists, and the devices of `Holders` have it; a page is merged
  to its end before the device does anything else (`merge_due`); `ClockSeesItem` speaks of live items,
  because a tombstone's snapshot does not carry the clocks of the lifecycle writes it discards.
* `Rotation`: a device writes at most one op, on an item of its own; the option that revokes a device
  in the same commit and rotations of the identity are left out. The end of a session also ends
  the device's earlier sessions. The server is never restored: the repair of grants and wraps after a
  restore (`heal_self_grant` of `keys.rs`, and the wraps that `heal_in` of `upload.rs` fills in) is in no
  module. `OwnChain` has what the repair does to the vault's epoch, to any epoch that a device may have
  seen, and takes a refused repair as one that does not happen.
* `AccountService`: sign-up is the initial state, and the row of a retired account is left out.

## 3. Plan

Done, in this order: compaction rules, `VaultStore` and its proofs, `VaultSync`, `HonestSync`,
`OwnChain`, `CompactionWorker`; then the abstract vault and its refinement, `Rotation`, `Hlc`,
`ItemMerge`, the account flows; then the proofs about request windows, second factor and rate limits,
about the account, the own chain, rotations, the causal log and purged items; then those about the
computed plan, the workers' queue, what healing carries and how many attempts a name admits.

Left, in order of worth:

1. More proofs about `ItemMerge`, with a bound on the wall clocks as an assumption: that a clock is above
   all it has seen, then that the join of two live states that stand for op sets is the state of
   their union.
2. A restore in `Rotation`, with the repair of grants and wraps that follows it.
3. Forks in `VaultSync`: two versions at one dot, the report, and bodies held by dot.
4. The cache of the browser extension, which stores a changeset row by row (section 6).
5. The instance, writer and migration locks of `rizzy-storage`.
6. A composition of `VaultStore` with several `OwnChain` devices.

## 4. Runs

Passing runs:

| Run | Instance | What it shows |
|---|---|---|
| `vault_store` | 2 devices, 1 item, 4 snapshots, 1 op each, requests of 2 records | bodies go only under covers by two authors and keep them; every header without body stays covered; the queue loses no work; an aborted handler leaves nothing behind; the store implements the append-only vault |
| `vault_store_revocation` | 2 devices, 2 ops each, 1 snapshot, 1 rotation, one device can be suspended, revoked or expire | clamps stay below the heads, nothing is stored past a cut-off, a suspended head does not move |
| `compaction` | rules: every item of up to 4 snapshots by 3 authors and 2 ops; queue: 2 workers, 2 damaged items and a good one, batches of 2, 1 fault | the single R3 pass equals the restarting loop, the empty plan is what the proofs say, a page of headers carries its covers; the good item is compacted in the end and every run ends |
| `vault_sync` | 2 chains over 2 items, 4 ops, one damaged body, 2 snapshots, one revocation | the log is sound (chains are prefixes of the history, indexes are exact), nothing deliverable is left behind, nothing is left out of the reports and requests, what is delivered was applied, no delivery past a cut-off |
| `honest_sync` | 5 ops, 3 snapshots, pages of 2 records | the device settles everything in the end |
| `own_chain` | 2 ops, 2 rotations, generations up to 3, 1 late request, 2 faults | a load forgets nothing and always succeeds; no second version of a stored op and no alarm of the device against itself; what may have been served is carried by healing; a re-issue is admitted by the floors (all but the first under the conditions named below) |
| `item_merge` | 2 devices, one of them new to the item; 1 field and the lifecycle, history of 1, a snapshot due after 2 ops, 3 ops, 6 records, 2 snapshots | the state is the one the covered ops stand for, in whatever order they came; what a client keeps rebuilds it; honest records are accepted; a clock is above all it has seen; all devices agree on the purge key, and a purge stands |
| `rotation` | 2 devices and a newcomer, one writer, 3 keys, one password change, one stop, one late commit, one rebuild | no losing key is promoted, and each device keeps a way to the account's key unless a commit outlived its run and the password changed; every stored item has its wrap under the current key; a cache with the current key opens all but an unsent edit; every device that is not stranded and whose file loads follows in the end |
| `account_service` | account: 2 devices, 2 sessions, 1 row of each kind, 3 account states, 1 restore; requests: 4 with counters up to 3, width 2; codes: 3 secrets, 3 steps; attempts: 2 sources, limit 2, window 3, backoff 1 to 2, time up to 6 | rows follow the account state until a healing lags behind it, a session outlives neither its password nor its device, no session of a recovery lives while a recovery of its code waits (an epoch names one code until a healing), between restores no revocation is forgotten and the account state never goes back, no counter is accepted twice or wrongly refused, no step of a secret is accepted twice, a name admits a bounded number of attempts per window and is never locked out |

Why the bounds suffice for the cases meant:

* Four snapshots are two newest, one that R3 may drop and one below it, so drops interact; two
  authors are the number R1 counts to. `CompactionPlan` adds the third author.
* Two ops per chain give a hole, a predecessor and a successor; with two chains over two items a
  context crosses chains and a cover settles one item and not the other.
* Two restores and two rotations are needed for an op to be re-issued, resent and refused again
  under a third generation. Where the code is known to fall short (see below) the properties carry
  the condition under which they hold: `OneHistory` that no request was processed after its caller
  gave up, `HealingCarriesIt` that there was no second rotation, `ReissueIsAdmitted` that the server
  was not restored. `RestartSafe` has no condition.
* A batch of two with two damaged items can be filled by them alone; two batches make the second
  one possible, and one fault of each kind at each place is enough to leave two workers in a batch.
* Three ops on one field are two concurrent values and a third that supersedes either or both; with a
  history of one the third also prunes. Two snapshots are one that cuts and one that joins it.
  One more snapshot may lack a value its author should have had (`MaxLosses`), which the evidence
  join has to make good; it counts as two records more, to keep the run small. A counter of two values
  runs over into the milliseconds all the time, and clocks reach exactly the largest value and the last
  millisecond that the skew guard admits. Past these edges the code leaves a clock behind by design.
* Two rotations that race and one that follows are three keys; one stop and one late commit are what
  each settled-by-the-next-run case takes.
* Counters up to 3 with a width of 2 have one counter inside, one at the edge of and one outside
  the window; requests of equal counters run at the same time. Steps up to 3 include the two
  neighbours of the clock's. Time 6 passes window, backoff and purge.

Deadlock is checked except in `item_merge` and `account_service`, where the bounds on records and
rows can be used up and nothing is left to do.

Fairness. `HonestSync`: weak fairness of the fetch cycle (the client polls), strong fairness of a
wrap's arrival and of the worker's deletion, both of which are only possible between pages, so weak
fairness would let them be missed forever. `CompactionWorker`: weak fairness of each worker's steps
(its loop has an interval timer, so bus events are not needed) and of the clock; no fairness of uploads
or faults, and finitely many faults. `Rotation`: weak fairness of each device's program, which says that
its user keeps running it, and of the arrival of requests that are on their way; none of stops,
rotations or edits. The other modules state safety only.

Violations. Each of these runs checks one statement of the repository that the code does not keep;
the finding in `PROJECT.json` quotes it and says what the trace shows.

| Run | Statement | What happens |
|---|---|---|
| `honest_cut_reported` | no check reports on honest records (`evidence.rs`) | a page that ends inside what a faithful snapshot covers makes the device dispute the snapshot, because history was pruned on account of ops above the cut |
| `device_stranded` | a pending record is dropped only on a definite refusal (`device.rs` of the CLI) | a commit lands while the next run settles it, a password change fails that run's authentication, and the only copy of the key is dropped |
| `edit_lost` | after a crash the same bytes are resent, and the writer re-issues (ADR 0026, ADR 0025) | a run adopts a rotation and stops before it re-issues its unsent edit; no later run can open the edit |

Further disagreements of code and comments were met on the way. They have no run of their own; the
passing properties are stated so that they do not cover them:

* The merge is told of opened bodies past the plan's gap before it cuts the cover, and runs ahead of
  the log until the gap closes (`sync.rs:1166`, against `causal.rs:815`).
* A request processed after its caller gave up stores an op that a later answer had cleared, which is then
  re-issued at a stored dot (`own.rs:289`, against `heal.rs:152`, `own.rs:271`).
* After a restore the log can forget a refused send whose row kept its generation, and the floors
  refuse the re-issue (`floors.rs:510`, against ADR 0026:97).
* After a second rotation an op that may have been served waits for the re-issue of one below it, and
  neither request moves (`heal.rs:386`, against `sync.rs:1627`).
* Adopting a rotation while a second one commits leaves a file with the newer key and no wraps
  (`sync.rs:2239`, `rows.rs:366`).
* `rotation.rs:48` says that after `MAX_REBUILDS` the pending rotation is kept; `send_rotation` abandons it.
* A waiting link that is served again in the page that brings its key takes its verdict in the page
  only, and the commit reports it as a duplicate (`sync.rs`, `retry_waiting`).
* An op first sent under one generation to a server already restored is refused as stale under the
  next, keeps its entry, and is re-published though no server ever stored it (`own.rs`).
* The extension's cache: see section 6.

In `OwnChain` the log (`may_have_been_served`) and the floors (the row's generation) guard the same
decision. Dropping either one alone breaks none of the passing properties: the second one holds.

## 5. Proofs

Every theorem holds for every value of the constants under the named assumptions of the module that
declares them: bounds and widths are natural numbers, the set of signed headers is finite and has one
header per dot (`HistoryAssumption`, `FreeOfForks`), an account has at least one position (`MaxSeq` in
`AccountService` is not zero), the newcomer of `Rotation` is none of its devices, the numbers of a rate rule
are positive, as `config.rs` has them. Each inductive
invariant below was checked by TLC on an instance before it was proved.

**Record store.** `VaultStoreProofs` proves `TypeCorrect`, `BodilessAlwaysCovered`,
`ClampsStayBelowHeads`, `ChainsStayLinked`, `QueueLosesNoWork`, `CutoffsHold`,
`CompactionKeepsTwoAuthors` and `SuspensionFreezesHead`.

All rest on one inductive invariant, `IInv`. None of the properties is inductive alone, because a
handler works on `w` and only the commit makes it `db`:

* `TablesInv` holds of both tables: heads exist, bodies belong to ops, clamps lie below heads, store
  sequences are unique, chains are linked, nothing is past a cut-off. Clamps below heads is what
  makes a new op uncovered, so storing it creates no work for a queue entry that is not there and
  no header covered by a snapshot that does not contain it.
* `OwedCovers`: a header without body in `w` is covered or is one that the open healing request
  stored and still has to cover before it commits.
* `Extends`: `w` keeps the headers of `db` and, for each header, its two cover authors; a suspended
  device has the same head in both.
* `CompactProgress`: during R3 there is no body left for R1, and each snapshot older than the two newest
  that was tested is still needed. That is why the plan is empty when the item leaves the queue:
  dropping a snapshot never makes another droppable.

`CompactionProofs` has the lemmas about covers that this uses: dropping an unneeded snapshot keeps
covers and author counts, R1 takes only what has two authors, an op above a clamp is not covered.
`VaultStoreProofs` has one lemma per kind of step (store an op, store a snapshot, change only `tx`,
commit, roll back, R1, R3, revocation) and one proof step per action.

**Refinement.** `VaultStoreProofs` also proves `StoreImplementsVault`: every behaviour of `VaultStore` is,
under the mapping of `ImplementsVault`, one of `AppendOnlyVault`. `IInv` gives that every committed op
stays readable. One more invariant is needed, `GrowsAtEnd`: every op that `w` adds to `db` lies above
all ops of its chain in `db`. That it belongs to a device that may still write follows from `IInv`. A
commit is then an `Append` or a stutter, an auth step a change of standing, and every other step, R1 and R3
included, a stutter.

**Computed plan.** `CompactionPlanProofs` proves `OnePassEnough`, `ComputedPlanAgrees`, `PageCovered` and
`RunSettles`: what `plan_worker` and `select_covers` compute by walking a list, for any number of
snapshots, authors and ops, is what the predicates of `Compaction` say.

* A fold over a list is a recursive function, which the proof exhibits (`FoldExists`); what holds after each
  step then holds at the end by the least step where it would fail.
* The rows of an item have distinct store sequences, so `by_store_seq` lists each snapshot once (`StoreOrder`).
* In the pass the counts are exact for the snapshots still retained (`CountsOf`, `UncountExact`), so the test
  on counts is the test on covers. `RetainedAt` says that what was tested and retained is still needed:
  dropping a snapshot never makes an earlier one droppable. Hence one restart of the loop drops what the
  pass drops next (`RoundFollowsPass`), and what a run leaves gives a second run nothing to do.
* `Represented`: for every header of a page, the author of each snapshot read that covers it is among those
  chosen for it, or two others are.

**Workers' queue.** `QueueRowsUnique` is the type invariant of `CompactionWorker`, of which one part is not a
type: an item has one row however uploads, deferrals and deletions reorder the queue, across lost locks and
restarts. `WorkersInv` adds, for each place in the loop, what the worker still has to do.

**Causal log.** `VaultSyncProofs` proves all that the run `vault_sync` checks: `LogStaysSound`,
`NothingStaysDeliverable`, `NothingIsLeftOut`, `DeliveriesAreApplied` and `CutoffsAreKept`, against a
server that may put any signed headers with any bodies in a page. The invariant `SyncInv` adds to the
properties what connects the phases of a cycle:

* `HeadsInv`: a head is an accepted link, and no frontier is more than one past its head. A commit accepts
  links above the head only, so it puts nothing unsettled below a frontier.
* `ReadyInv`: a ready link has its body at hand, and one that a cover settled is of a dirty item; before a
  page is settled, and after a round that delivered nothing, no item is dirty. So the bodies that
  the end of a cycle prunes are not those of ready links, and nothing ready is left that is covered.
  A link that is first among the unsettled ones of its chain is at its frontier, because nothing below a
  frontier is unsettled; so nothing is left whose context is settled either.
* `DeliveredIsApplied` holds because what the log settles is bounded by what the merge took; a covered
  or causally ready op is then one that the merge accepts.
* `CutInv`: a link past a known cut-off is out, or was delivered before the cut-off was known.
* `ReportInv`: a claim past a head is flagged already, or its item waits for the check of the commit.

The maxima that the model takes over links exist because the history is finite; that is proved once
(`HighestIs`) from a least-element principle.

**Purged items.** `ItemMergeProofs` proves `PurgesStand` and `PurgeKeysStayRight` from `ItemInv`, whatever
ops, snapshots, faulty snapshots and re-issues the devices exchange:

* `StateOK`, of every state on a device, in an outbox or on the server: a tombstone has no history, no value
  that its context covers, and a purge of the log that its own version vector covers. Each operation on
  states (`join_into`, `cut`, `normalize`, the signed state of a snapshot, the re-issue) has a lemma that it
  keeps this, and that the purge and its key in a join come together from one side. A context only grows
  along a join, so a value that a purge had seen is covered, and dropped, ever after.
* `StoredFor`: a purge that a device records and did not write itself is stored. A re-issue touches only
  ops that are not stored, so no other device and no stored snapshot records a key that changes.
* A snapshot of the outbox covers the purge it records. That is why `discards`, which goes by the version
  vector, drops every snapshot with the old key, and why an uploaded snapshot records a stored purge.

**Own chain.** `OwnChainProofs` proves `RestartStaysSafe`, `HistoryStaysOne`, `ReissuesAdmitted` and
`HealingCarries` from `OwnInv`:

* `Linked`: memory and file agree on every op, and the generation of the first send, in the row, is at most
  the one memory has without an answer, which is at most the last one seen. That is what a load rebuilds
  memory from, so it forgets nothing.
* `CopiesSent`, `CallInv`, `EverInv`: whatever the server, its backup, the other device or a request holds
  was sent and was stored once in the version recorded; the awaited request is a part of the chain.
* `HistoryInv`, unless a request outlived its caller: every version ever stored is the device's, and counts
  as unanswered until it is acknowledged. A re-issue takes only ops that have an answer, so it never
  meets a stored dot; what is unanswered in the server's present generation is still stored, because only
  a restore takes ops away and it starts another generation. Requests given up are only counted up
  (`LateInv`), so the condition never comes back once it is lost.
* `StaleInv`: behind a stale answer every sent op has an answer of its own, which is what the floors ask for.
* `FirstSends`, which only `HealingCarries` needs: an op signed before the first rotation was first sent no
  earlier than each unacknowledged op below it, because a request takes all of them and an answer that
  settles one settles those above it. With `KeysKnown` (no key is newer than the last rotation), until a
  second rotation everything below an op to be re-published may have been served too, and the healing
  request, which stops at the first op that was not, reaches it.

**Rotations.** `RotationProofs` proves `WrapSetStaysCurrent`, `CacheStaysOpen` and `KeysStaySafe` from
`RotationInv`, for any number of devices, rotations, rebuilds, stops and late commits:

* `AccountInv`: the committed keys are one for each epoch up to the account's.
* `BodiesInv`: every commit that exists anywhere (pending in a file, awaited by a run, or late) was built
  on a state the account held, drops no row and knows only stored ops; at the account's position its
  base is the account's state. A commit that the server applies therefore re-wraps every row.
* `MakersInv`, `GrantsInv`: a key has one maker, and its maker never has a grant of it. This is what
  makes the grant a proof that a rotation lost (`Outrun`).
* For each device, what its running program may assume: the keys of a run are those of its file except
  while it follows others (`KeysOK`); a commit of its own that is in flight was not committed, and no
  copy of it is late (`OwnOK`), so a refusal is final; while the password stays the same, a late commit
  is dead or is still the pending one of its sender (`LateOK`).
* `WayOK`: for every committed epoch above its file's key a device has a grant, or the pending rotation.

`ChainOpens` shows that such grants open one after the other up to the account's key. It is about the
recursive function of `KeyAfter`, which the proof handles by exhibiting the function that satisfies its
equation and comparing the two at the least epoch where they would differ. `KeyKept` keeps its condition (no
commit outlived its run, or no password change): without it the run `device_stranded` shows the
counterexample.

**Account.** `AccountProofs` proves `RowsStaySound`, `SessionsStayLive`, `CancelledRecoveryWaits` and
`RevocationsStand`. `AgreeInv` says that rows and signed state agree in the live tables and in the backup,
which a restore brings back. `SessionInv` adds that half-done logins are of the current credential, and that
a released recovery session is of no later code than the state's and, while that code is in use, of the
recovery that is pending and over. The proof showed that `CancelledMeansWaiting` needs the condition on the
healing it carries now: with four account states a healing can adopt a state whose recovery code has the
number of another code of before the restore, and a session of the one is not a session of the other.

**Request window.** `AccountProofs` proves `BitmapExact` and, from it, `WindowCorrect`. The invariant
`WindowInv` says that the bitmap holds exactly the accepted counters within a width of the highest.
It is needed because a request decides on what it read under the lock, and a bit that is shifted out
must be one the window refuses anyway.

**Second factor.** `StepAcceptedOnce` and `FactorUnique` rest on `TotpInv`, which adds `UnusedAbove`: the
steps of a secret that could still be accepted, those above the last accepted one of a confirmed
enrolment and all of a pending or undrawn one, were never used. Two steps may have the same code;
the proof does not assume otherwise.

**Rate limits.** `PurgeChangesNothing`: a row past its time and no row answer the next attempt alike.
`RateLimitsExact`: nobody is shut out, because a backoff never exceeds the cap; and a name admits no more
than `Most` attempts in a window. The second half rests on `Pace`, which ties the row of the name to the
times of the attempts it admitted: the row counts the last of them, the limit of attempts before those
were made a window before the row started, and attempts over the limit are a growing backoff apart. An
attempt that goes through is then a window after the one `Most` before it: because the row starts afresh;
or because more than `Paced` attempts over the limit lie between (`PacedSpans`); or because the window
before the row's start does. The doubling times and their sums are recursive functions, handled as in
`FoldExists` (`ClimbAll`).

Only model-checked:

* all liveness (`Converges` of `HonestSync`, `QueueIsServed`, `EveryoneFollows`), which needs fairness and
  is out of the prover's reach;
* four of `ItemMerge`. `ClockSeesItem` is not true for every value of the constants: a record from further
  ahead than the skew guard is merged without moving the clock, and the counter of a packed value can run
  out, so it would need a bound that ties wall clocks, guard and number of ops. `NothingMergedLost`,
  `Converges` and `HonestAccepted` rest on it, because a value wins by rank and only a clock above what it
  has seen makes ranks respect causality; and they compare a state with the one a set of ops stands for.

## 6. Not modelled

* Cryptography and formats, wire types, importers, URL matching: pure functions over bytes.
* HTTP, configuration, administration, user interfaces, build tools, fuzz targets and spikes: input
  and output or presentation. `rizzy-wasm/generated/expanded.rs` is generated.
* The event bus carries hints only; timers and polls do the work without it.
* Database, migrations and locks: the models take a transaction under the account lock as serial and
  abortable.
* The browser binding drives the same client code as the command line, with one difference that
  matters. `store.rs` of `rizzy-wasm` says that a changeset is stored as a whole, while the
  extension's `idb.ts` opens one transaction per row. A stop between two rows can leave an account state
  without its certificate, which the next load reports as a corrupt cache, and a put that fails loses a
  changeset that memory has applied. The models store memory and file in one step, as the command line
  does, so they say nothing about that cache.
