-------------------------- MODULE CompactionWorker --------------------------
(***************************************************************************)
(* The worker role's compaction runs (rizzy-server/src/worker.rs) over the *)
(* durable queue (rizzy-domain-vault/src/compact.rs, run_compaction), with *)
(* the leader lock that keeps one of several worker processes active       *)
(* (rizzy-storage/src/leader_lock.rs, PostgreSQL).                         *)
(*                                                                         *)
(* compact_item is one atomic step here: VaultStore has its transaction.   *)
(* A bus event only makes a run start early, and the interval timer may    *)
(* fire at any time, so events add no behaviour.  The run's other steps    *)
(* (purges, TOTP re-sealing, reconciliation epochs) change other tables:   *)
(* only their check of the lock is here.                                   *)
(***************************************************************************)
EXTENDS Naturals, Sequences, SequencesExt, FiniteSets

CONSTANTS Workers,        \* worker processes on one database
          Items,
          Poison,         \* items whose compaction always fails (damaged rows)
          Batch,          \* COMPACTION_BATCH
          MaxBatches,     \* MAX_COMPACTION_BATCHES
          MaxFaults,      \* bound: lost locks, crashes and passing errors
          Nobody

ASSUME ConstantsAssumption ==
  /\ Poison \subseteq Items /\ Nobody \notin Workers
  /\ Batch \in Nat \ {0} /\ MaxBatches \in Nat \ {0} /\ MaxFaults \in Nat

VARIABLES queue,          \* the queued items by queued_at_ms, item; fresh: the
                          \* clock has not passed queued_at_ms yet
          holder,         \* the session that holds the advisory lock
          pc,             \* where each worker is
          todo,           \* what is left of the batch it read
          processed, failed,   \* of that batch
          batches,        \* batches its run may still start
          faults

vars == <<queue, holder, pc, todo, processed, failed, batches, faults>>
batch == <<todo, processed, failed, batches>>

Entry == [item: Items, fresh: BOOLEAN]

Queued == {queue[k].item : k \in 1..Len(queue)}

\* The queue has one row per item.
Place(i) == CHOOSE k \in 1..Len(queue) : queue[k].item = i

Without(i) == IF i \in Queued THEN RemoveAt(queue, Place(i)) ELSE queue

Goto(w, place) == pc' = [pc EXCEPT ![w] = place]

\* The variables of a batch, and of a run, end with it.
DropBatch(w) ==
  /\ todo' = [todo EXCEPT ![w] = <<>>]
  /\ processed' = [processed EXCEPT ![w] = 0]
  /\ failed' = [failed EXCEPT ![w] = 0]

DropRun(w) == DropBatch(w) /\ batches' = [batches EXCEPT ![w] = 0]

Running == {"start", "batch", "items", "defer", "end"}

(***************************************************************************)
(* The queue                                                               *)
(***************************************************************************)

\* store_snapshot of an upload or a healing request: an item already queued
\* keeps its place; a new one comes behind every entry the clock has passed.
enqueue(i) ==
  /\ i \notin Queued
  /\ \E k \in 0..Len(queue) :
       /\ \A j \in 1..Len(queue) : ~queue[j].fresh => j <= k
       /\ queue' = InsertAt(queue, k + 1, [item |-> i, fresh |-> TRUE])
  /\ UNCHANGED <<holder, pc, batch, faults>>

\* The clock passes the lowest queued_at_ms that it had not.
Tick ==
  /\ \E k \in 1..Len(queue) :
       /\ queue[k].fresh /\ \A j \in 1..k - 1 : ~queue[j].fresh
       /\ queue' = [queue EXCEPT ![k].fresh = FALSE]
  /\ UNCHANGED <<holder, pc, batch, faults>>

dequeue(i) == queue' = Without(i)

\* Mutant: a failed item keeps its place.
defer_keeps(i) == queue' = queue

\* compaction_defer.sql: behind every other queued item; nothing for an item
\* another worker has dequeued meanwhile.
defer(i) == queue' = IF i \in Queued THEN Append(Without(i), [item |-> i, fresh |-> TRUE])
                     ELSE queue

\* Mutant: one item too many.
queued_one_more(n) ==
  [k \in 1..(IF Len(queue) <= n THEN Len(queue) ELSE n + 1) |-> queue[k].item]

queued(n) == [k \in 1..(IF Len(queue) < n THEN Len(queue) ELSE n) |-> queue[k].item]

(***************************************************************************)
(* The leader lock                                                         *)
(***************************************************************************)

take_leadership(w) ==
  /\ pc[w] = "standby" /\ holder = Nobody
  /\ holder' = w /\ Goto(w, "start")
  /\ UNCHANGED <<queue, batch, faults>>

\* still_leader says no: the run ends at once and the connection is dropped.  At
\* the end of the run it is asked only if there is a pre-migration copy.
step_down(w) ==
  /\ pc[w] \in {"start", "batch", "end"} /\ holder # w
  /\ Goto(w, "standby") /\ DropRun(w)
  /\ UNCHANGED <<queue, holder, faults>>

(***************************************************************************)
(* One run                                                                 *)
(***************************************************************************)

\* The interval passed, or an event woke the worker.
wake(w) ==
  /\ pc[w] = "idle" /\ Goto(w, "start")
  /\ UNCHANGED <<queue, holder, batch, faults>>

\* Purge, re-seal and epochs, each after a check of the lock.
run_once(w) ==
  /\ pc[w] = "start" /\ holder = w
  /\ batches' = [batches EXCEPT ![w] = MaxBatches]
  /\ Goto(w, "batch")
  /\ UNCHANGED <<queue, holder, todo, processed, failed, faults>>

\* run_compaction reads the oldest queued items.
next_batch(w) ==
  /\ pc[w] = "batch" /\ holder = w
  /\ todo' = [todo EXCEPT ![w] = queued(Batch)]
  /\ batches' = [batches EXCEPT ![w] = @ - 1]
  /\ Goto(w, "items")
  /\ UNCHANGED <<queue, holder, processed, failed, faults>>

\* One item, without looking at the lock: a batch under way when it is lost
\* finishes beside the next leader's.
compact_item(w) ==
  /\ pc[w] = "items" /\ todo[w] # <<>> /\ Head(todo[w]) \notin Poison
  /\ dequeue(Head(todo[w]))
  /\ processed' = [processed EXCEPT ![w] = @ + 1]
  /\ todo' = [todo EXCEPT ![w] = Tail(@)]
  /\ UNCHANGED <<holder, pc, failed, batches, faults>>

\* Rolled back: the item is damaged.
item_fails(w) ==
  /\ pc[w] = "items" /\ todo[w] # <<>> /\ Head(todo[w]) \in Poison
  /\ Goto(w, "defer")
  /\ UNCHANGED <<queue, holder, batch, faults>>

defer_item(w) ==
  /\ pc[w] = "defer"
  /\ defer(Head(todo[w]))
  /\ failed' = [failed EXCEPT ![w] = @ + 1]
  /\ todo' = [todo EXCEPT ![w] = Tail(@)]
  /\ Goto(w, "items")
  /\ UNCHANGED <<holder, processed, batches, faults>>

\* Another batch follows a full one of which something was compacted.
batch_done(w) ==
  /\ pc[w] = "items" /\ todo[w] = <<>>
  /\ IF processed[w] + failed[w] < Batch \/ processed[w] = 0 \/ batches[w] = 0
     THEN Goto(w, "end") /\ DropRun(w)
     ELSE Goto(w, "batch") /\ DropBatch(w) /\ UNCHANGED batches
  /\ UNCHANGED <<queue, holder, faults>>

end_run(w) ==
  /\ pc[w] = "end" /\ Goto(w, "idle")
  /\ UNCHANGED <<queue, holder, batch, faults>>

(***************************************************************************)
(* What goes wrong                                                         *)
(***************************************************************************)

Fault == faults < MaxFaults /\ faults' = faults + 1

\* Rolled back: an error that passes, say a busy database.
compact_fails(w) ==
  /\ pc[w] = "items" /\ todo[w] # <<>> /\ Fault
  /\ Goto(w, "defer")
  /\ UNCHANGED <<queue, holder, batch>>

\* The dedicated connection drops or its backend is terminated.
lose_lock ==
  /\ holder # Nobody /\ Fault
  /\ holder' = Nobody
  /\ UNCHANGED <<queue, pc, batch>>

\* A check that errs or times out counts as lost.
check_fails(w) ==
  /\ pc[w] \in {"start", "batch", "end"} /\ holder = w /\ Fault
  /\ holder' = Nobody /\ Goto(w, "standby") /\ DropRun(w)
  /\ UNCHANGED queue

\* The queue cannot be read, or the failed item not moved back: the run goes on
\* after the compaction.
queue_fails(w) ==
  /\ pc[w] \in {"batch", "defer"} /\ (pc[w] = "batch" => holder = w) /\ Fault
  /\ Goto(w, "end") /\ DropRun(w)
  /\ UNCHANGED <<queue, holder>>

\* The process ends and starts again; its session's lock is released.
restart(w) ==
  /\ Fault
  /\ Goto(w, "standby") /\ DropRun(w)
  /\ holder' = IF holder = w THEN Nobody ELSE holder
  /\ UNCHANGED queue

Init ==
  /\ queue = <<>> /\ holder = Nobody /\ faults = 0
  /\ pc = [w \in Workers |-> "standby"]
  /\ todo = [w \in Workers |-> <<>>]
  /\ processed = [w \in Workers |-> 0]
  /\ failed = [w \in Workers |-> 0]
  /\ batches = [w \in Workers |-> 0]

Step(w) ==
  \/ take_leadership(w) \/ step_down(w) \/ wake(w) \/ run_once(w)
  \/ next_batch(w) \/ compact_item(w) \/ item_fails(w) \/ defer_item(w)
  \/ batch_done(w) \/ end_run(w)

Next ==
  \/ \E i \in Items : enqueue(i)
  \/ Tick
  \/ \E w \in Workers : Step(w)
  \/ \E w \in Workers : compact_fails(w) \/ check_fails(w) \/ queue_fails(w) \/ restart(w)
  \/ lose_lock

\* The worker's loop and timer run, and the clock advances; nothing obliges a
\* client to upload or a fault to happen.
Fairness == WF_vars(Tick) /\ \A w \in Workers : WF_vars(Step(w))

Spec == Init /\ [][Next]_vars /\ Fairness

(***************************************************************************)
(* Properties                                                              *)
(***************************************************************************)

\* Every variable has its type; an item is queued once; a worker's batch never
\* exceeds what it read.
TypeOK ==
  /\ queue \in Seq(Entry) /\ Cardinality(Queued) = Len(queue)
  /\ holder \in Workers \cup {Nobody}
  /\ pc \in [Workers -> Running \cup {"standby", "idle"}]
  /\ \A w \in Workers : todo[w] \in Seq(Items) /\ Len(todo[w]) + processed[w] + failed[w] <= Batch
  /\ batches \in [Workers -> 0..MaxBatches] /\ faults \in 0..MaxFaults

\* run_compaction: "one item that keeps failing never holds the head of the
\* queue and never stops R1 and R3 for the rest of the database": every queued
\* item that can be compacted is, however many damaged items share the queue,
\* however many uploads keep coming, and across lost locks and restarts.
EveryItemGetsItsTurn ==
  \A i \in Items \ Poison : i \in Queued ~> i \notin Queued

\* "one run stays bounded": a run ends although uploads refill the queue.
RunsEnd == \A w \in Workers : pc[w] \in Running ~> pc[w] \notin Running

\* The queue is served, and by runs that end.
QueueIsServed == EveryItemGetsItsTurn /\ RunsEnd
=============================================================================
