----------------------------- MODULE VaultSync ------------------------------
(***************************************************************************)
(* One device's view of the other devices' chains: the causal log          *)
(* (rizzy-sync/src/causal.rs) and the Fetch cycle of the client around it  *)
(* (rizzy-client/src/sync.rs, apply_fetch and settle): verify the page,    *)
(* retry the bodies that waited, plan, absorb covers into the merge,       *)
(* commit, deliver, prune.                                                 *)
(*                                                                         *)
(* The server is not trusted: a page holds any of the signed headers, with *)
(* any verdict on their bodies that the known item keys allow.  One step   *)
(* is one record of the page, one cover, or one pass; reports that change  *)
(* no state (duplicates, gaps) are left out.  The own chain is not here    *)
(* (the log never takes it from a page), nor are forks (FreeOfForks) and   *)
(* records of an unknown schema version, which wait for another build.     *)
(* The merge is its version vector and the headers it was told of.         *)
(***************************************************************************)
EXTENDS VersionVector, FiniteSets

CONSTANTS Items,
          History,        \* the signed op headers of the other devices
          Unopenable,     \* those whose signed body does not open with its key
          Snapshots,      \* the signed snapshots: item, author, covered
          Retirable,      \* devices whose revocation this device may learn,
          Cutoffs,        \* and their last_accepted_device_seq
          MaxPage         \* bound: op records of one page

Header == [dev: Devices, seq: Nat \ {0}, prev: Nat, item: Items, ctx: VV]
Snapshot == [item: Items, author: Devices, covered: VV]

ASSUME HistoryAssumption ==
  /\ History \subseteq Header /\ IsFiniteSet(History)
  /\ Unopenable \subseteq History
  /\ Snapshots \subseteq Snapshot
  /\ Retirable \subseteq Devices /\ Cutoffs \subseteq Nat
ASSUME FreeOfForks ==
  \A g, h \in History : g.dev = h.dev /\ g.seq = h.seq => g = h

VARIABLES st,             \* state of each header's link; "none": not accepted
          head, frontier, \* per chain
          settled,        \* settled VV per item
          ready,          \* the ready index
          dirty, absorbed,\* items to look at again
          revoked, cut    \* the known cut-offs

VARIABLES keys,           \* items whose item key is known
          waiting_bodies, \* served bodies kept until their key is known
          bodies,         \* opened bodies at hand
          mheaders, mvv,  \* the merge: recorded headers, VV per item
          merged          \* ops the merge applied

VARIABLES phase,          \* where the Fetch cycle is
          page, served,   \* the page's op records and covers
          todo, plan_cut, \* the plan: covers to absorb, and the cut
          more,           \* take_deliveries delivered something this round
          flagged         \* <<item, device>> last reported SettledPastHead

log    == <<st, head, frontier, settled, ready, dirty, absorbed, revoked, cut>>
client == <<keys, waiting_bodies, bodies, mheaders, mvv, merged>>
cycle  == <<phase, page, served, todo, plan_cut, more, flagged>>
vars   == <<log, client, cycle>>

Bodies == {"verified", "waiting", "rejected", "bodiless"}
LinkStates == {"none", "ready", "waiting", "rejected", "bodiless",
               "delivered", "revoked"}
Phases == {"idle", "verify", "plan", "absorb", "covered", "frontiers"}

(***************************************************************************)
(* The log's rules                                                         *)
(***************************************************************************)

needs_cover(body) == body \in {"bodiless", "rejected"}

from_body(body) == IF body = "verified" THEN "ready" ELSE body

covered(h) == covers(settled[h.item], h)

Accepted(h) == st[h] # "none"

is_settled(h) == st[h] = "delivered" \/ covered(h)

context_settled(h) == leq(h.ctx, settled[h.item])

PastCutoff(h) == h.dev \in revoked /\ h.seq > cut[h.dev]

\* cursor_entry: the head, or below the first rejected link no snapshot covers.
AskAgain(d) == {h \in History : /\ h.dev = d /\ h.seq >= frontier[d]
                                /\ st[h] = "rejected" /\ ~covered(h)}

\* Mutant: the cursor is the head, whatever became of the links below it.
cursor_entry_head(d) == head[d]

cursor_entry(d) ==
  IF AskAgain(d) = {} THEN head[d]
  ELSE (CHOOSE h \in AskAgain(d) : \A g \in AskAgain(d) : h.seq <= g.seq).prev

(***************************************************************************)
(* The walk of the chain check: the page's records of one chain above its  *)
(* head, in order, up to the first that does not link or does not count.   *)
(***************************************************************************)

Above(r) == {q \in page : /\ q.h.dev = r.h.dev
                          /\ head[q.h.dev] < q.h.seq /\ q.h.seq < r.h.seq}

LinksOn(r) ==
  IF Above(r) = {} THEN r.h.prev = head[r.h.dev]
  ELSE \E q \in Above(r) : q.h.seq = r.h.prev /\ \A p \in Above(r) : p.h.seq <= q.h.seq

Passes(r, counting) == /\ ~PastCutoff(r.h)
                       /\ LinksOn(r)
                       /\ needs_cover(r.body) => r.h \in counting

\* walk.accepted, when a bodiless header counts if it is in counting.
walk(counting) ==
  {r \in page : /\ r.h.seq > head[r.h.dev]
                /\ \A q \in Above(r) \cup {r} : Passes(q, counting)}

\* walk.reserved: a held link with a rejected body, served again.
reserved == {r \in page : st[r.h] = "rejected" /\ ~covered(r.h)}

(***************************************************************************)
(* The page                                                                *)
(***************************************************************************)

BeginFetch ==
  /\ phase = "idle"
  /\ phase' = "verify"
  /\ page' = {} /\ served' = {}
  /\ UNCHANGED <<log, client, todo, plan_cut, more, flagged>>

\* learn_wrap: the page, or a record of it, carries the wrap of an item key.
learn_wrap(i) ==
  /\ phase = "verify" /\ i \notin keys
  /\ keys' = keys \cup {i}
  /\ UNCHANGED <<log, waiting_bodies, bodies, mheaders, mvv, merged, cycle>>

\* The verdicts verify_body can reach: a body whose hash differs is rejected,
\* one whose key is missing waits, any other opens or does not.
verify_body(h) ==
  {"bodiless", "rejected"} \cup
  (IF h.item \notin keys THEN {"waiting"}
   ELSE IF h \in Unopenable THEN {} ELSE {"verified"})

verify_op(h, body) ==
  /\ phase = "verify" /\ Cardinality(page) < MaxPage
  /\ ~PastCutoff(h)
  /\ \A r \in page : r.h # h
  /\ body \in verify_body(h)
  /\ page' = page \cup {[h |-> h, body |-> body]}
  /\ bodies' = IF body = "verified" THEN bodies \cup {h} ELSE bodies
  /\ waiting_bodies' = IF body = "waiting" THEN waiting_bodies \cup {h}
                       ELSE waiting_bodies
  /\ UNCHANGED <<log, keys, mheaders, mvv, merged, phase, served, todo,
                 plan_cut, more, flagged>>

\* A cover opens only with its item's key; check_snapshot_author bounds what a
\* revoked author claims of its own chain.
verify_cover(c) ==
  /\ phase = "verify" /\ c \notin served
  /\ c.item \in keys
  /\ ~(c.author \in revoked /\ c.covered[c.author] > cut[c.author])
  /\ served' = served \cup {c}
  /\ UNCHANGED <<log, client, phase, page, todo, plan_cut, more, flagged>>

(***************************************************************************)
(* settle                                                                  *)
(***************************************************************************)

\* retry_waiting: every waiting body whose key is known gets its verdict, in
\* the page if the page holds it as waiting, else in the log.
Retried == {h \in waiting_bodies : h.item \in keys}

verdict(h) == IF h \in Unopenable THEN "rejected" ELSE "verified"

InPage(h) == [h |-> h, body |-> "waiting"] \in page

ToLog == {h \in Retried : ~InPage(h) /\ st[h] = "waiting"}

retry_waiting ==
  LET opened == Retried \ Unopenable
  IN /\ phase = "verify"
     /\ page' = {IF r.body = "waiting" /\ r.h \in Retried
                 THEN [r EXCEPT !.body = verdict(r.h)] ELSE r : r \in page}
     /\ bodies' = bodies \cup opened
     /\ waiting_bodies' = waiting_bodies \ Retried
     /\ st' = [h \in History |-> IF h \in ToLog THEN from_body(verdict(h)) ELSE st[h]]
     /\ ready' = ready \cup (ToLog \cap opened)
     /\ dirty' = dirty \cup {h.item : h \in ToLog \cap opened}
     /\ phase' = "plan"
     /\ UNCHANGED <<head, frontier, settled, absorbed, revoked, cut, keys,
                    mheaders, mvv, merged, served, todo, plan_cut, more, flagged>>

\* plan_covers: the first pass, in which every served cover counts; it names
\* the covers to absorb and the cut, and the merge learns the new headers.
CoveredBy(C) == {h \in History : \E c \in C : c.item = h.item /\ covers(c.covered, h)}

plan_covers ==
  LET counting == CoveredBy(served) \cup {h \in History : covered(h)}
      links    == walk(counting)
      bodiless == {r.h : r \in {q \in links : needs_cover(q.body)}
                           \cup {q \in reserved : needs_cover(q.body) /\ q.h \in counting}}
  IN /\ phase = "plan"
     /\ plan_cut' = [d \in Devices |->
          LET seqs == {head[d]} \cup {r.h.seq : r \in {q \in links : q.h.dev = d}}
          IN CHOOSE n \in seqs : \A m \in seqs : m <= n]
     /\ todo' = {c \in served : bodiless \cap CoveredBy({c}) # {}}
     /\ mheaders' = mheaders \cup {r.h : r \in links}
     /\ phase' = "absorb"
     /\ UNCHANGED <<log, keys, waiting_bodies, bodies, mvv, merged, page, served,
                    more, flagged>>

\* absorb_snapshot and record_absorbed.  The merge records the headers of the
\* page's opened bodies of the item first, cuts the cover to the item's
\* recorded headers and takes it; the log records what the merge then holds,
\* cut to the plan.
MergeHeads(H, i) ==
  [d \in Devices |->
     LET seqs == {0} \cup {h.seq : h \in {g \in H : g.item = i /\ g.dev = d}}
     IN CHOOSE n \in seqs : \A m \in seqs : m <= n]

WithPage(i) ==
  mheaders \cup {r.h : r \in {q \in page : q.h.item = i /\ q.body = "verified"}}

\* Mutant: the item is not marked dirty.
absorb_snapshot_clean(c) ==
  LET taken == join(mvv[c.item], meet(c.covered, MergeHeads(WithPage(c.item), c.item)))
  IN /\ phase = "absorb" /\ c \in todo
     /\ todo' = todo \ {c}
     /\ mheaders' = WithPage(c.item)
     /\ mvv' = [mvv EXCEPT ![c.item] = taken]
     /\ settled' = [settled EXCEPT ![c.item] = join(@, meet(taken, plan_cut))]
     /\ absorbed' = absorbed \cup {c.item}
     /\ UNCHANGED <<st, head, frontier, ready, dirty, revoked, cut, keys,
                    waiting_bodies, bodies, merged, phase, page, served, plan_cut,
                    more, flagged>>

absorb_snapshot(c) ==
  LET taken == join(mvv[c.item], meet(c.covered, MergeHeads(WithPage(c.item), c.item)))
  IN /\ phase = "absorb" /\ c \in todo
     /\ todo' = todo \ {c}
     /\ mheaders' = WithPage(c.item)
     /\ mvv' = [mvv EXCEPT ![c.item] = taken]
     /\ settled' = [settled EXCEPT ![c.item] = join(@, meet(taken, plan_cut))]
     /\ dirty' = dirty \cup {c.item}
     /\ absorbed' = absorbed \cup {c.item}
     /\ UNCHANGED <<st, head, frontier, ready, revoked, cut, keys, waiting_bodies,
                    bodies, merged, phase, page, served, plan_cut, more, flagged>>

\* The cover does not parse, or the merge refuses it after recording the page's
\* headers: it contradicts what the replica knows.
refuse_snapshot(c) ==
  /\ phase = "absorb" /\ c \in todo
  /\ todo' = todo \ {c}
  /\ mheaders' \in {mheaders, WithPage(c.item)}
  /\ UNCHANGED <<log, keys, waiting_bodies, bodies, mvv, merged, phase, page,
                 served, plan_cut, more, flagged>>

\* Mutant: the absorbed items are checked against the plan's cut.
check_absorbed_cut(hd) ==
  {p \in flagged : settled[p[1]][p[2]] > hd[p[2]]}
    \cup {p \in absorbed \X Devices : settled[p[1]][p[2]] > plan_cut[p[2]]}

\* The reports that still hold, and those of the items absorbed since the last
\* commit.
check_absorbed(hd) ==
  {p \in flagged : settled[p[1]][p[2]] > hd[p[2]]}
    \cup {p \in absorbed \X Devices : settled[p[1]][p[2]] > hd[p[2]]}

\* commit: the second pass, in which a bodiless header counts only behind what
\* was absorbed; held links served again take their verdict (serve_again).
commit ==
  LET links   == walk({h \in History : covered(h)})
      renewed == {r \in reserved : r.body \in {"verified", "waiting"}}
      updated == links \cup renewed
      opened  == {r.h : r \in {q \in updated : q.body = "verified"}}
  IN /\ phase = "absorb" /\ todo = {}
     /\ st' = [h \in History |->
          IF \E r \in updated : r.h = h
          THEN from_body((CHOOSE r \in updated : r.h = h).body) ELSE st[h]]
     /\ head' = [d \in Devices |->
          LET seqs == {head[d]} \cup {r.h.seq : r \in {q \in links : q.h.dev = d}}
          IN CHOOSE n \in seqs : \A m \in seqs : m <= n]
     /\ ready' = ready \cup opened
     /\ dirty' = dirty \cup {h.item : h \in opened}
     /\ absorbed' = {}
     /\ flagged' = check_absorbed(head')
     /\ mheaders' = mheaders \cup {r.h : r \in links}
     /\ phase' = "covered" /\ more' = FALSE
     /\ UNCHANGED <<frontier, settled, revoked, cut, keys, waiting_bodies, bodies,
                    mvv, merged, page, served, todo, plan_cut>>

(***************************************************************************)
(* take_deliveries, and apply_op for each delivery                         *)
(***************************************************************************)

\* merge_body: the op joins when the VV covers its dot or its context.  The
\* client drops a delivery that has no body or that the merge refuses.
Applies(h) == h \in bodies /\ (covers(mvv[h.item], h) \/ leq(h.ctx, mvv[h.item]))

ApplyTo(vv, H) ==
  [i \in Items |-> [d \in Devices |->
     LET seqs == {vv[i][d]} \cup {h.seq : h \in {g \in H : g.item = i /\ g.dev = d}}
     IN CHOOSE n \in seqs : \A m \in seqs : m <= n]]

deliver_covered ==
  LET due == {h \in ready : h.item \in dirty /\ covered(h)}
  IN /\ phase = "covered"
     /\ st' = [h \in History |-> IF h \in due THEN "delivered" ELSE st[h]]
     /\ ready' = ready \ due
     /\ dirty' = {}
     /\ merged' = merged \cup {h \in due : Applies(h)}
     /\ mvv' = ApplyTo(mvv, {h \in due : Applies(h)})
     /\ more' = (due # {})
     /\ phase' = "frontiers"
     /\ UNCHANGED <<head, frontier, settled, absorbed, revoked, cut, keys,
                    waiting_bodies, bodies, mheaders, page, served, todo, plan_cut,
                    flagged>>

Unsettled(d) == {h \in History : /\ h.dev = d /\ h.seq >= frontier[d]
                                 /\ Accepted(h) /\ ~is_settled(h)}

IsFrontier(h) == h \in Unsettled(h.dev) /\ \A g \in Unsettled(h.dev) : h.seq <= g.seq

Deliverable(h) == IsFrontier(h) /\ st[h] = "ready" /\ context_settled(h)

deliver_frontier(h) ==
  /\ phase = "frontiers" /\ Deliverable(h)
  /\ st' = [st EXCEPT ![h] = "delivered"]
  /\ frontier' = [frontier EXCEPT ![h.dev] = h.seq]
  /\ ready' = ready \ {h}
  /\ settled' = [settled EXCEPT ![h.item] = add(@, h)]
  /\ dirty' = dirty \cup {h.item}
  /\ merged' = IF Applies(h) THEN merged \cup {h} ELSE merged
  /\ mvv' = IF Applies(h) THEN [mvv EXCEPT ![h.item] = add(@, h)] ELSE mvv
  /\ more' = TRUE
  /\ UNCHANGED <<head, absorbed, revoked, cut, keys, waiting_bodies, bodies,
                 mheaders, phase, page, served, todo, plan_cut, flagged>>

\* Every chain is stuck at its frontier or at its end: another round if this
\* one delivered something, else the cycle ends and the bodies are pruned.
advance_frontiers ==
  [d \in Devices |-> IF Unsettled(d) = {} THEN head[d] + 1
                     ELSE (CHOOSE h \in Unsettled(d) : IsFrontier(h)).seq]

NextRound ==
  /\ phase = "frontiers" /\ more
  /\ \A h \in History : ~Deliverable(h)
  /\ frontier' = advance_frontiers
  /\ phase' = "covered" /\ more' = FALSE
  /\ UNCHANGED <<st, head, settled, ready, dirty, absorbed, revoked, cut, client,
                 page, served, todo, plan_cut, flagged>>

\* Mutant: a verified body that waits for its chain or context is not listed.
waiting_unopened ==
  {h \in History : /\ Accepted(h) /\ ~is_settled(h)
                   /\ st[h] \in {"waiting", "rejected", "bodiless"}}

\* waiting: the accepted, unsettled links that are not deliverable.
waiting ==
  {h \in History : /\ Accepted(h) /\ ~is_settled(h) /\ st[h] # "revoked"
                   /\ st[h] = "ready" => ~(IsFrontier(h) /\ context_settled(h))}

EndFetch ==
  /\ phase = "frontiers" /\ ~more
  /\ \A h \in History : ~Deliverable(h)
  /\ frontier' = advance_frontiers
  /\ bodies' = bodies \cap waiting
  /\ phase' = "idle"
  /\ page' = {} /\ served' = {} /\ plan_cut' = ZeroVV
  /\ UNCHANGED <<st, head, settled, ready, dirty, absorbed, revoked, cut, keys,
                 waiting_bodies, mheaders, mvv, merged, todo, more, flagged>>

\* Mutant: off by one.
PastItNext(d, n) == {h \in History : /\ h.dev = d /\ h.seq > n + 1
                                     /\ st[h] \notin {"none", "delivered", "revoked"}}

PastIt(d, n) == {h \in History : /\ h.dev = d /\ h.seq > n
                                 /\ st[h] \notin {"none", "delivered", "revoked"}}

\* Mutant: the ready index keeps the links that are out.
learn_revocation_indexed(d, n) ==
  /\ phase = "idle" /\ d \notin revoked
  /\ revoked' = revoked \cup {d}
  /\ cut' = [cut EXCEPT ![d] = n]
  /\ st' = [h \in History |-> IF h \in PastIt(d, n) THEN "revoked" ELSE st[h]]
  /\ UNCHANGED <<head, frontier, settled, ready, dirty, absorbed, client, cycle>>

\* learn_revocation, at the start of a Fetch: the undelivered links past the
\* cut-off are out.
learn_revocation(d, n) ==
  /\ phase = "idle" /\ d \notin revoked
  /\ revoked' = revoked \cup {d}
  /\ cut' = [cut EXCEPT ![d] = n]
  /\ st' = [h \in History |-> IF h \in PastIt(d, n) THEN "revoked" ELSE st[h]]
  /\ ready' = ready \ PastIt(d, n)
  /\ UNCHANGED <<head, frontier, settled, dirty, absorbed, client, cycle>>

Init ==
  /\ st = [h \in History |-> "none"]
  /\ head = ZeroVV /\ frontier = ZeroVV
  /\ settled = [i \in Items |-> ZeroVV]
  /\ ready = {} /\ dirty = {} /\ absorbed = {}
  /\ revoked = {} /\ cut = ZeroVV
  /\ keys = {} /\ waiting_bodies = {} /\ bodies = {}
  /\ mheaders = {} /\ mvv = [i \in Items |-> ZeroVV] /\ merged = {}
  /\ phase = "idle" /\ page = {} /\ served = {}
  /\ todo = {} /\ plan_cut = ZeroVV /\ more = FALSE /\ flagged = {}

Next ==
  \/ BeginFetch
  \/ \E i \in Items : learn_wrap(i)
  \/ \E h \in History, body \in Bodies : verify_op(h, body)
  \/ \E c \in Snapshots : verify_cover(c)
  \/ retry_waiting
  \/ plan_covers
  \/ \E c \in Snapshots : absorb_snapshot(c) \/ refuse_snapshot(c)
  \/ commit
  \/ deliver_covered
  \/ \E h \in History : deliver_frontier(h)
  \/ NextRound
  \/ EndFetch
  \/ \E d \in Retirable, n \in Cutoffs : learn_revocation(d, n)

Spec == Init /\ [][Next]_vars

(***************************************************************************)
(* Properties                                                              *)
(***************************************************************************)

\* Every variable has its type.
TypeOK ==
  /\ st \in [History -> LinkStates]
  /\ head \in VV /\ frontier \in VV /\ cut \in VV /\ plan_cut \in VV
  /\ settled \in [Items -> VV] /\ mvv \in [Items -> VV]
  /\ ready \subseteq History /\ waiting_bodies \subseteq History
  /\ bodies \subseteq History /\ mheaders \subseteq History /\ merged \subseteq History
  /\ dirty \subseteq Items /\ absorbed \subseteq Items /\ keys \subseteq Items
  /\ revoked \subseteq Devices
  /\ phase \in Phases
  /\ page \subseteq [h: History, body: Bodies]
  /\ served \subseteq Snapshots /\ todo \subseteq served
  /\ more \in BOOLEAN
  /\ flagged \subseteq Items \X Devices

\* Whatever pages a server sends, in whatever order, the accepted links of a
\* chain are a linked prefix of it: each names the accepted link just below it,
\* and the head is the last one (the chain check of walk and accept_link).
ChainsArePrefixes ==
  \A h \in History : Accepted(h) =>
    /\ h.seq <= head[h.dev]
    /\ h.prev = 0 \/ \E g \in History : Accepted(g) /\ g.dev = h.dev /\ g.seq = h.prev
    /\ \A g \in History : Accepted(g) /\ g.dev = h.dev /\ g.seq < h.seq => g.seq <= h.prev

\* The ready index holds exactly the links in state Ready, across every path
\* that makes a link ready, delivers it or revokes it; and no link below a
\* chain's frontier is unsettled, although settled VVs, verdicts and states
\* change behind it.
IndexesExact ==
  /\ ready = {h \in History : st[h] = "ready"}
  /\ \A h \in History : Accepted(h) /\ h.seq < frontier[h.dev] => is_settled(h)

FirstUnsettled(h) ==
  /\ Accepted(h) /\ ~is_settled(h)
  /\ \A g \in History : Accepted(g) /\ g.dev = h.dev /\ g.seq < h.seq => is_settled(g)

\* After a cycle nothing deliverable is left behind: looking only at the dirty
\* items and at the frontiers loses no delivery, in whatever order covers,
\* verdicts, revocations and links arrived.
NothingLeftDeliverable ==
  phase = "idle" =>
    \A h \in History : st[h] = "ready" =>
      ~covered(h) /\ ~(FirstUnsettled(h) /\ context_settled(h))

\* Reading 8: while a link's body stays rejected and no snapshot covers it, the
\* next Fetch asks for it again.
RejectedAskedAgain ==
  phase = "idle" =>
    \A h \in History : st[h] = "rejected" /\ ~covered(h) => cursor_entry(h.dev) < h.seq

\* The log never claims more of an item than the merge holds, so no delivery
\* is refused as NotReady; and no body is pruned before its delivery: every
\* delivered op is applied (deliver drops the others without a word).
DeliveredIsApplied ==
  /\ \A i \in Items : leq(settled[i], mvv[i])
  /\ \A h \in History : st[h] = "delivered" => h \in merged

\* Reading 7: an item is settled past a chain's head only after a report of it
\* (a cover of one item was taken, the cover of another refused).
PastHeadReported ==
  phase = "idle" =>
    \A i \in Items, d \in Devices : settled[i][d] > head[d] => <<i, d>> \in flagged

\* An op past a cut-off this device knows is never delivered, even if it was
\* accepted, verified and ready before the revocation was learned.
NoDeliveryPastCutoff ==
  [][\A h \in History :
       st[h] # "delivered" /\ st'[h] = "delivered" => ~PastCutoff(h)]_vars

\* The log is sound after every step of a page: its types, its chains and the
\* indexes that deliver and cursors are computed from.
LogSound == TypeOK /\ ChainsArePrefixes /\ IndexesExact

\* A fetch leaves nothing out in silence: what it could not open is asked for
\* again, and what a cover claims beyond the served chain is reported.
NothingLeftOut == RejectedAskedAgain /\ PastHeadReported
=============================================================================
