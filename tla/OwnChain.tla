------------------------------ MODULE OwnChain ------------------------------
(***************************************************************************)
(* One device's own chain in one vault: writing, uploading, re-issuing     *)
(* after a stale answer, re-publishing after a restore, and loading the    *)
(* chain from the device's file after a crash (rizzy-sync/src/causal/      *)
(* own.rs, rizzy-client/src/sync.rs and sync/heal.rs, store/floors.rs).    *)
(*                                                                         *)
(* Op n of the chain is identified by n; its version is the vault_key_     *)
(* epoch it is signed at, the only field a re-issue changes.  The device   *)
(* commits its rows in the step that changes them, before a request leaves *)
(* (rizzy-cli/src/device.rs, upload): a crash loses the memory and the     *)
(* call, never a committed row.  Requests and answers get lost, and a      *)
(* request may reach the server after its caller gave up.  The server is   *)
(* honest: it backs up, restores (drawing a new restore generation) and    *)
(* serves the chain to another device, which can re-publish it.            *)
(* The own snapshots and the other devices' chains are not here.           *)
(***************************************************************************)
EXTENDS Naturals, Sequences, SequencesExt, FiniteSets

CONSTANTS MaxSeq,         \* bound: ops the device writes
          MaxEpoch,       \* bound: rotations
          MaxGen,         \* bound: restores, plus 1
          MaxLate,        \* bound: requests under way after their caller gave up
          MaxFaults       \* bound: restores and such requests together

ASSUME BoundsAssumption ==
  /\ MaxSeq \in Nat /\ MaxEpoch \in Nat /\ MaxGen \in Nat \ {0}
  /\ MaxLate \in Nat /\ MaxFaults \in Nat

VARIABLES srv,            \* the server: the chain it stores, epoch, generation
          backup, top,    \* its last backup; the highest epoch of a rotation
          peer,           \* the part of the chain another device fetched
          mem, file,      \* the device: memory, and the rows on disk
          call, late,     \* the call awaited; requests given up
          left,           \* ghost: how many requests were ever given up
          ever            \* ghost: every op version the server ever stored

vars == <<srv, backup, top, peer, mem, file, call, late, left, ever>>

Seqs   == 1..MaxSeq
Epochs == 0..MaxEpoch
Gens   == 1..MaxGen
None   == 0               \* no generation, no op

Max2(m, n) == IF m > n THEN m ELSE n

(***************************************************************************)
(* The log's upload state                                                  *)
(***************************************************************************)

own_head(m) == Len(m.chain)

\* Acknowledged, or sent without an answer before the generation changed.
may_have_been_served(m, n) ==
  \/ n <= m.acked
  \/ m.unanswered[n] # None /\ m.unanswered[n] # m.last

\* The first send's generation stays.
record_sent(m, S) ==
  [n \in Seqs |-> IF n \in S /\ m.unanswered[n] = None THEN m.last
                  ELSE m.unanswered[n]]

\* Only an answer of the same generation does.
record_answered(m, S, g) ==
  [n \in Seqs |-> IF n \in S /\ m.unanswered[n] = g THEN None ELSE m.unanswered[n]]

acknowledge(m, n) ==
  [m EXCEPT !.acked = Max2(@, n),
            !.unanswered = [k \in Seqs |-> IF k <= Max2(m.acked, n) THEN None ELSE @[k]],
            !.answered   = [k \in Seqs |-> IF k <= Max2(m.acked, n) THEN None ELSE @[k]]]

\* stale_plan: the answered op and the later ones below the held epoch.
Stale(m) == {n \in 1..own_head(m) : m.stale_from # None /\ n >= m.stale_from
                                      /\ m.chain[n] < m.key}

reissue(m)   == {n \in Stale(m) : ~may_have_been_served(m, n)}
republish(m) == {n \in Stale(m) : may_have_been_served(m, n)}

awaits_republish(m, n) == n > m.acked /\ n > m.server_head

stale_republish(m) == {n \in republish(m) : awaits_republish(m, n)}

needs_healing(m) == m.behind \/ stale_republish(m) # {}

is_read_only == file.alarm \/ mem.behind

Idle == call.kind = "none"

NoCall == [kind |-> "none", from |-> 0, recs |-> <<>>, answer |-> "none",
           ok |-> 0, gen |-> None]

(***************************************************************************)
(* The file: floors of store/floors.rs and the load                        *)
(***************************************************************************)

\* Mutant: a row that was never sent alone.
reissue_admitted_unsent(n) == file.rows[n].own = "unsent"

\* A re-issue replaces a row that was never sent, or whose first send got the
\* stale answer of the same generation.
reissue_admitted(n) ==
  \/ file.rows[n].own = "unsent"
  \/ /\ file.rows[n].own = "sent"
     /\ mem.answered[n] # None /\ file.rows[n].gen = mem.answered[n]

\* Mutant: a resend overwrites the generation of the first send.
sent_generation_last(r, g) == g

\* OP_SENT: the first send's generation stays in the row.
sent_generation(r, g) == IF r.gen = None THEN g ELSE r.gen

MarkAcked(rows, m, n) ==
  [k \in 1..Len(rows) |-> IF m < k /\ k <= n THEN [rows[k] EXCEPT !.own = "acked"]
                          ELSE rows[k]]

\* Mutant: a sent row is loaded as if its first send were under the last
\* generation.
Unanswered_last(f) ==
  [n \in Seqs |-> IF n <= Len(f.rows) /\ f.rows[n].own = "sent" THEN f.gen ELSE None]

Unanswered(f) ==
  [n \in Seqs |-> IF n <= Len(f.rows) /\ f.rows[n].own = "sent" THEN f.rows[n].gen
                  ELSE None]

\* VaultSync::restore, the own chain of it.
Loaded(f) ==
  [chain       |-> [n \in 1..Len(f.rows) |-> f.rows[n].ver],
   key         |-> f.key,
   acked       |-> Cardinality({n \in 1..Len(f.rows) : f.rows[n].own = "acked"}),
   unanswered  |-> Unanswered(f),
   last        |-> f.gen,
   fetched     |-> FALSE,
   server_head |-> 0,
   behind      |-> FALSE,
   stale_from  |-> None,
   answered    |-> [n \in Seqs |-> None]]

(***************************************************************************)
(* The device                                                              *)
(***************************************************************************)

write_op ==
  /\ Idle /\ ~is_read_only /\ own_head(mem) < MaxSeq
  /\ mem' = [mem EXCEPT !.chain = Append(@, mem.key)]
  /\ file' = [file EXCEPT !.rows = Append(@, [ver |-> mem.key, own |-> "unsent",
                                              gen |-> None])]
  /\ UNCHANGED <<srv, backup, top, peer, call, late, left, ever>>

\* apply_fetch: the answer's generation and heads.
Observe(m) ==
  [m EXCEPT !.last = srv.gen, !.fetched = TRUE, !.server_head = Len(srv.stored),
            !.behind = Len(srv.stored) < m.acked]

fetch ==
  /\ Idle /\ ~file.alarm
  /\ mem' = Observe(mem)
  /\ file' = [file EXCEPT !.gen = srv.gen,
                          !.alarm = Len(srv.stored) > own_head(mem)]
  /\ UNCHANGED <<srv, backup, top, peer, call, late, left, ever>>

\* refresh: the account answer names a newer vault key; adopting it runs a
\* complete Fetch in the same transaction.
adopt_vault_key ==
  /\ Idle /\ ~file.alarm /\ srv.epoch > mem.key
  /\ mem' = [Observe(mem) EXCEPT !.key = srv.epoch]
  /\ file' = [file EXCEPT !.gen = srv.gen, !.key = srv.epoch,
                          !.alarm = Len(srv.stored) > own_head(mem)]
  /\ UNCHANGED <<srv, backup, top, peer, call, late, left, ever>>

\* Nothing is sent before the new key is adopted, nor while an op waits to be
\* re-published.
MayUpload ==
  /\ Idle /\ ~is_read_only /\ mem.last # None
  /\ mem.stale_from # None => mem.chain[mem.stale_from] < mem.key
  /\ stale_republish(mem) = {}

Unacknowledged == mem.acked + 1..own_head(mem)

\* upload_request: re-issue, then send every op not acknowledged; the re-issued
\* and the sent rows are one transaction, committed before the request leaves.
upload_request ==
  LET again == reissue(mem)
      fresh == [mem EXCEPT
                  !.chain = [n \in 1..own_head(mem) |-> IF n \in again THEN mem.key ELSE @[n]],
                  !.unanswered = [n \in Seqs |-> IF n \in again THEN None ELSE @[n]],
                  !.answered   = [n \in Seqs |-> IF n \in again THEN None ELSE @[n]],
                  !.stale_from = None]
      Reissued(r, n) == IF n \in again THEN [r EXCEPT !.ver = mem.key, !.gen = None] ELSE r
      Sent(r) == [r EXCEPT !.own = "sent", !.gen = sent_generation(r, mem.last)]
  IN /\ MayUpload /\ Unacknowledged # {}
     /\ \A n \in again : reissue_admitted(n)
     /\ mem' = [fresh EXCEPT !.unanswered = record_sent(fresh, Unacknowledged)]
     /\ file' = [file EXCEPT !.rows = [n \in 1..Len(@) |->
                   IF n \in Unacknowledged THEN Sent(Reissued(@[n], n)) ELSE @[n]]]
     /\ call' = [NoCall EXCEPT !.kind = "upload", !.from = mem.acked + 1,
                   !.recs = SubSeq(fresh.chain, mem.acked + 1, own_head(mem))]
     /\ UNCHANGED <<srv, backup, top, peer, late, left, ever>>

\* The floors refuse the re-issue: the command ends, and the next one loads.
reissue_refused ==
  /\ MayUpload
  /\ \E n \in reissue(mem) : ~reissue_admitted(n)
  /\ mem' = Loaded(file)
  /\ UNCHANGED <<srv, backup, top, peer, file, call, late, left, ever>>

\* apply_upload_response: the first ok records are acknowledged, the others
\* answered without being stored.
apply_upload_response ==
  LET upto == call.from + call.ok - 1
      rest == upto + 1..call.from + Len(call.recs) - 1
      done == acknowledge([mem EXCEPT !.last = call.gen], upto)
  IN /\ call.kind = "upload" /\ call.answer # "none"
     /\ mem' = [done EXCEPT
                  !.unanswered = record_answered(done, rest, call.gen),
                  !.answered   = [n \in Seqs |-> IF n \in rest THEN call.gen ELSE @[n]],
                  !.stale_from = IF call.answer = "stale" THEN upto + 1 ELSE @]
     /\ file' = [file EXCEPT !.rows = MarkAcked(@, mem.acked, upto), !.gen = call.gen,
                             !.alarm = (call.answer = "conflict")]
     /\ call' = NoCall
     /\ UNCHANGED <<srv, backup, top, peer, late, left, ever>>

\* Mutant: only what was acknowledged.
Servable_acked(n) == n <= mem.acked

\* own_range: from the server's head up to the first op it never stored.
Servable(n) == n <= mem.acked \/ may_have_been_served(mem, n)

HealTop == LET ends == {n \in mem.server_head..own_head(mem) :
                          \A k \in mem.server_head + 1..n : Servable(k)}
           IN CHOOSE n \in ends : \A k \in ends : k <= n

healing_request ==
  /\ Idle /\ ~file.alarm /\ mem.fetched
  /\ needs_healing(mem)
  /\ HealTop > mem.server_head
  /\ call' = [NoCall EXCEPT !.kind = "heal", !.from = mem.server_head + 1,
                !.recs = SubSeq(mem.chain, mem.server_head + 1, HealTop)]
  /\ UNCHANGED <<srv, backup, top, peer, mem, file, late, left, ever>>

apply_healing_response ==
  LET upto == call.from + Len(call.recs) - 1
  IN /\ call.kind = "heal" /\ call.answer = "stored"
     /\ mem' = acknowledge([mem EXCEPT !.last = call.gen], upto)
     /\ file' = [file EXCEPT !.rows = MarkAcked(@, mem.acked, upto), !.gen = call.gen]
     /\ call' = NoCall
     /\ UNCHANGED <<srv, backup, top, peer, late, left, ever>>

\* The server refused the healing request.
healing_refused ==
  /\ call.kind = "heal" /\ call.answer = "refused"
  /\ call' = NoCall
  /\ UNCHANGED <<srv, backup, top, peer, mem, file, late, left, ever>>

Spent == srv.gen - 1 + left

\* The caller gives up; a request not processed yet is lost or still under way.
Abandon ==
  /\ call' = NoCall
  /\ \/ UNCHANGED <<late, left>>
     \/ /\ ~Idle /\ call.answer = "none"
        /\ left < MaxLate /\ Spent < MaxFaults
        /\ late' = late \cup {call} /\ left' = left + 1

GiveUp ==
  /\ ~Idle /\ Abandon
  /\ UNCHANGED <<srv, backup, top, peer, mem, file, ever>>

Crash ==
  /\ mem' = Loaded(file) /\ Abandon
  /\ UNCHANGED <<srv, backup, top, peer, file, ever>>

(***************************************************************************)
(* The server                                                              *)
(***************************************************************************)

\* upload_op: already stored, refused, or stored.  allowed is the author check
\* of a suspended or expired device, which comes before the chain check.
Version(r, n) == r.recs[n - r.from + 1]

UploadTakes(r, n, allowed) ==
  IF n <= Len(srv.stored) THEN srv.stored[n] = Version(r, n)
  ELSE allowed /\ r.from <= Len(srv.stored) + 1 /\ Version(r, n) >= srv.epoch

Accepted(r, allowed) ==
  LET ends == {k \in 0..Len(r.recs) :
                 \A n \in r.from..r.from + k - 1 : UploadTakes(r, n, allowed)}
  IN CHOOSE k \in ends : \A j \in ends : j <= k

UploadVerdict(r, allowed) ==
  LET n == r.from + Accepted(r, allowed)
  IN IF Accepted(r, allowed) = Len(r.recs) THEN "stored"
     ELSE IF n <= Len(srv.stored) THEN "conflict"
     ELSE IF ~allowed \/ r.from > Len(srv.stored) + 1 THEN "refused"
     ELSE "stale"

StoreUpTo(r, n) ==
  LET new == SubSeq(r.recs, Len(srv.stored) - r.from + 2, n - r.from + 1)
  IN IF n < r.from \/ n <= Len(srv.stored) THEN srv ELSE [srv EXCEPT !.stored = @ \o new]

\* heal_in: the whole request or nothing, without the stale check.
HealTakes(r, allowed) ==
  /\ \A n \in r.from..r.from + Len(r.recs) - 1 :
       n <= Len(srv.stored) => srv.stored[n] = Version(r, n)
  /\ r.from <= Len(srv.stored) + 1
  /\ r.from + Len(r.recs) - 1 > Len(srv.stored) => allowed

Outcome(r, allowed) ==
  IF r.kind = "upload"
  THEN [ok |-> Accepted(r, allowed), answer |-> UploadVerdict(r, allowed)]
  ELSE IF HealTakes(r, allowed) THEN [ok |-> Len(r.recs), answer |-> "stored"]
  ELSE [ok |-> 0, answer |-> "refused"]

Store(r, allowed) ==
  LET upto == r.from + Outcome(r, allowed).ok - 1
  IN /\ srv' = StoreUpTo(r, upto)
     /\ ever' = ever \cup {<<n, srv'.stored[n]>> : n \in 1..Len(srv'.stored)}

serve_call(allowed) ==
  /\ ~Idle /\ call.answer = "none"
  /\ Store(call, allowed)
  /\ call' = [call EXCEPT !.answer = Outcome(call, allowed).answer,
                          !.ok = Outcome(call, allowed).ok, !.gen = srv.gen]
  /\ UNCHANGED <<backup, top, peer, mem, file, late, left>>

serve_late(r, allowed) ==
  /\ r \in late
  /\ Store(r, allowed)
  /\ late' = late \ {r}
  /\ UNCHANGED <<backup, top, peer, mem, file, call, left>>

\* Another device rotates the vault key.
rotate ==
  /\ srv.epoch = top /\ top < MaxEpoch
  /\ top' = top + 1 /\ srv' = [srv EXCEPT !.epoch = top + 1]
  /\ UNCHANGED <<backup, peer, mem, file, call, late, left, ever>>

take_backup ==
  /\ backup' = [stored |-> srv.stored, epoch |-> srv.epoch]
  /\ backup' # backup
  /\ UNCHANGED <<srv, top, peer, mem, file, call, late, left, ever>>

\* rizzy-vault restore, with the server stopped: no request survives it.
restore ==
  /\ srv.gen < MaxGen /\ Spent < MaxFaults
  /\ srv' = [stored |-> backup.stored, epoch |-> backup.epoch, gen |-> srv.gen + 1]
  /\ call' = NoCall /\ late' = {}
  /\ UNCHANGED <<backup, top, peer, mem, file, left, ever>>

\* The account is healed first: some device re-publishes the vault key of the
\* newest state it has, which need not be the last; no stored op is above it.
heal_account(e) ==
  /\ srv.epoch < e /\ e <= top
  /\ \A n \in 1..Len(srv.stored) : srv.stored[n] <= e
  /\ srv' = [srv EXCEPT !.epoch = e]
  /\ UNCHANGED <<backup, top, peer, mem, file, call, late, left, ever>>

\* The other device fetches the chain, and re-publishes what the server lost.
peer_fetch ==
  /\ IsStrictPrefix(peer, srv.stored)
  /\ peer' = srv.stored
  /\ UNCHANGED <<srv, backup, top, mem, file, call, late, left, ever>>

peer_heal ==
  /\ IsStrictPrefix(srv.stored, peer)
  /\ srv' = [srv EXCEPT !.stored = peer]
  /\ UNCHANGED <<backup, top, peer, mem, file, call, late, left, ever>>

Init ==
  /\ srv = [stored |-> <<>>, epoch |-> 0, gen |-> 1]
  /\ backup = [stored |-> <<>>, epoch |-> 0]
  /\ top = 0 /\ peer = <<>>
  /\ file = [rows |-> <<>>, gen |-> None, key |-> 0, alarm |-> FALSE]
  /\ mem = Loaded(file)
  /\ call = NoCall /\ late = {} /\ left = 0
  /\ ever = {}

Next ==
  \/ write_op \/ fetch \/ adopt_vault_key
  \/ upload_request \/ reissue_refused \/ apply_upload_response
  \/ healing_request \/ apply_healing_response \/ healing_refused
  \/ GiveUp \/ Crash
  \/ \E allowed \in BOOLEAN : serve_call(allowed)
  \/ \E r \in late, allowed \in BOOLEAN : serve_late(r, allowed)
  \/ rotate \/ take_backup \/ restore \/ peer_fetch \/ peer_heal
  \/ \E e \in Epochs : heal_account(e)

Spec == Init /\ [][Next]_vars

(***************************************************************************)
(* Properties                                                              *)
(***************************************************************************)

Chains == {c \in Seq(Epochs) : Len(c) <= MaxSeq}

OwnRow == [ver: Epochs, own: {"unsent", "sent", "acked"}, gen: 0..MaxGen]

Servers == [stored: Chains, epoch: Epochs, gen: Gens]

Files == [rows: Seq(OwnRow), gen: 0..MaxGen, key: Epochs, alarm: BOOLEAN]

Memories == [chain: Chains, key: Epochs, acked: 0..MaxSeq,
             unanswered: [Seqs -> 0..MaxGen], last: 0..MaxGen, fetched: BOOLEAN,
             server_head: 0..MaxSeq, behind: BOOLEAN, stale_from: 0..MaxSeq,
             answered: [Seqs -> 0..MaxGen]]

Requests == [kind: {"none", "upload", "heal"}, from: 0..MaxSeq, recs: Chains,
             answer: {"none", "stored", "stale", "conflict", "refused"},
             ok: 0..MaxSeq, gen: 0..MaxGen]

\* Every variable has its type.
TypeOK ==
  /\ srv \in Servers /\ backup \in [stored: Chains, epoch: Epochs]
  /\ top \in Epochs /\ peer \in Chains
  /\ mem \in Memories /\ file \in Files
  /\ mem.acked <= own_head(mem) /\ mem.stale_from <= own_head(mem)
  /\ call \in Requests /\ late \subseteq Requests /\ left \in 0..MaxLate

\* A request was processed after its caller gave up (or died with a restore).
Outlived == left > Cardinality(late)

\* heal.rs, awaits_republish: "no op is re-issued at a stored dot either way":
\* the device still holds each version the server ever stored, be it lost since,
\* so that no dot ever has two signed versions ("would fork the chain").  It
\* rests on a request being processed while its caller waits, or never.
NoReissueAtStoredDot ==
  ~Outlived => \A e \in ever : mem.chain[e[1]] = e[2]

\* The device never takes its own history for another copy's: no upload is
\* answered as a conflict, and the server never holds more of the chain than
\* the file (the alarm of ADR 0026 section 4 step 7), under the same condition.
NoFalseAlarm == ~Outlived => ~file.alarm

\* A load after a crash forgets nothing that matters: the same chain, the same
\* acknowledgements, and every op that may have been served still counts as
\* such.
LoadForgetsNothing ==
  LET again == Loaded(file)
  IN /\ again.chain = mem.chain
     /\ again.acked = mem.acked
     /\ \A n \in 1..own_head(mem) :
          may_have_been_served(mem, n) => may_have_been_served(again, n)

\* The file never reaches a state that a load refuses as corrupt: acknowledged
\* rows come first, and a row was sent only under a generation; nor a changeset
\* the floors refuse: a row is acknowledged only after it was sent.
FileLoads ==
  /\ \A n \in 1..Len(file.rows) :
       /\ file.rows[n].own = "acked" => \A k \in 1..n : file.rows[k].own = "acked"
       /\ file.rows[n].own = "sent" => file.rows[n].gen # None /\ file.gen # None
       /\ file.rows[n].own = "unsent" => n > Len(srv.stored)
  /\ (~Idle => \A n \in mem.acked + 1..call.from + Len(call.recs) - 1 :
                 file.rows[n].own = "sent")

\* The two ways out of a stale answer do not block each other: while an op waits
\* to be re-published, the healing request carries it.  After a second rotation
\* an op below it may have to be re-issued first.
HealingCarriesIt ==
  top < 2 /\ mem.fetched => \A n \in stale_republish(mem) : n <= HealTop

\* The log, which plans a re-issue from memory, and the floors, which check it
\* against the row (ADR 0026 section 4 step 6), agree on every op while the
\* server has not been restored.
ReissueIsAdmitted ==
  srv.gen = 1 /\ MayUpload => \A n \in reissue(mem) : reissue_admitted(n)

\* The file is good for a restart after every step: it loads, and the load
\* forgets nothing that memory knew of what was served.
RestartSafe == TypeOK /\ LoadForgetsNothing /\ FileLoads

\* The device has one history: no dot gets a second signed version, and the
\* device never takes its own history for another copy's.
OneHistory == NoReissueAtStoredDot /\ NoFalseAlarm
=============================================================================
