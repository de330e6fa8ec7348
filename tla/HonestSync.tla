----------------------------- MODULE HonestSync -----------------------------
(***************************************************************************)
(* VaultSync against an honest server, to ask what the device reaches: a   *)
(* page is, device by device, the records above the cursor in chain order, *)
(* up to MaxPage of them (rizzy-domain-vault/src/fetch.rs), each with its  *)
(* body unless the worker deleted it, and the covers of its bodiless       *)
(* headers.                                                                *)
(* Item-key wraps come with the page, before its records; a wrap may reach *)
(* the server late, and the worker deletes bodies at any time between two  *)
(* pages.  The merge refuses nothing an honest author signed.              *)
(***************************************************************************)
EXTENDS VaultSync

CONSTANTS Compactable,    \* the ops whose body the worker comes to delete
          Rank            \* the order of the device ids

ASSUME CompactableAssumption ==
  /\ Compactable \subseteq CoveredBy(Snapshots)
  /\ Unopenable \subseteq Compactable
  /\ Rank \in [Devices -> Nat]

VARIABLE compacted        \* the ops whose body is deleted

Step(A) == A /\ UNCHANGED compacted

Missing == {h \in History : h.seq > cursor_entry(h.dev)}

InThePage == {r.h : r \in page}

\* page_ops: one device after the other, each from its cursor entry on.
Before(g, h) == Rank[g.dev] < Rank[h.dev] \/ (g.dev = h.dev /\ g.seq < h.seq)

serve(h) ==
  /\ h \in Missing
  /\ \A g \in Missing : Before(g, h) => g \in InThePage
  /\ \E body \in Bodies :
       /\ body = "bodiless" <=> h \in compacted
       /\ body = "rejected" => h \in Unopenable /\ h.item \in keys
       /\ verify_op(h, body)

\* The page's covers: those of its bodiless headers.
PageCovers == {c \in Snapshots : InThePage \cap compacted \cap CoveredBy({c}) # {}}

PageComplete ==
  /\ Missing \subseteq InThePage \/ Cardinality(page) = MaxPage
  /\ \A c \in PageCovers : c.item \in keys => c \in served

EndOfPage == PageComplete /\ retry_waiting

wrap_arrives(i) == page = {} /\ learn_wrap(i)

\* compact_item of the server's worker, between two pages.
delete_body(h) ==
  /\ phase = "idle" /\ h \in Compactable \ compacted
  /\ compacted' = compacted \cup {h}
  /\ UNCHANGED vars

Cycle ==
  \/ BeginFetch
  \/ \E h \in History : serve(h)
  \/ \E c \in PageCovers : verify_cover(c)
  \/ EndOfPage
  \/ plan_covers
  \/ \E c \in Snapshots : absorb_snapshot(c)
  \/ commit
  \/ deliver_covered
  \/ \E h \in History : deliver_frontier(h)
  \/ NextRound
  \/ EndFetch

HonestInit == Init /\ compacted = {}

HonestNext ==
  \/ Step(Cycle)
  \/ \E i \in Items : Step(wrap_arrives(i))
  \/ \E h \in History : delete_body(h)

hvars == <<vars, compacted>>

\* The device keeps fetching, every wrap reaches the server in the end, and the
\* worker gets to every body it may delete.
Fairness ==
  /\ WF_hvars(Step(Cycle))
  /\ \A i \in Items : SF_hvars(Step(wrap_arrives(i)))
  /\ \A h \in History : SF_hvars(delete_body(h))

HonestSpec == HonestInit /\ [][HonestNext]_hvars /\ Fairness

\* Everything the account wrote is settled on this device in the end, whatever
\* order pages, late wraps and compaction come in; in particular a body that
\* failed after it waited holds its chain back only until a cover arrives
\* (reading 8: "the later links of the chain wait until a cover or a verified
\* body settles it").
Converges == <>[](\A h \in History : Accepted(h) /\ is_settled(h))
=============================================================================
