-------------------------- MODULE AppendOnlyVault --------------------------
(***************************************************************************)
(* What the record store of a vault promises the devices of its account:   *)
(* each device has one chain of ops that grows only at its end and only    *)
(* while the account lets the device write, a revocation is final, and the *)
(* content of a stored op can always be read, from its body or from a      *)
(* snapshot that vouches for it, whatever the server deletes.  VaultStore  *)
(* implements it.                                                          *)
(***************************************************************************)
EXTENDS Naturals

CONSTANTS Devices

VARIABLES ops,            \* the ops of the vault
          readable,       \* the ops whose content the server still has
          status,         \* whether each device may write
          cutoff          \* the last op of a revoked device's chain

Init ==
  /\ ops = {} /\ readable = {}
  /\ status = [d \in Devices |-> "active"]
  /\ cutoff = [d \in Devices |-> 0]

MayAppend(o) ==
  \/ status[o.dev] = "active"
  \/ status[o.dev] = "revoked" /\ o.seq <= cutoff[o.dev]

\* o stands at the end of its device's chain in S, or only o's successors
\* follow it.
Links(S, o) ==
  /\ \A p \in S : p.dev = o.dev /\ p.seq = o.seq => p = o
  /\ \A p \in S : p.dev = o.dev /\ p.seq < o.seq => p.seq <= o.prev
  /\ o.prev = 0 \/ \E p \in S : p.dev = o.dev /\ p.seq = o.prev

Append ==
  /\ ops \subseteq ops'
  /\ \A o \in ops' \ ops :
       /\ MayAppend(o)
       /\ Links(ops', o)
       /\ \A p \in ops : p.dev = o.dev => p.seq < o.seq
  /\ readable' = readable \cup (ops' \ ops)
  /\ UNCHANGED <<status, cutoff>>

Suspend(d) ==
  /\ status[d] = "active"
  /\ status' = [status EXCEPT ![d] = "suspended"]
  /\ UNCHANGED <<ops, readable, cutoff>>

Lift(d) ==
  /\ status[d] = "suspended"
  /\ status' = [status EXCEPT ![d] = "active"]
  /\ UNCHANGED <<ops, readable, cutoff>>

Revoke(d) ==
  /\ status[d] # "revoked"
  /\ status' = [status EXCEPT ![d] = "revoked"]
  /\ \A o \in ops : o.dev = d => o.seq <= cutoff'[d]
  /\ \A e \in Devices \ {d} : cutoff'[e] = cutoff[e]
  /\ UNCHANGED <<ops, readable>>

Next == Append \/ \E d \in Devices : Suspend(d) \/ Lift(d) \/ Revoke(d)

vars == <<ops, readable, status, cutoff>>

Spec == Init /\ [][Next]_vars
=============================================================================
