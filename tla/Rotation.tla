------------------------------ MODULE Rotation ------------------------------
(* A key rotation, from the command-line client to the vault's rows and back *)
(* to every other device: the commit that is persisted before it is sent,    *)
(* rebuilt on a conflict and settled by the next run of the program; the     *)
(* server's transaction that moves the account state, writes the grants and  *)
(* replaces the vault's item-key wraps; and the devices that follow.         *)
(*                                                                           *)
(* One key [e, n] (epoch, serial) stands for the account key and the vault   *)
(* key a rotation makes together. A device writes at most one op, named      *)
(* after it, on an item of its own, under a fresh item key wrapped by the    *)
(* vault key. A step of a device is one request, with all it does until the  *)
(* next one; the program may stop between any two.                           *)
EXTENDS Naturals, Sequences, FiniteSets

CONSTANTS Devices,      \* the devices that run the program
          Writers,      \* bound: those that edit, each once
          Newcomer,     \* a device enrolled on the way
          MaxKeys,      \* bound: rotations built
          MaxChanges,   \* bound: password changes and enrolments
          MaxStops,     \* bound: runs that stop half way
          MaxLate,      \* bound: commits that outlive the run that sent them
          MaxRebuilds   \* MAX_REBUILDS

ASSUME RotationConstants ==
    /\ Newcomer \notin Devices
    /\ Writers \subseteq Devices
    /\ {MaxKeys, MaxChanges, MaxStops, MaxLate, MaxRebuilds} \subseteq Nat

VARIABLES account, \* the account state the server holds
          committed, \* the keys of every state it held (history)
          vault,   \* the vault's rows: ops, wrap set, wraps the records carry
          grants,  \* account-key grants waiting for their devices
          disk,    \* what each device has committed to its file
          run,     \* the running program of each device
          late,    \* commits in flight whose sender no longer waits
          made,    \* keys made so far
          stops,   \* runs stopped half way
          lates    \* commits that outlived their run

vars == <<account, committed, vault, grants, disk, run, late, made, stops, lates>>
server == <<account, committed, vault, grants>>
budget == <<made, stops, lates>>

NoKey == [e |-> 0, n |-> 0]
FirstKey == [e |-> 1, n |-> 0]
Keys == [e : 0..(MaxKeys + 1), n : 0..MaxKeys]
Members == Devices \cup {Newcomer}
States == [seq : Nat, key : Keys, pw : 0..MaxChanges, set : SUBSET Members]
NoState == [seq |-> 0, key |-> NoKey, pw |-> 0, set |-> {}]
FirstState == [seq |-> 1, key |-> FirstKey, pw |-> 0, set |-> Devices]

(* A commit: its sender, the state it was built on, the state it offers, the *)
(* ops below its cursor, and the wrap-set rows it re-wraps and drops.        *)
NoBody == [by |-> Newcomer, base |-> NoState, state |-> NoState,
           cursor |-> {}, rewrap |-> {}, drop |-> {}]
Bodies == [by : Members, base : States \cup {NoState}, state : States \cup {NoState},
           cursor : SUBSET Devices, rewrap : SUBSET Devices, drop : SUBSET Devices]

Idle == [pc |-> "off", key |-> NoKey, pw |-> 0, view |-> NoState, ops |-> {},
         rows |-> [o \in Devices |-> NoKey], body |-> NoBody, token |-> 0,
         rebuilds |-> 0, settling |-> FALSE, ack |-> FALSE, stale |-> FALSE]

Pcs == {"off", "open", "grants", "catch_up", "password", "adopt", "ack", "fetch",
        "upload", "fetch_again", "synced", "sent", "refetch", "rebuild", "refused",
        "probe", "probe_again", "reauth", "promote", "settle_again"}

----------------------------------------------------------------------------
(* The file of a device.                                                     *)

Queued(d) == disk[d].own.key # NoKey /\ ~disk[d].own.acked

(* VaultSync::restore learns an item key from a stored wrap row or from the  *)
(* wrap an op carries, each only under the vault key of the file.            *)
Opens(d, o) == \/ o \in disk[d].wraps
               \/ o = d /\ disk[d].own.key = disk[d].key

(* An own op is put back only if every op its causal context names is; a     *)
(* foreign op whose body stays closed is not delivered.                      *)
Loads(d) == \A o \in disk[d].own.ctx : Opens(d, o)

Cursor(d) == run[d].ops \cup (IF disk[d].own.key # NoKey THEN {d} ELSE {})

----------------------------------------------------------------------------
(* The grants of device d, opened one epoch after the other from key k.      *)
KeyAfter(d, k, epoch) ==
    LET at[e \in k.e..epoch] ==
          IF e = k.e THEN k
          ELSE LET found == {g \in grants : g.to = d /\ g.key.e = e /\ g.from = at[e - 1]}
               IN  IF found = {} THEN NoKey ELSE (CHOOSE g \in found : TRUE).key
    IN  at[epoch]

NoGrantAt(d, k, epoch) ==
    \E e \in (k.e + 1)..epoch : ~\E g \in grants : g.to = d /\ g.key.e = e

----------------------------------------------------------------------------
(* The server: commit_change, with the vault's half of it (apply_rotation).  *)

Covered(b) == {o \in Devices : vault.wraps[o] # NoKey} \subseteq b.rewrap \cup b.drop
Known(b) == b.rewrap \cup b.drop \subseteq {o \in Devices : vault.wraps[o] # NoKey}

(* The answer to commit b over a session opened at password epoch tok: a     *)
(* password change ended the sessions before it.                             *)
Answer(b, tok) ==
    IF tok # account.pw THEN "unauthorized"
    ELSE IF b.state = account THEN "ok"
    ELSE IF b.state.seq # account.seq + 1 THEN "state_conflict"
    ELSE IF ~Known(b) THEN "invalid"
    ELSE IF ~Covered(b) \/ b.cursor # vault.ops THEN "state_conflict"
    ELSE "ok"

(* Mutant of WriteVault: clear_record_wraps forgotten.                       *)
WriteVaultKeepsRecordWraps(b) ==
    [vault EXCEPT
       !.wraps = [o \in Devices |-> IF o \in b.rewrap THEN b.state.key
                                    ELSE IF o \in b.drop THEN NoKey ELSE @[o]]]

(* write_vault: rows re-wrapped or deleted, the wraps of the records cleared.*)
WriteVault(b) ==
    [vault EXCEPT
       !.wraps = [o \in Devices |-> IF o \in b.rewrap THEN b.state.key
                                    ELSE IF o \in b.drop THEN NoKey ELSE @[o]],
       !.carried = [o \in Devices |-> NoKey]]

(* One transaction: nothing but an applied commit that is no repeat writes.  *)
Commit(b, tok) ==
    IF Answer(b, tok) = "ok" /\ b.state # account
    THEN /\ account' = b.state
         /\ committed' = committed \cup {b.state.key}
         /\ grants' = grants \cup {[to |-> r, from |-> b.base.key, key |-> b.state.key] :
                                     r \in b.state.set \ {b.by}}
         /\ vault' = WriteVault(b)
    ELSE UNCHANGED server

----------------------------------------------------------------------------
(* The client's steps.                                                       *)

Goes(d, r) == run' = [run EXCEPT ![d] = r]
Ends(d) == Goes(d, Idle)

(* After the account answer is adopted: the upload that was answered         *)
(* stale_epoch goes on, a run that just went online starts its sync.         *)
Back(r) == [r EXCEPT !.view = NoState, !.rows = Idle.rows, !.settling = FALSE, !.ack = FALSE,
                     !.body = NoBody, !.token = 0,
                     !.pc = IF r.stale THEN "upload" ELSE "fetch"]

(* open: the file is unlocked and loaded.                                    *)
Start(d) ==
    /\ run[d].pc = "off"
    /\ Loads(d)
    /\ Goes(d, [Idle EXCEPT !.pc = "open", !.key = disk[d].key, !.pw = disk[d].pw,
                            !.ops = {o \in disk[d].ops : Opens(d, o)}])
    /\ UNCHANGED <<server, disk, late, budget>>

(* An edit made before the run goes online: the op is committed as written.  *)
Write(d) ==
    /\ d \in Writers
    /\ run[d].pc = "open"
    /\ disk[d].own.key = NoKey
    /\ disk' = [disk EXCEPT ![d].own = [key |-> run[d].key, ctx |-> run[d].ops, acked |-> FALSE],
                            ![d].ops = @ \cup {d}]
    /\ Goes(d, [run[d] EXCEPT !.ops = @ \cup {d}])
    /\ UNCHANGED <<server, late, budget>>

(* The file after answer v is adopted by run r, with the rows of a Fetch.    *)
Adopted(d, r, wraps, ops) ==
    [disk[d] EXCEPT !.key = r.key, !.pw = r.pw, !.pending = NoBody,
                    !.wraps = wraps, !.ops = @ \cup ops]

(* apply_view on answer v with the keys of run r: rotated elsewhere (grants),*)
(* the password changed elsewhere, or adopted, at once or with a Fetch when  *)
(* the vault key moves. Any other key is refused and the run ends.           *)
ApplyView(d, r, v) ==
    LET seen == [r EXCEPT !.view = v] IN
    CASE r.key.e < v.key.e ->
           /\ Goes(d, [seen EXCEPT !.pc = "grants"])
           /\ UNCHANGED disk
      [] r.key = v.key /\ v.pw > r.pw ->
           /\ Goes(d, [seen EXCEPT !.pc = "password"])
           /\ UNCHANGED disk
      [] r.key = v.key /\ v.pw <= r.pw /\ r.key # disk[d].key ->
           /\ Goes(d, [seen EXCEPT !.pc = "adopt"])
           /\ UNCHANGED disk
      [] r.key = v.key /\ v.pw <= r.pw /\ r.key = disk[d].key ->
           /\ disk' = [disk EXCEPT ![d] = Adopted(d, seen, disk[d].wraps, {})]
           /\ Goes(d, Back(r))
      [] OTHER -> Ends(d) /\ UNCHANGED disk

(* refresh, without a pending commit.                                        *)
Refresh(d) ==
    /\ run[d].pc = "open"
    /\ disk[d].pending = NoBody
    /\ ApplyView(d, run[d], account)
    /\ UNCHANGED <<server, late, budget>>

(* apply_device_grants: the chain of grants up to the state's key, or none   *)
(* for some epoch (NoDeviceGrant), or one that does not open.                *)
OpenGrants(d) ==
    /\ run[d].pc = "grants"
    /\ LET r == run[d]
           v == r.view
       IN  CASE NoGrantAt(d, r.key, v.key.e) -> Goes(d, [r EXCEPT !.pc = "catch_up"])
             [] ~NoGrantAt(d, r.key, v.key.e) /\ KeyAfter(d, r.key, v.key.e) = v.key ->
                  Goes(d, [r EXCEPT !.key = v.key, !.ack = TRUE,
                                    !.pc = IF v.pw > r.pw THEN "password" ELSE "adopt"])
             [] OTHER -> Ends(d)
    /\ UNCHANGED <<server, disk, late, budget>>

(* catch_up: a login with the password this run was unlocked with.           *)
CatchUp(d) ==
    /\ run[d].pc = "catch_up"
    /\ IF run[d].pw = account.pw /\ account.key = run[d].view.key
       THEN Goes(d, [run[d] EXCEPT !.key = account.key, !.pc = "adopt"])
       ELSE Ends(d)
    /\ UNCHANGED <<server, disk, late, budget>>

(* follow_credential_change: a login with the new password, which the user   *)
(* types; the answer is then adopted with the record under it.               *)
FollowPassword(d) ==
    /\ run[d].pc = "password"
    /\ LET r == [run[d] EXCEPT !.pw = account.pw]
       IN  IF r.key = disk[d].key
           THEN /\ disk' = [disk EXCEPT ![d] = Adopted(d, r, disk[d].wraps, {})]
                /\ Goes(d, Back(r))
           ELSE UNCHANGED disk /\ Goes(d, [r EXCEPT !.pc = "adopt"])
    /\ UNCHANGED <<server, late, budget>>

(* The rows a Fetch brings a run: every stored row as served, and the ops it *)
(* opens with a key it held or one a served row gives under its vault key.   *)
Fetched(r) ==
    [r EXCEPT !.rows = vault.wraps,
              !.ops = @ \cup {o \in vault.ops : vault.wraps[o] = r.key}]

(* wrap_rows: of the served rows only those at the epoch of the held key.    *)
WrapRows(r) == {o \in Devices : vault.wraps[o].e = r.key.e}

(* adopt, when the vault key moved: the Fetch at the new epoch and the new   *)
(* record in one transaction; the rows below that epoch are deleted.         *)
Adopt(d) ==
    /\ run[d].pc = "adopt"
    /\ LET r == Fetched(run[d])
       IN  /\ disk' = [disk EXCEPT ![d] = Adopted(d, r, WrapRows(r), r.ops)]
           /\ Goes(d, IF r.ack THEN [r EXCEPT !.pc = "ack"] ELSE Back(r))
    /\ UNCHANGED <<server, late, budget>>

(* The grants used are acknowledged only once the new record is on disk.     *)
AckGrants(d) ==
    /\ run[d].pc = "ack"
    /\ grants' = {g \in grants : ~(g.to = d /\ g.key.e <= run[d].view.key.e)}
    /\ Goes(d, Back(run[d]))
    /\ UNCHANGED <<account, committed, vault, disk, late, budget>>

(* fetch: a complete Fetch, its rows committed; the sync's second one only   *)
(* repeats the first when nothing is uploaded between them.                  *)
FetchRows(d, pc) ==
    LET r == Fetched(run[d])
    IN  /\ disk' = [disk EXCEPT ![d].wraps = @ \cup WrapRows(r), ![d].ops = @ \cup r.ops]
        /\ Goes(d, [r EXCEPT !.pc = pc])

Fetch(d) ==
    /\ run[d].pc \in {"fetch", "fetch_again"}
    /\ FetchRows(d, IF run[d].pc = "fetch" /\ Queued(d) THEN "upload" ELSE "synced")
    /\ UNCHANGED <<server, late, budget>>

(* upload: the op is stored with its wrap, unless the vault moved on.        *)
Upload(d) ==
    /\ run[d].pc = "upload"
    /\ ~run[d].stale
    /\ IF disk[d].own.key.e >= account.key.e
       THEN /\ vault' = [vault EXCEPT !.ops = @ \cup {d}, !.wraps[d] = disk[d].own.key,
                                      !.carried[d] = disk[d].own.key]
            /\ disk' = [disk EXCEPT ![d].own.acked = TRUE]
            /\ Goes(d, [run[d] EXCEPT !.pc = "fetch_again"])
       ELSE /\ Goes(d, [run[d] EXCEPT !.pc = "open", !.stale = TRUE])
            /\ UNCHANGED <<vault, disk>>
    /\ UNCHANGED <<account, committed, grants, late, budget>>

(* reissue_stale: the op again, under a fresh item key at the new epoch;     *)
(* its data is the body this run opened, or the run ends (Internal).         *)
Reissue(d) ==
    /\ run[d].pc = "upload"
    /\ run[d].stale
    /\ IF d \in run[d].ops /\ run[d].key.e > disk[d].own.key.e
       THEN /\ disk' = [disk EXCEPT ![d].own.key = run[d].key]
            /\ Goes(d, [run[d] EXCEPT !.stale = FALSE])
       ELSE Ends(d) /\ UNCHANGED disk
    /\ UNCHANGED <<server, late, budget>>

----------------------------------------------------------------------------
(* A rotation.                                                               *)

(* start_rotation and rotation_half: the new state on the re-authenticated   *)
(* one; every served row that opens is re-wrapped and the others dropped.    *)
Built(d, r, base, key) ==
    [by |-> d, base |-> base,
     state |-> [base EXCEPT !.seq = @ + 1, !.key = key],
     cursor |-> Cursor(d),
     rewrap |-> {o \in Devices : r.rows[o] = r.key},
     drop |-> {o \in Devices : r.rows[o] \notin {NoKey, r.key}}]

(* persist_rotation, then the request.                                       *)
Sends(d, r, b) ==
    /\ disk' = [disk EXCEPT ![d].pending = b]
    /\ Goes(d, [r EXCEPT !.pc = "sent", !.body = b, !.rows = Idle.rows])

BeginRotation(d) ==
    /\ run[d].pc = "synced"
    /\ made < MaxKeys
    /\ run[d].pw = account.pw
    /\ run[d].key = account.key
    /\ made' = made + 1
    /\ LET key == [e |-> account.key.e + 1, n |-> made + 1]
       IN  Sends(d, [run[d] EXCEPT !.token = account.pw], Built(d, run[d], account, key))
    /\ UNCHANGED <<server, late, stops, lates>>

(* Mutant of Finishes: the finalising transaction without the wrap rows.     *)
FinishesWithoutWraps(d) ==
    LET b == run[d].body IN
    /\ disk' = [disk EXCEPT ![d] = [@ EXCEPT !.key = b.state.key, !.pending = NoBody,
                                             !.wraps = {}]]
    /\ Goes(d, [Idle EXCEPT !.pc = "open", !.key = b.state.key, !.pw = run[d].pw,
                            !.ops = run[d].ops])

(* finish_rotation: the pending keys become the device's, with the state and *)
(* the re-wrapped rows, in one transaction; then everything is synced again. *)
Finishes(d) ==
    LET b == run[d].body IN
    /\ disk' = [disk EXCEPT ![d] = [@ EXCEPT !.key = b.state.key, !.pending = NoBody,
                                             !.wraps = b.rewrap]]
    /\ Goes(d, [Idle EXCEPT !.pc = "open", !.key = b.state.key, !.pw = run[d].pw,
                            !.ops = run[d].ops])

(* abandon_pending, and the run ends with the error.                         *)
Abandons(d) ==
    /\ disk' = [disk EXCEPT ![d].pending = NoBody]
    /\ Ends(d)

(* The answer a to a commit: finish, retry rule, or one more look; a run     *)
(* that settles an earlier rotation reads the account state either way.      *)
Answered(d, a) ==
    IF run[d].settling
    THEN /\ Goes(d, [run[d] EXCEPT !.pc = IF a = "ok" THEN "promote" ELSE "settle_again"])
         /\ UNCHANGED disk
    ELSE CASE a = "ok" -> Finishes(d)
           [] a = "state_conflict" -> Goes(d, [run[d] EXCEPT !.pc = "refetch"]) /\ UNCHANGED disk
           [] OTHER -> Goes(d, [run[d] EXCEPT !.pc = "refused"]) /\ UNCHANGED disk

CommitAnswered(d) ==
    /\ run[d].pc = "sent"
    /\ Commit(run[d].body, run[d].token)
    /\ Answered(d, Answer(run[d].body, run[d].token))
    /\ UNCHANGED <<late, budget>>

(* The OPAQUE session ran out before the commit arrived, and with it those   *)
(* the device opened earlier.                                                *)
SessionExpired(d) ==
    /\ run[d].pc = "sent"
    /\ Answered(d, "unauthorized")
    /\ late' = {m \in late : m.body.by # d}
    /\ UNCHANGED <<server, budget>>

(* The retry rule: a complete Fetch, then the state again.                   *)
Refetch(d) ==
    /\ run[d].pc = "refetch"
    /\ FetchRows(d, "rebuild")
    /\ UNCHANGED <<server, late, budget>>

(* Whether the server holds the commit's state, byte for byte.               *)
Committed(b) == b.state = account

MayRebuild(r) == r.rebuilds < MaxRebuilds

(* on_state_conflict: committed after all; only the position or the device   *)
(* set moved (rebuilt with the same keys and sent again); or given up.       *)
Rebuild(d) ==
    /\ run[d].pc = "rebuild"
    /\ LET r == run[d]
           b == r.body
           reapply == [account EXCEPT !.seq = b.base.seq, !.set = b.base.set] = b.base
       IN  CASE Committed(b) -> Finishes(d)
             [] ~Committed(b) /\ reapply /\ MayRebuild(r) ->
                  Sends(d, [r EXCEPT !.rebuilds = @ + 1], Built(d, r, account, b.state.key))
             [] OTHER -> Abandons(d)
    /\ UNCHANGED <<server, late, budget>>

(* commit_landed, after a refusal.                                           *)
Refused(d) ==
    /\ run[d].pc = "refused"
    /\ IF Committed(run[d].body) THEN Finishes(d) ELSE Abandons(d)
    /\ UNCHANGED <<server, late, budget>>

----------------------------------------------------------------------------
(* settle_pending: a rotation found at start.                                *)

Promoted(r) == [r EXCEPT !.key = r.body.state.key]

(* Mutant of Landed: only the commit's very state counts.                    *)
LandedSameState(b, v) == v = b.state

(* pending_applied, as far as the account answer v tells; an account key     *)
(* above the pending one leaves it to the grants.                            *)
Landed(b, v) == v = b.state \/ v.key = b.state.key
MovedOn(b, v) == v.key.e > b.state.key.e

(* drop_unsettled, then the refresh.                                         *)
DropUnsettled(d) ==
    /\ disk' = [disk EXCEPT ![d].pending = NoBody]
    /\ Goes(d, [run[d] EXCEPT !.pc = "open", !.body = NoBody, !.settling = FALSE,
                              !.view = NoState, !.token = 0])

Settle(d) ==
    /\ \/ run[d].pc = "open" /\ disk[d].pending # NoBody
       \/ run[d].pc = "settle_again"
    /\ LET again == run[d].pc = "settle_again"
           r == [run[d] EXCEPT !.body = disk[d].pending, !.settling = TRUE]
       IN  CASE Landed(r.body, account) -> ApplyView(d, Promoted(r), account)
             [] ~Landed(r.body, account) /\ MovedOn(r.body, account) ->
                  /\ Goes(d, [r EXCEPT !.pc = IF again THEN "probe_again" ELSE "probe",
                                       !.view = account])
                  /\ UNCHANGED disk
             [] OTHER -> IF again THEN DropUnsettled(d)
                         ELSE Goes(d, [r EXCEPT !.pc = "reauth"]) /\ UNCHANGED disk
    /\ UNCHANGED <<server, late, budget>>

(* A rotator gets no grant for its own rotation; the loser of a race does.   *)
Outrun(d, b) == \E g \in grants : g.to = d /\ g.key.e = b.state.key.e

Probe(d) ==
    /\ run[d].pc \in {"probe", "probe_again"}
    /\ LET r == run[d] IN
       IF ~Outrun(d, r.body)
       THEN ApplyView(d, Promoted(r), r.view)
       ELSE IF r.pc = "probe_again" THEN DropUnsettled(d)
            ELSE Goes(d, [r EXCEPT !.pc = "reauth", !.view = NoState]) /\ UNCHANGED disk
    /\ UNCHANGED <<server, late, budget>>

(* Mutant of Reauth: the rotation is kept when the password does not log in. *)
ReauthKeeps(d) ==
    /\ run[d].pc = "reauth"
    /\ IF run[d].pw = account.pw
       THEN Goes(d, [run[d] EXCEPT !.pc = "sent", !.token = account.pw])
       ELSE Ends(d)
    /\ UNCHANGED <<server, disk, late, budget>>

(* reauth_for_settling: a login with the password of the run, then the same  *)
(* bytes again; a password that no longer logs in drops the rotation.        *)
Reauth(d) ==
    /\ run[d].pc = "reauth"
    /\ IF run[d].pw = account.pw
       THEN Goes(d, [run[d] EXCEPT !.pc = "sent", !.token = account.pw]) /\ UNCHANGED disk
       ELSE DropUnsettled(d)
    /\ UNCHANGED <<server, late, budget>>

(* The resent commit was taken: the answer is read and adopted.              *)
Promote(d) ==
    /\ run[d].pc = "promote"
    /\ ApplyView(d, Promoted(run[d]), account)
    /\ UNCHANGED <<server, late, budget>>

----------------------------------------------------------------------------
(* What else happens.                                                        *)

(* The command is done.                                                      *)
End(d) ==
    /\ run[d].pc = "synced"
    /\ Ends(d)
    /\ UNCHANGED <<server, disk, late, budget>>

(* The program stops: a crash, a lost connection, an answer that says        *)
(* nothing. A commit it waited for is lost or still arrives.                 *)
Stop(d) ==
    /\ run[d].pc \notin {"off", "synced"}
    /\ stops < MaxStops
    /\ stops' = stops + 1
    /\ Ends(d)
    /\ \/ UNCHANGED <<late, lates>>
       \/ /\ run[d].pc = "sent"
          /\ lates < MaxLate
          /\ lates' = lates + 1
          /\ late' = late \cup {[body |-> run[d].body, token |-> run[d].token]}
    /\ UNCHANGED <<server, disk, made>>

Arrives(m) ==
    /\ m \in late
    /\ Commit(m.body, m.token)
    /\ late' = late \ {m}
    /\ UNCHANGED <<disk, run, budget>>

Changes == account.pw + Cardinality(account.set \ Devices)

(* Other account changes, each one commit: a password changed on a device    *)
(* that has synced, and a new device enrolled.                               *)
ChangePassword(d) ==
    /\ run[d].pc = "synced"
    /\ Changes < MaxChanges
    /\ run[d].key = account.key
    /\ run[d].pw = account.pw
    /\ account' = [account EXCEPT !.seq = @ + 1, !.pw = @ + 1]
    /\ disk' = [disk EXCEPT ![d].pw = account.pw + 1]
    /\ Ends(d)
    /\ UNCHANGED <<committed, vault, grants, late, budget>>

Enrol ==
    /\ Newcomer \notin account.set
    /\ Changes < MaxChanges
    /\ account' = [account EXCEPT !.seq = @ + 1, !.set = @ \cup {Newcomer}]
    /\ UNCHANGED <<committed, vault, grants, disk, run, late, budget>>

----------------------------------------------------------------------------
Init ==
    /\ account = FirstState
    /\ committed = {FirstKey}
    /\ vault = [ops |-> {}, wraps |-> [o \in Devices |-> NoKey],
                carried |-> [o \in Devices |-> NoKey]]
    /\ grants = {}
    /\ disk = [d \in Devices |->
                 [key |-> FirstKey, pw |-> 0, pending |-> NoBody,
                  wraps |-> {}, ops |-> {},
                  own |-> [key |-> NoKey, ctx |-> {}, acked |-> FALSE]]]
    /\ run = [d \in Devices |-> Idle]
    /\ late = {}
    /\ made = 0 /\ stops = 0 /\ lates = 0

(* A step the program takes once it runs and its requests are answered.      *)
Works(d) ==
    \/ Start(d) \/ Refresh(d) \/ OpenGrants(d) \/ CatchUp(d) \/ FollowPassword(d)
    \/ Adopt(d) \/ AckGrants(d) \/ Fetch(d) \/ Upload(d) \/ Reissue(d)
    \/ CommitAnswered(d) \/ Refetch(d) \/ Rebuild(d) \/ Refused(d)
    \/ Settle(d) \/ Probe(d) \/ Reauth(d) \/ Promote(d) \/ End(d)

(* What its user, or the world, may do to it.                                *)
Happens(d) ==
    \/ Write(d) \/ BeginRotation(d) \/ ChangePassword(d) \/ SessionExpired(d) \/ Stop(d)

Next ==
    \/ \E d \in Devices : Works(d) \/ Happens(d)
    \/ \E m \in late : Arrives(m)
    \/ Enrol

Spec == Init /\ [][Next]_vars

(* Users keep running the program, and a request that is not lost arrives.   *)
FairSpec == /\ Spec
            /\ \A d \in Devices : WF_vars(Works(d))
            /\ WF_vars(\E m \in late : Arrives(m))

----------------------------------------------------------------------------
(* The state of the model is always of these types.                          *)
Vaults == [ops : SUBSET Devices, wraps : [Devices -> Keys], carried : [Devices -> Keys]]
Files == [key : Keys, pw : 0..MaxChanges, pending : Bodies,
          wraps : SUBSET Devices, ops : SUBSET Devices,
          own : [key : Keys, ctx : SUBSET Devices, acked : BOOLEAN]]
Runs == [pc : Pcs, key : Keys, pw : 0..MaxChanges, view : States \cup {NoState},
         ops : SUBSET Devices, rows : [Devices -> Keys], body : Bodies,
         token : 0..MaxChanges, rebuilds : 0..MaxRebuilds, settling : BOOLEAN,
         ack : BOOLEAN, stale : BOOLEAN]
TypeOK ==
    /\ account \in States
    /\ committed \subseteq Keys
    /\ vault \in Vaults
    /\ grants \subseteq [to : Members, from : Keys, key : Keys]
    /\ disk \in [Devices -> Files]
    /\ run \in [Devices -> Runs]
    /\ late \subseteq [body : Bodies, token : 0..MaxChanges]
    /\ made \in 0..MaxKeys /\ stops \in 0..MaxStops /\ lates \in 0..MaxLate

(* A rotation never loses an item and never leaves a superseded wrap: every  *)
(* op the vault stores has a wrap-set row under the account's current vault  *)
(* key, and a wrap a record still carries is under it too, whatever uploads  *)
(* and rotations raced (check_wraps, check_cutoff, write_vault).             *)
WrapSetCurrent ==
    \A o \in vault.ops : /\ vault.wraps[o] = account.key
                         /\ vault.carried[o] \in {NoKey, account.key}

(* A device only ever holds a key of a state the server committed: the keys  *)
(* of a rotation that lost a race are never promoted (pending_applied,       *)
(* commit_landed, on_state_conflict).                                        *)
KeysCommitted == \A d \in Devices : disk[d].key \in committed

(* Device d can compute the account's key from what its file and the server's*)
(* grants hold: from its key, or from that of its pending rotation.          *)
Reaches(d) ==
    \E k \in {disk[d].key, disk[d].pending.state.key} \ {NoKey} :
        k.e <= account.key.e /\ KeyAfter(d, k, account.key.e) = account.key

(* No device drops the key it needs: the pending record, the grants and their*)
(* acknowledgement always leave a way to the account's key, as long as no    *)
(* commit outlived its run, or the password stayed the same (send_rotation,  *)
(* settle_pending, AckGrants).                                               *)
KeyKept == lates = 0 \/ account.pw = 0 => \A d \in Devices : Reaches(d)

(* The same whatever happens, counting the login with the password the file  *)
(* unlocks with: what the module docs of the client promise.                 *)
NoDeviceStranded == \A d \in Devices : Reaches(d) \/ disk[d].pw = account.pw

(* A device that holds the account's current key opens every op in its file, *)
(* its own unsent one aside: the wrap rows move with the key (adopt,         *)
(* finish_rotation, Write::Wraps).                                           *)
CacheOpensAtCurrent ==
    \A d \in Devices : disk[d].key = account.key =>
        \A o \in disk[d].ops : Opens(d, o) \/ (o = d /\ Queued(d))

(* An op waiting for its upload in the file of a run that has stopped opens  *)
(* when the next run loads it, so that it can be re-issued once a rotation   *)
(* made it stale.                                                            *)
EditSurvives == \A d \in Devices : run[d].pc = "off" /\ Queued(d) => Opens(d, d)

(* Once rotations, password changes and stops end, every device settles its  *)
(* pending rotation and reaches the account's key, unless it was stranded or *)
(* its file no longer loads.                                                 *)
Settled(d) == disk[d].key = account.key /\ disk[d].pending = NoBody
EveryoneFollows ==
    \A d \in Devices :
        <>[](Settled(d) \/ ~Loads(d) \/ ~(Reaches(d) \/ disk[d].pw = account.pw))

(* Through conflicts, rebuilds, stops and late commits a device holds only   *)
(* keys of the account and always a way to the current one.                  *)
KeysSafe == TypeOK /\ KeysCommitted /\ KeyKept
=============================================================================
