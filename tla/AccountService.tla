--------------------------- MODULE AccountService ---------------------------
(***************************************************************************)
(* One account on the server (rizzy-domain-auth): the OPAQUE record, the   *)
(* signed account-state, the recovery row, the device certificates, the    *)
(* sessions, and what a restore of a backup and the healing after it do to *)
(* them.                                                                   *)
(*                                                                         *)
(* Every flow is one transaction under the account lock, so one action.    *)
(* What runs over several requests (a login, a device authentication, a    *)
(* recovery, a healing) is several actions, and anything can happen        *)
(* between them.  Times are counted in ticks: a row has an age, a waiting  *)
(* period what is left of it.  A statement is what it says: signatures     *)
(* verify.  A password, a recovery code and an account key are named by    *)
(* their epochs.                                                           *)
(* Left out: identity keys and their bundles, settings, the web vault's    *)
(* own certificates, rate limits (module RateLimit), the request counters  *)
(* (RequestWindow), one-time codes (Totp), the vault half of a rotation    *)
(* (Rotation).                                                             *)
(***************************************************************************)
EXTENDS Naturals, FiniteSets

CONSTANTS Devices,
          First,          \* the device of the sign-up
          MaxSessions,    \* bound: sessions at a time
          MaxRows,        \* bound: login states and challenges at a time
          Nobody,         \* no device
          Fresh,          \* FRESH_SESSION_MS, in ticks
          Life,           \* a session's and a single-use row's time to live
          RecoveryWait,   \* recovery_wait_ms
          EpochLimit,     \* reconciliation_limit_ms
          Changes,        \* the changes clients ask for
          MaxSeq,         \* bound: account states on the server
          MaxRestores     \* bound: restores

Kinds == {"opaque", "device", "recovery"}

\* A change: pw, a new password; reg, a registration upload; ak, an account-key
\* rotation; rec, the recovery upload and step; enrol, revoke, device statements.
ChangeType ==
  [pw: BOOLEAN, reg: BOOLEAN, ak: BOOLEAN,
   rec: {"none", "new", "off", "rewrap", "repair"},
   enrol: SUBSET Devices, revoke: SUBSET Devices]

ASSUME AccountAssumption ==
  /\ First \in Devices /\ Nobody \notin Devices
  /\ {Fresh, RecoveryWait, EpochLimit} \subseteq Nat
  /\ {MaxSessions, MaxRows, MaxRestores} \subseteq Nat /\ MaxSeq \in Nat \ {0}
  /\ Changes \subseteq ChangeType
  /\ Life \in [Kinds \cup {"login", "challenge"} -> Nat \ {0}]

VARIABLES db,             \* the tables a backup carries
          backup,         \* the last backup
          rows,           \* login states and challenges, each used at most once
          sessions,
          epoch,          \* what is left of the reconciliation epoch, 0 if closed
          known,          \* the newest account-state each device has verified
          reauth,         \* the device whose re-authentication is in progress
          healed,         \* ghost: times a newer state was adopted
          restores        \* ghost: restores so far

vars == <<db, backup, rows, sessions, epoch, known, reauth, healed, restores>>

(***************************************************************************)
(* The tables                                                              *)
(***************************************************************************)

NoPending  == [rec |-> 0, wait |-> 0]
NoRecovery == [rec |-> 0, ak |-> 0]

Holding(t) == t.certs["old"] \cup t.certs["new"]

\* The device set: certified and not revoked.
device_set(t) == Holding(t) \ t.revoked

usable_durable(d) == d \in device_set(db) /\ d \notin db.suspended

\* Credential::lags and RecoveryRow::lags: the row is not of the signed state.
CredentialLags == db.cred.pw # db.state.pw \/ db.cred.ak # db.state.ak
RecoveryLags   == db.recovery.rec # db.state.rec \/ db.recovery.ak # db.state.ak

\* session::load_by_hash: only an unexpired session acts.
Live(s) == s.age < Life[s.kind]

is_fresh_opaque(s) == s.kind = "opaque" /\ s.age <= Fresh

\* A session: its password or recovery epoch, where its kind has one, and the
\* healings before it.  Equal sessions are one.
NewSession(kind, device) ==
  [kind |-> kind, device |-> device, age |-> 0, pw |-> 0, rec |-> 0, healed |-> healed]

create(s) ==
  /\ Cardinality(sessions \cup {s}) <= MaxSessions
  /\ sessions' = sessions \cup {s}

NewRow(kind, device, pw) ==
  /\ Cardinality(rows) < MaxRows
  /\ rows' = rows \cup {[kind |-> kind, device |-> device, age |-> 0, pw |-> pw]}

end_device(S, D) == {s \in S : s.device \notin D}
end_kind(S, K)   == {s \in S : s.kind \notin K}

(***************************************************************************)
(* Login                                                                   *)
(***************************************************************************)

\* The state of a login is bound to the record it started against.
login_start ==
  /\ NewRow("login", Nobody, db.cred.pw)
  /\ UNCHANGED <<db, backup, sessions, epoch, known, reauth, healed, restores>>

\* A device session is authenticated for a re-authentication: login_finish binds
\* the new session to that device without reading the session again.
begin_reauth(s) ==
  /\ reauth = Nobody
  /\ s.kind = "device" /\ usable_durable(s.device)
  /\ reauth' = s.device
  /\ UNCHANGED <<db, backup, rows, sessions, epoch, known, healed, restores>>

MayLogIn(r) ==
  /\ r.kind = "login"
  /\ db.cred.pw >= db.state.pw
  /\ ~CredentialLags

\* login_finish with the right password and second factor.
login_finish(r, device) ==
  /\ MayLogIn(r)
  /\ device \in {Nobody, reauth}
  /\ rows' = rows \ {r}
  /\ create([NewSession("opaque", device) EXCEPT !.pw = r.pw])
  /\ reauth' = IF device = Nobody THEN reauth ELSE Nobody
  /\ UNCHANGED <<db, backup, epoch, known, healed, restores>>

\* settle_single_use after any refusal, and after a failure: the row is gone.
finish_refused(r) ==
  /\ rows' = rows \ {r}
  /\ UNCHANGED <<db, backup, sessions, epoch, known, reauth, healed, restores>>

(***************************************************************************)
(* Devices                                                                 *)
(***************************************************************************)

\* A newer state reproduces the device set of the server's rows and its own.
Reproduces(k) == (Holding(db) \cup k.devices) \ (db.revoked \cup k.revoked) = k.devices

\* verify_reconciliation: a device the restored rows do not know proves that the
\* newest state it holds lists it.
Reconcilable(d) ==
  LET k == known[d]
  IN /\ d \notin Holding(db) /\ d \notin db.revoked /\ epoch > 0
     /\ k.seq > db.state.seq \/ k = db.state
     /\ d \in k.devices /\ Reproduces(k)

device_key(d) == usable_durable(d) \/ Reconcilable(d)

device_auth_start(d) ==
  /\ device_key(d)
  /\ NewRow("challenge", d, 0)
  /\ UNCHANGED <<db, backup, sessions, epoch, known, reauth, healed, restores>>

device_auth_finish(r) ==
  /\ r.kind = "challenge" /\ device_key(r.device)
  /\ rows' = rows \ {r}
  /\ create([NewSession("device", r.device) EXCEPT !.healed = 0])
  /\ db' = IF r.device \in Holding(db) THEN db
           ELSE [db EXCEPT !.certs["new"] = @ \cup {r.device}]
  /\ UNCHANGED <<backup, epoch, known, reauth, healed, restores>>

\* revoker: a fresh login from another usable device.
revoker(s, target) ==
  /\ s \in sessions /\ is_fresh_opaque(s)
  /\ s.device # Nobody /\ usable_durable(s.device) /\ s.device # target
  /\ target \in device_set(db)

\* Mutant: a suspension leaves the device's sessions.
suspend_device_only(s, target) ==
  /\ revoker(s, target) /\ target \notin db.suspended
  /\ db' = [db EXCEPT !.suspended = @ \cup {target}]
  /\ UNCHANGED <<backup, rows, sessions, epoch, known, reauth, healed, restores>>

suspend_device(s, target) ==
  /\ revoker(s, target) /\ target \notin db.suspended
  /\ db' = [db EXCEPT !.suspended = @ \cup {target}]
  /\ sessions' = end_device(sessions, {target})
  /\ UNCHANGED <<backup, rows, epoch, known, reauth, healed, restores>>

unsuspend_device(s, target) ==
  /\ revoker(s, target) /\ target \in db.suspended
  /\ db' = [db EXCEPT !.suspended = @ \ {target}]
  /\ UNCHANGED <<backup, rows, sessions, epoch, known, reauth, healed, restores>>

enrol_device(s, d) ==
  /\ s \in sessions /\ is_fresh_opaque(s)
  /\ d \notin Holding(db) /\ d \notin db.revoked
  /\ db.state.seq < MaxSeq
  /\ LET next == [db.state EXCEPT !.seq = @ + 1, !.devices = device_set(db) \cup {d}]
     IN /\ db' = [db EXCEPT !.certs["new"] = @ \cup {d}, !.state = next, !.adopted = TRUE]
        /\ known' = [known EXCEPT ![d] = next]
  /\ UNCHANGED <<backup, rows, sessions, epoch, reauth, healed, restores>>

\* A device reads the account; it never goes back to an older state.
refresh(s) ==
  /\ s.kind = "device" /\ usable_durable(s.device)
  /\ db.state.seq > known[s.device].seq
  /\ known' = [known EXCEPT ![s.device] = db.state]
  /\ UNCHANGED <<db, backup, rows, sessions, epoch, reauth, healed, restores>>

(***************************************************************************)
(* Recovery                                                                *)
(***************************************************************************)

\* check_recovery_code for the code of epoch rec.
CodeValid(rec) ==
  /\ db.recovery # NoRecovery /\ db.recovery.rec = rec
  /\ db.state.on /\ ~RecoveryLags

\* A pending recovery of a replaced code is closed first.
recovery_start(rec) ==
  /\ CodeValid(rec)
  /\ db.pending = NoPending \/ db.pending.rec # rec
  /\ db' = [db EXCEPT !.pending = [rec |-> rec, wait |-> RecoveryWait]]
  /\ UNCHANGED <<backup, rows, sessions, epoch, known, reauth, healed, restores>>

\* Mutant: a session already released survives the cancellation.
recovery_cancel_pending(s) ==
  /\ s \in sessions /\ s.kind = "device" /\ usable_durable(s.device)
  /\ db' = [db EXCEPT !.pending = NoPending]
  /\ UNCHANGED <<backup, rows, sessions, epoch, known, reauth, healed, restores>>

recovery_cancel(s) ==
  /\ s \in sessions /\ s.kind = "device" /\ usable_durable(s.device)
  /\ db' = [db EXCEPT !.pending = NoPending]
  /\ sessions' = end_kind(sessions, {"recovery"})
  /\ UNCHANGED <<backup, rows, epoch, known, reauth, healed, restores>>

recovery_complete(rec) ==
  /\ CodeValid(rec)
  /\ db.pending # NoPending /\ db.pending.rec = rec /\ db.pending.wait = 0
  /\ create([NewSession("recovery", Nobody) EXCEPT !.rec = rec])
  /\ UNCHANGED <<db, backup, rows, epoch, known, reauth, healed, restores>>

(***************************************************************************)
(* Account changes                                                         *)
(***************************************************************************)

\* check_objects and check_recovery_repair.
check_objects(c) ==
  /\ c.pw => c.reg
  /\ c.rec = "none"   => ~(c.ak /\ db.state.on)
  /\ c.rec = "off"    => db.state.on
  /\ c.rec = "rewrap" => /\ c.ak /\ db.state.on
                         /\ db.recovery # NoRecovery /\ db.recovery.rec = db.state.rec
  /\ c.rec = "repair" => /\ ~c.ak /\ ~c.reg /\ c.enrol = {} /\ c.revoke = {}
                         /\ db.state.on /\ db.recovery # NoRecovery
                         /\ RecoveryLags /\ db.recovery.rec = db.state.rec

\* A rotation revokes suspended devices; without one, a device replaces itself.
plan_devices(c) ==
  /\ c.enrol \cap (Holding(db) \cup db.revoked) = {}
  /\ c.revoke \subseteq device_set(db)
  /\ c.ak => c.revoke \subseteq db.suspended
  /\ ~c.ak /\ c.revoke # {} => Cardinality(c.revoke) = 1 /\ Cardinality(c.enrol) = 1

authorize(s, c) ==
  LET credentials == c.reg \/ c.ak \/ c.rec # "none"
      heavy == credentials \/ c.enrol # {} \/ c.revoke # {}
      same_password == /\ c.reg /\ ~c.pw /\ ~c.ak
                       /\ c.rec = "none" /\ c.enrol = {} /\ c.revoke = {}
  IN \/ /\ s.kind = "recovery"
        /\ c.pw /\ c.rec = "new" /\ c.revoke = {}
        /\ db.pending # NoPending
     \/ /\ is_fresh_opaque(s)
        /\ c.ak /\ c.revoke # {} =>
             s.device # Nobody /\ usable_durable(s.device) /\ s.device \notin c.revoke
     \/ /\ s.kind = "device" /\ usable_durable(s.device)
        /\ ~heavy \/ same_password

NextState(c) ==
  [db.state EXCEPT
     !.seq = @ + 1,
     !.pw  = IF c.pw THEN @ + 1 ELSE @,
     !.ak  = IF c.ak THEN @ + 1 ELSE @,
     !.rec = IF c.rec = "new" THEN @ + 1 ELSE @,
     !.on  = IF c.rec = "new" THEN TRUE ELSE IF c.rec = "off" THEN FALSE ELSE @,
     !.devices = (device_set(db) \cup c.enrol) \ c.revoke,
     !.revoked = db.revoked \cup c.revoke]

\* put_credential: a new record, or the same one with a new E_srv, ends the
\* logins under way.
put_credential(c) ==
  IF c.reg \/ c.ak THEN {r \in rows : r.kind # "login"} ELSE rows

Credential(c, new) ==
  IF c.reg THEN [pw |-> new.pw, ak |-> new.ak]
  ELSE IF c.ak THEN [db.cred EXCEPT !.ak = new.ak] ELSE db.cred

\* Mutant: a rotation leaves the recovery row under the old account key.
write_recovery_stale(c, new) ==
  IF c.rec \in {"new", "repair"} THEN [rec |-> new.rec, ak |-> new.ak]
  ELSE IF c.rec = "off" THEN NoRecovery ELSE db.recovery

write_recovery(c, new) ==
  IF c.rec \in {"new", "repair", "rewrap"} THEN [rec |-> new.rec, ak |-> new.ak]
  ELSE IF c.rec = "off" THEN NoRecovery ELSE db.recovery

\* The sessions after the change.
end_sessions(s, c) ==
  LET left == end_device(sessions, c.revoke)
  IN IF s.kind = "recovery" THEN {}
     ELSE IF c.pw THEN end_kind(left, {"opaque", "recovery"}) ELSE left

commit_change(s, c) ==
  LET new == NextState(c)
  IN /\ s \in sessions
     /\ db.state.seq < MaxSeq
     /\ check_objects(c) /\ plan_devices(c) /\ authorize(s, c)
     /\ db' = [db EXCEPT
                 !.state = new, !.adopted = TRUE,
                 !.cred = Credential(c, new),
                 !.recovery = write_recovery(c, new),
                 !.pending = IF c.rec \in {"new", "off"} THEN NoPending ELSE @,
                 !.certs["new"] = @ \cup c.enrol,
                 !.revoked = @ \cup c.revoke]
     /\ rows' = put_credential(c)
     /\ sessions' = end_sessions(s, c)
     /\ known' = [d \in Devices |-> IF d \in c.enrol \cup {s.device} THEN new ELSE known[d]]
     /\ UNCHANGED <<backup, epoch, reauth, healed, restores>>

(***************************************************************************)
(* Restore and healing                                                     *)
(***************************************************************************)

\* Bound: one backup of each account-state.
take_backup ==
  /\ restores < MaxRestores /\ backup.state # db.state
  /\ backup' = db
  /\ UNCHANGED <<db, rows, sessions, epoch, known, reauth, healed, restores>>

\* The server is stopped; sessions and single-use rows are not in a backup, and
\* every certificate of it is older than the epoch it opens.
restore ==
  /\ restores < MaxRestores
  /\ db' = [backup EXCEPT !.certs = [old |-> Holding(backup), new |-> {}],
                          !.adopted = FALSE]
  /\ rows' = {} /\ sessions' = {} /\ reauth' = Nobody
  /\ epoch' = EpochLimit
  /\ restores' = restores + 1
  /\ UNCHANGED <<backup, known, healed>>

is_restored_device(s, revoking) ==
  /\ s.kind = "device" /\ s.device \in db.certs["old"]
  /\ s.device \notin db.revoked \cup revoking

\* Mutant: the server's own revocations are not part of the check.
adopt_state_unchecked(s) ==
  LET k == known[s.device]
  IN /\ epoch > 0 /\ k.seq > db.state.seq
     /\ db' = [db EXCEPT !.state = k, !.adopted = TRUE, !.revoked = k.revoked,
                         !.certs["new"] = @ \cup (k.devices \ Holding(db))]
     /\ sessions' = end_device(sessions, k.revoked)
     /\ epoch' = IF is_restored_device(s, k.revoked) THEN 0 ELSE epoch
     /\ healed' = healed + 1

\* A newer state replaces the held one with its certificates and revocations.
adopt_state(s) ==
  LET k == known[s.device]
  IN /\ epoch > 0 /\ k.seq > db.state.seq /\ Reproduces(k)
     /\ db' = [db EXCEPT !.state = k, !.adopted = TRUE, !.revoked = @ \cup k.revoked,
                         !.certs["new"] = @ \cup (k.devices \ Holding(db))]
     /\ sessions' = end_device(sessions, k.revoked)
     /\ epoch' = IF is_restored_device(s, k.revoked) THEN 0 ELSE epoch
     /\ healed' = healed + 1

\* The same state again ends the epoch once a newer one was stored in it.
same_state(s) ==
  /\ epoch > 0 /\ known[s.device] = db.state
  /\ db.adopted /\ is_restored_device(s, {})
  /\ epoch' = 0
  /\ UNCHANGED <<db, sessions, healed>>

publish_account_state(s) ==
  /\ s \in sessions /\ s.device # Nobody
  /\ adopt_state(s) \/ same_state(s)
  /\ UNCHANGED <<backup, rows, known, reauth, restores>>

(***************************************************************************)
(* Time                                                                    *)
(***************************************************************************)

\* What is left of the waiting period of a pending recovery.
Older(t) == IF t.pending.wait = 0 THEN t ELSE [t EXCEPT !.pending.wait = @ - 1]

\* load_by_hash and take_login_state refuse a row past its time and purge_expired
\* deletes it: it is gone at the tick.
purge_expired(S) == {r \in {[q EXCEPT !.age = @ + 1] : q \in S} : Live(r)}

Tick ==
  /\ db' = Older(db) /\ backup' = Older(backup)
  /\ rows' = purge_expired(rows) /\ sessions' = purge_expired(sessions)
  /\ epoch' = IF epoch = 0 THEN 0 ELSE epoch - 1
  /\ UNCHANGED <<known, reauth, healed, restores>>

(***************************************************************************)
(* The specification                                                       *)
(***************************************************************************)

\* After the sign-up of First, with a recovery code.
FirstState == [seq |-> 1, pw |-> 1, ak |-> 1, rec |-> 1, on |-> TRUE,
               devices |-> {First}, revoked |-> {}]

Init ==
  /\ db = [state |-> FirstState, adopted |-> TRUE,
           cred |-> [pw |-> 1, ak |-> 1], recovery |-> [rec |-> 1, ak |-> 1],
           pending |-> NoPending, suspended |-> {}, revoked |-> {},
           certs |-> [old |-> {First}, new |-> {}]]
  /\ backup = db
  /\ rows = {} /\ sessions = {} /\ reauth = Nobody
  /\ epoch = 0 /\ healed = 0 /\ restores = 0
  /\ known = [d \in Devices |-> FirstState]

Next ==
  \/ login_start
  \/ \E s \in sessions : begin_reauth(s) \/ refresh(s) \/ recovery_cancel(s)
                            \/ publish_account_state(s)
  \/ \E r \in rows, device \in Devices \cup {Nobody} : login_finish(r, device)
  \/ \E r \in rows : finish_refused(r) \/ device_auth_finish(r)
  \/ \E d \in Devices : device_auth_start(d)
  \/ \E s \in sessions, d \in Devices :
       suspend_device(s, d) \/ unsuspend_device(s, d) \/ enrol_device(s, d)
  \/ \E rec \in 1..MaxSeq : recovery_start(rec) \/ recovery_complete(rec)
  \/ \E s \in sessions, c \in Changes : commit_change(s, c)
  \/ take_backup \/ restore \/ Tick

Spec == Init /\ [][Next]_vars

(***************************************************************************)
(* Properties                                                              *)
(***************************************************************************)

States == [seq: 1..MaxSeq, pw: 1..MaxSeq, ak: 1..MaxSeq, rec: 1..MaxSeq,
           on: BOOLEAN, devices: SUBSET Devices, revoked: SUBSET Devices]

Tables == [state: States, adopted: BOOLEAN,
           cred: [pw: 1..MaxSeq, ak: 1..MaxSeq],
           recovery: [rec: 0..MaxSeq, ak: 0..MaxSeq],
           pending: [rec: 0..MaxSeq, wait: 0..RecoveryWait],
           suspended: SUBSET Devices, revoked: SUBSET Devices,
           certs: [{"old", "new"} -> SUBSET Devices]]

SingleUse == [kind: {"login", "challenge"}, device: Devices \cup {Nobody}, age: Nat,
              pw: 0..MaxSeq]

SessionType == [kind: Kinds, device: Devices \cup {Nobody}, age: Nat, pw: 0..MaxSeq,
                rec: 0..MaxSeq, healed: Nat]

\* Every variable has its type.
TypeOK ==
  /\ db \in Tables /\ backup \in Tables
  /\ rows \subseteq SingleUse /\ sessions \subseteq SessionType
  /\ epoch \in 0..EpochLimit /\ known \in [Devices -> States]
  /\ reauth \in Devices \cup {Nobody} /\ healed \in Nat /\ restores \in Nat

\* A password change is final: every OPAQUE session was proven with the password
\* of the signed state, whatever logins were under way when it changed, unless
\* healing adopted a newer state since (login.rs, INV-59).
LivePassword ==
  \A s \in sessions :
    s.kind = "opaque" /\ s.healed = healed => s.pw = db.state.pw

\* A suspended or revoked device has no device session left, however its
\* suspension or revocation reached the server.
NoSessionOfLostDevice ==
  \A s \in sessions : s.kind = "device" => usable_durable(s.device)

\* The record and the recovery row move with the signed state, through every
\* change and through a restore: only a state adopted in healing leaves them behind.
RowsFollowState ==
  healed = 0 =>
    /\ ~CredentialLags
    /\ db.state.on <=> db.recovery # NoRecovery
    /\ db.state.on => ~RecoveryLags

\* A cancelled recovery is cancelled: no session released for a code lives while
\* a recovery of that code still waits.  An epoch names one code until healing
\* adopts a state of before the restore: its codes were numbered apart.
CancelledMeansWaiting ==
  \A s \in sessions :
    s.kind = "recovery" /\ s.healed = healed /\ db.pending.rec = s.rec
      => db.pending.wait = 0

\* A revocation stands: between restores the server forgets no revocation, and
\* its account-state never goes back.
RevocationStands ==
  [][restores' = restores =>
       /\ db.revoked \subseteq db'.revoked
       /\ db.state # db'.state => db.state.seq < db'.state.seq]_vars

\* The rows of an account agree after every flow, restore and healing.
RowsSound == TypeOK /\ RowsFollowState

\* A live session is one that could still be opened now: by the password of the
\* stored record, by a device that may authenticate.
SessionsLive == LivePassword /\ NoSessionOfLostDevice
=============================================================================
