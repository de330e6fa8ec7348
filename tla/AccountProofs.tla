---------------------------- MODULE AccountProofs ----------------------------
(***************************************************************************)
(* Proofs about one account on the server, for every set of devices, every *)
(* set of changes clients ask for, every lifetime and every bound; and     *)
(* about what guards its requests: the request window of a session, the    *)
(* second factor and the rate limits, for every width, bound, rule and     *)
(* number of requests.                                                     *)
(***************************************************************************)
EXTENDS AccountService, RequestWindow, Totp, RateLimit,
        FiniteSetTheorems, WellFoundedInduction, TLAPS

\* A password, an account key and a recovery code change only with the state.
Bounded(k) == k.pw <= k.seq /\ k.ak <= k.seq /\ k.rec <= k.seq

\* Types; no state is ahead of its number; a device is suspended only while it
\* has a certificate; a challenge is of a device.
TypeInv ==
  /\ TypeOK
  /\ \A t \in {db, backup} : Bounded(t.state) /\ t.suspended \subseteq Holding(t)
  /\ \A d \in Devices : Bounded(known[d])
  /\ \A r \in rows : r.kind = "challenge" => r.device \in Devices

LEMMA TypeStart == Init => TypeInv
  BY AccountAssumption DEF Init, TypeInv, TypeOK, Tables, States, FirstState, NoPending,
     Bounded, Holding, SingleUse, SessionType

\* The next account-state is a state.
LEMMA NextStateType ==
  ASSUME TypeInv, NEW c \in Changes, db.state.seq < MaxSeq
  PROVE  LET new == NextState(c)
         IN /\ new \in States /\ Bounded(new)
            /\ new.seq = db.state.seq + 1
            /\ new.pw = IF c.pw THEN db.state.pw + 1 ELSE db.state.pw
            /\ new.ak = IF c.ak THEN db.state.ak + 1 ELSE db.state.ak
            /\ new.rec = IF c.rec = "new" THEN db.state.rec + 1 ELSE db.state.rec
            /\ new.on <=> c.rec = "new" \/ (c.rec # "off" /\ db.state.on)
  <1>1. /\ db.state \in States /\ Bounded(db.state)
        /\ db.revoked \subseteq Devices /\ device_set(db) \subseteq Devices
    BY DEF TypeInv, TypeOK, Tables, device_set, Holding
  <1>2. c \in ChangeType
    BY AccountAssumption
  <1> DEFINE old == db.state
             pw  == IF c.pw THEN old.pw + 1 ELSE old.pw
             ak  == IF c.ak THEN old.ak + 1 ELSE old.ak
             rec == IF c.rec = "new" THEN old.rec + 1 ELSE old.rec
             on  == IF c.rec = "new" THEN TRUE ELSE IF c.rec = "off" THEN FALSE ELSE old.on
             devices == (device_set(db) \cup c.enrol) \ c.revoke
             revoked == db.revoked \cup c.revoke
  <1>3. on \in BOOLEAN
    BY <1>1 DEF States
  <1>4. devices \in SUBSET Devices /\ revoked \in SUBSET Devices
    BY <1>1, <1>2 DEF ChangeType
  <1>5. /\ old.seq + 1 \in 1..MaxSeq /\ pw \in 1..MaxSeq /\ ak \in 1..MaxSeq
        /\ rec \in 1..MaxSeq
        /\ pw <= old.seq + 1 /\ ak <= old.seq + 1 /\ rec <= old.seq + 1
    BY <1>1, <1>2, AccountAssumption DEF States, Bounded, ChangeType
  <1> HIDE DEF pw, ak, rec, on, devices, revoked
  <1>6. NextState(c) = [old EXCEPT !.seq = old.seq + 1, !.pw = pw, !.ak = ak, !.rec = rec,
                                   !.on = on, !.devices = devices, !.revoked = revoked]
    BY Zenon DEF NextState, pw, ak, rec, on, devices, revoked
  <1>7. NextState(c) \in States
    BY <1>1, <1>3, <1>4, <1>5, <1>6, Zenon DEF States
  <1>8. /\ NextState(c).seq = old.seq + 1 /\ NextState(c).pw = pw
        /\ NextState(c).ak = ak /\ NextState(c).rec = rec
    BY <1>1, <1>6 DEF States
  <1>9. NextState(c).on <=> c.rec = "new" \/ (c.rec # "off" /\ old.on)
    <2>1. NextState(c).on = on
      BY <1>1, <1>6, Zenon DEF States
    <2>2. on <=> c.rec = "new" \/ (c.rec # "off" /\ old.on)
      BY <1>1 DEF on, States
    <2>. QED
      BY <2>1, <2>2, Zenon
  <1>. QED
    BY <1>5, <1>7, <1>8, <1>9 DEF Bounded, pw, ak, rec

\* What a step that leaves the tables alone has to keep.
LEMMA TypeUnchanged ==
  ASSUME TypeInv, UNCHANGED <<db, backup, known>>,
         rows' \subseteq SingleUse, sessions' \subseteq SessionType,
         \A r \in rows' : r.kind = "challenge" => r.device \in Devices,
         epoch' \in 0..EpochLimit, reauth' \in Devices \cup {Nobody},
         healed' \in Nat, restores' \in Nat
  PROVE  TypeInv'
  BY DEF TypeInv, TypeOK, Bounded, Holding

\* The same for a step that changes the tables.
LEMMA TypeChanged ==
  ASSUME TypeInv, db' \in Tables, Bounded(db'.state), db'.suspended \subseteq Holding(db'),
         UNCHANGED backup,
         known' \in [Devices -> States], \A d \in Devices : Bounded(known'[d]),
         rows' \subseteq rows, sessions' \subseteq SessionType,
         epoch' \in 0..EpochLimit, reauth' \in Devices \cup {Nobody},
         healed' \in Nat, restores' \in Nat
  PROVE  TypeInv'
  BY DEF TypeInv, TypeOK, Bounded, Holding

LEMMA NewSessionType ==
  ASSUME TypeInv, NEW kind \in Kinds, NEW device \in Devices \cup {Nobody}
  PROVE  NewSession(kind, device) \in SessionType
  BY AccountAssumption DEF NewSession, SessionType, TypeInv, TypeOK

\* A session that is new or one of the present ones.
LEMMA CreateType ==
  ASSUME TypeInv, NEW s \in SessionType, create(s)
  PROVE  sessions' \subseteq SessionType
  BY DEF TypeInv, TypeOK, create

LEMMA TypeLogin ==
  ASSUME TypeInv
  PROVE  /\ login_start => TypeInv'
         /\ \A s \in sessions : begin_reauth(s) => TypeInv'
         /\ \A r \in rows, d \in Devices \cup {Nobody} : login_finish(r, d) => TypeInv'
         /\ \A r \in rows : finish_refused(r) => TypeInv'
  <1> USE DEF TypeInv, TypeOK
  <1>1. ASSUME login_start PROVE TypeInv'
    <2>1. [kind |-> "login", device |-> Nobody, age |-> 0, pw |-> db.cred.pw] \in SingleUse
      BY AccountAssumption DEF SingleUse, Tables
    <2>2. rows' \subseteq SingleUse
      BY <1>1, <2>1 DEF login_start, NewRow
    <2>3. \A r \in rows' : r.kind = "challenge" => r.device \in Devices
      BY <1>1 DEF login_start, NewRow
    <2>. QED
      BY <1>1, <2>2, <2>3, TypeUnchanged DEF login_start
  <1>2. ASSUME NEW s \in sessions, begin_reauth(s) PROVE TypeInv'
    BY <1>2, TypeUnchanged DEF begin_reauth, SessionType
  <1>3. ASSUME NEW r \in rows, NEW d \in Devices \cup {Nobody}, login_finish(r, d)
        PROVE  TypeInv'
    <2>1. [NewSession("opaque", d) EXCEPT !.pw = r.pw] \in SessionType
      <3>1. NewSession("opaque", d) \in SessionType
        BY NewSessionType DEF Kinds
      <3>2. r.pw \in 0..MaxSeq
        BY DEF SingleUse
      <3>. QED
        BY <3>1, <3>2 DEF SessionType
    <2>. QED
      BY <1>3, <2>1, CreateType, TypeUnchanged DEF login_finish
  <1>4. ASSUME NEW r \in rows, finish_refused(r) PROVE TypeInv'
    BY <1>4, TypeUnchanged DEF finish_refused
  <1>. QED
    BY <1>1, <1>2, <1>3, <1>4

LEMMA TypeDevices ==
  ASSUME TypeInv
  PROVE  /\ \A d \in Devices : device_auth_start(d) => TypeInv'
         /\ \A r \in rows : device_auth_finish(r) => TypeInv'
         /\ \A s \in sessions, d \in Devices :
              suspend_device(s, d) \/ unsuspend_device(s, d) \/ enrol_device(s, d) => TypeInv'
         /\ \A s \in sessions : refresh(s) => TypeInv'
  <1> USE DEF TypeInv, TypeOK
  <1>1. ASSUME NEW d \in Devices, device_auth_start(d) PROVE TypeInv'
    <2>1. [kind |-> "challenge", device |-> d, age |-> 0, pw |-> 0] \in SingleUse
      BY AccountAssumption DEF SingleUse
    <2>2. rows' \subseteq SingleUse
      BY <1>1, <2>1 DEF device_auth_start, NewRow
    <2>3. \A r \in rows' : r.kind = "challenge" => r.device \in Devices
      BY <1>1 DEF device_auth_start, NewRow
    <2>. QED
      BY <1>1, <2>2, <2>3, TypeUnchanged DEF device_auth_start
  <1>2. ASSUME NEW r \in rows, device_auth_finish(r) PROVE TypeInv'
    <2>1. r.device \in Devices
      BY <1>2 DEF device_auth_finish
    <2>2. [NewSession("device", r.device) EXCEPT !.healed = 0] \in SessionType
      <3>1. NewSession("device", r.device) \in SessionType
        BY <2>1, NewSessionType DEF Kinds
      <3>. QED
        BY <3>1 DEF SessionType
    <2>3. sessions' \subseteq SessionType
      BY <1>2, <2>2, CreateType DEF device_auth_finish
    <2>4. /\ db' \in Tables /\ db'.state = db.state
          /\ db'.suspended \subseteq Holding(db')
      BY <1>2, <2>1 DEF device_auth_finish, Tables, Holding
    <2>. QED
      BY <1>2, <2>3, <2>4, TypeChanged DEF device_auth_finish
  <1>3. ASSUME NEW s \in sessions, NEW d \in Devices,
               suspend_device(s, d) \/ unsuspend_device(s, d)
        PROVE  TypeInv'
    <2>1. d \in Holding(db)
      BY <1>3 DEF suspend_device, unsuspend_device, revoker, device_set
    <2>2. /\ db' \in Tables /\ db'.state = db.state
          /\ db'.suspended \subseteq Holding(db')
      BY <1>3, <2>1 DEF suspend_device, unsuspend_device, Tables, Holding
    <2>. QED
      BY <1>3, <2>2, TypeChanged DEF suspend_device, unsuspend_device, end_device
  <1>4. ASSUME NEW s \in sessions, NEW d \in Devices, enrol_device(s, d) PROVE TypeInv'
    <2> DEFINE next == [db.state EXCEPT !.seq = @ + 1, !.devices = device_set(db) \cup {d}]
    <2>1. next \in States /\ Bounded(next)
      <3>1. db.state \in States /\ device_set(db) \cup {d} \in SUBSET Devices
        BY DEF Tables, device_set, Holding
      <3>2. db.state.seq + 1 \in 1..MaxSeq
        BY <1>4, <3>1, AccountAssumption DEF enrol_device, States
      <3>3. next \in States
        BY <3>1, <3>2, Zenon DEF States
      <3>. QED
        BY <3>1, <3>2, <3>3 DEF Bounded, States
    <2> HIDE DEF next
    <2>2. db' = [db EXCEPT !.certs["new"] = @ \cup {d}, !.state = next, !.adopted = TRUE]
      BY <1>4, Zenon DEF enrol_device, next
    <2>3. /\ db'.state = next
          /\ db'.suspended \subseteq Holding(db')
      BY <2>1, <2>2 DEF Tables, Holding
    <2>4. [db.certs EXCEPT !["new"] = @ \cup {d}] \in [{"old", "new"} -> SUBSET Devices]
      BY DEF Tables
    <2>5. db' \in Tables
      BY <2>1, <2>2, <2>4, Zenon DEF Tables
    <2>. QED
      BY <1>4, <2>1, <2>3, <2>5, TypeChanged DEF enrol_device, next
  <1>5. ASSUME NEW s \in sessions, refresh(s) PROVE TypeInv'
    BY <1>5, TypeChanged DEF refresh, Tables
  <1>. QED
    BY <1>1, <1>2, <1>3, <1>4, <1>5

LEMMA TypeRecovery ==
  ASSUME TypeInv
  PROVE  /\ \A rec \in 1..MaxSeq : recovery_start(rec) \/ recovery_complete(rec) => TypeInv'
         /\ \A s \in sessions : recovery_cancel(s) => TypeInv'
  <1> USE DEF TypeInv, TypeOK
  <1>1. ASSUME NEW rec \in 1..MaxSeq, recovery_start(rec) PROVE TypeInv'
    <2>1. /\ db' \in Tables /\ db'.state = db.state
          /\ db'.suspended \subseteq Holding(db')
      BY <1>1, AccountAssumption DEF recovery_start, Tables, Holding
    <2>. QED
      BY <1>1, <2>1, TypeChanged DEF recovery_start
  <1>2. ASSUME NEW rec \in 1..MaxSeq, recovery_complete(rec) PROVE TypeInv'
    <2>1. NewSession("recovery", Nobody) \in SessionType
      BY NewSessionType DEF Kinds
    <2>2. [NewSession("recovery", Nobody) EXCEPT !.rec = rec] \in SessionType
      BY <2>1 DEF SessionType
    <2>. QED
      BY <1>2, <2>2, CreateType, TypeUnchanged DEF recovery_complete
  <1>3. ASSUME NEW s \in sessions, recovery_cancel(s) PROVE TypeInv'
    <2>1. /\ db' \in Tables /\ db'.state = db.state
          /\ db'.suspended \subseteq Holding(db')
      BY <1>3, AccountAssumption DEF recovery_cancel, Tables, Holding, NoPending
    <2>. QED
      BY <1>3, <2>1, TypeChanged DEF recovery_cancel, end_kind
  <1>. QED
    BY <1>1, <1>2, <1>3

LEMMA TypeCommit ==
  ASSUME TypeInv, NEW s \in sessions, NEW c \in Changes, commit_change(s, c)
  PROVE  TypeInv'
  <1> DEFINE new == NextState(c)
             certs == [db.certs EXCEPT !["new"] = @ \cup c.enrol]
             pending == IF c.rec \in {"new", "off"} THEN NoPending ELSE db.pending
  <1>1. new \in States /\ Bounded(new)
    BY NextStateType DEF commit_change
  <1>2. c \in ChangeType /\ db \in Tables
    BY AccountAssumption DEF TypeInv, TypeOK
  <1>3. Credential(c, new) \in [pw: 1..MaxSeq, ak: 1..MaxSeq]
    BY <1>1, <1>2 DEF Credential, Tables, States
  <1>4. write_recovery(c, new) \in [rec: 0..MaxSeq, ak: 0..MaxSeq]
    BY <1>1, <1>2, AccountAssumption DEF write_recovery, Tables, States, NoRecovery
  <1>5. pending \in [rec: 0..MaxSeq, wait: 0..RecoveryWait]
    BY <1>2, AccountAssumption DEF Tables, NoPending
  <1>6. certs \in [{"old", "new"} -> SUBSET Devices]
    BY <1>2 DEF Tables, ChangeType
  <1>7. db.revoked \cup c.revoke \in SUBSET Devices
    BY <1>2 DEF Tables, ChangeType
  <1> HIDE DEF new, certs, pending
  <1>8. db' = [db EXCEPT !.state = new, !.adopted = TRUE, !.cred = Credential(c, new),
                         !.recovery = write_recovery(c, new), !.pending = pending,
                         !.certs = certs, !.revoked = db.revoked \cup c.revoke]
    BY Zenon DEF commit_change, new, certs, pending
  <1>9. db' \in Tables
    BY <1>1, <1>2, <1>3, <1>4, <1>5, <1>6, <1>7, <1>8, Zenon DEF Tables
  <1>10. db'.state = new /\ db'.suspended = db.suspended /\ db'.certs = certs
    BY <1>2, <1>8 DEF Tables
  <1>11. db'.suspended \subseteq Holding(db')
    BY <1>2, <1>10 DEF TypeInv, Holding, certs, Tables
  <1>12. known' \in [Devices -> States] /\ \A d \in Devices : Bounded(known'[d])
    BY <1>1 DEF TypeInv, TypeOK, commit_change, new
  <1>13. rows' \subseteq rows /\ sessions' \subseteq SessionType
    BY DEF TypeInv, TypeOK, commit_change, put_credential, end_sessions, end_device, end_kind
  <1>. QED
    BY <1>1, <1>9, <1>10, <1>11, <1>12, <1>13, TypeChanged DEF TypeInv, TypeOK, commit_change

LEMMA TypeRestore ==
  ASSUME TypeInv
  PROVE  /\ take_backup => TypeInv'
         /\ restore => TypeInv'
         /\ \A s \in sessions : publish_account_state(s) => TypeInv'
  <1>1. ASSUME take_backup PROVE TypeInv'
    BY <1>1 DEF take_backup, TypeInv, TypeOK, Bounded, Holding
  <1>2. ASSUME restore PROVE TypeInv'
    <2> DEFINE certs == [old |-> Holding(backup), new |-> {}]
    <2>1. backup \in Tables /\ Holding(backup) \subseteq Devices
      BY DEF TypeInv, TypeOK, Tables, Holding
    <2>2. certs \in [{"old", "new"} -> SUBSET Devices]
      BY <2>1
    <2> HIDE DEF certs
    <2>3. db' = [backup EXCEPT !.certs = certs, !.adopted = FALSE]
      BY <1>2, Zenon DEF restore, certs
    <2>4. db' \in Tables
      BY <2>1, <2>2, <2>3, Zenon DEF Tables
    <2>5. db'.state = backup.state /\ db'.suspended = backup.suspended /\ db'.certs = certs
      BY <2>1, <2>3 DEF Tables
    <2>6. db'.suspended \subseteq Holding(db')
      BY <2>5 DEF TypeInv, Holding, certs
    <2>. QED
      BY <1>2, <2>4, <2>5, <2>6, TypeChanged, AccountAssumption DEF restore, TypeInv, TypeOK
  <1>3. ASSUME NEW s \in sessions, publish_account_state(s) PROVE TypeInv'
    <2> DEFINE k == known[s.device]
               certs == [db.certs EXCEPT !["new"] = @ \cup (k.devices \ Holding(db))]
    <2>1. s.device \in Devices /\ k \in States /\ Bounded(k)
      BY <1>3 DEF publish_account_state, TypeInv, TypeOK, SessionType
    <2>2. CASE adopt_state(s)
      <3>1. db \in Tables
        BY DEF TypeInv, TypeOK
      <3>2. certs \in [{"old", "new"} -> SUBSET Devices]
        BY <2>1, <3>1 DEF Tables, States
      <3>3. db.revoked \cup k.revoked \in SUBSET Devices
        BY <2>1, <3>1 DEF Tables, States
      <3> HIDE DEF certs
      <3>4. db' = [db EXCEPT !.state = k, !.adopted = TRUE,
                             !.revoked = db.revoked \cup k.revoked, !.certs = certs]
        BY <2>2, Zenon DEF adopt_state, certs
      <3>5. db' \in Tables
        BY <2>1, <3>1, <3>2, <3>3, <3>4, Zenon DEF Tables
      <3>6. db'.state = k /\ db'.suspended = db.suspended /\ db'.certs = certs
        BY <3>1, <3>4 DEF Tables
      <3>7. db'.suspended \subseteq Holding(db')
        BY <3>1, <3>6 DEF TypeInv, Holding, certs, Tables
      <3>8. sessions' \subseteq SessionType /\ epoch' \in 0..EpochLimit /\ healed' \in Nat
        BY <2>2, AccountAssumption DEF adopt_state, end_device, TypeInv, TypeOK
      <3>. QED
        BY <1>3, <2>1, <3>5, <3>6, <3>7, <3>8, TypeChanged
        DEF publish_account_state, TypeInv, TypeOK
    <2>3. CASE same_state(s)
      BY <1>3, <2>3, TypeUnchanged, AccountAssumption
      DEF publish_account_state, same_state, TypeInv, TypeOK
    <2>. QED
      BY <1>3, <2>2, <2>3 DEF publish_account_state
  <1>. QED
    BY <1>1, <1>2, <1>3

LEMMA OlderTables ==
  ASSUME NEW t \in Tables
  PROVE  /\ Older(t) \in Tables
         /\ Older(t).state = t.state /\ Older(t).suspended = t.suspended
         /\ Older(t).certs = t.certs /\ Older(t).revoked = t.revoked
         /\ Older(t).cred = t.cred /\ Older(t).recovery = t.recovery
         /\ Older(t).pending.rec = t.pending.rec
         /\ t.pending.wait = 0 => Older(t) = t
  <1>1. CASE t.pending.wait = 0
    BY <1>1 DEF Older
  <1>2. CASE t.pending.wait # 0
    <2> DEFINE p == [t.pending EXCEPT !.wait = @ - 1]
    <2>1. p \in [rec: 0..MaxSeq, wait: 0..RecoveryWait] /\ p.rec = t.pending.rec
      BY <1>2, AccountAssumption DEF Tables
    <2> HIDE DEF p
    <2>2. Older(t) = [t EXCEPT !.pending = p]
      BY <1>2, Zenon DEF Older, p
    <2>3. Older(t) \in Tables
      BY <2>1, <2>2, Zenon DEF Tables
    <2>. QED
      BY <1>2, <2>1, <2>2, <2>3 DEF Tables
  <1>. QED
    BY <1>1, <1>2

\* What is left at a tick is as it was, one tick older.
LEMMA Purged ==
  ASSUME NEW S, NEW T \in {SingleUse, SessionType}, S \subseteq T
  PROVE  /\ purge_expired(S) \subseteq T
         /\ \A r \in purge_expired(S) : \E q \in S : r = [q EXCEPT !.age = @ + 1]
  <1>1. \A q \in SingleUse : [q EXCEPT !.age = @ + 1] \in SingleUse
    BY DEF SingleUse
  <1>2. \A q \in SessionType : [q EXCEPT !.age = @ + 1] \in SessionType
    BY DEF SessionType
  <1>. QED
    BY <1>1, <1>2 DEF purge_expired

LEMMA TypeTick == TypeInv /\ Tick => TypeInv'
  <1> SUFFICES ASSUME TypeInv, Tick PROVE TypeInv'
    OBVIOUS
  <1>1. /\ db' \in Tables /\ backup' \in Tables
        /\ \A t \in {db', backup'} : Bounded(t.state) /\ t.suspended \subseteq Holding(t)
    BY OlderTables DEF Tick, TypeInv, TypeOK, Bounded, Holding
  <1>2. rows' \subseteq SingleUse /\ sessions' \subseteq SessionType
    BY Purged DEF Tick, TypeInv, TypeOK
  <1>3. \A r \in rows' : r.kind = "challenge" => r.device \in Devices
    <2> SUFFICES ASSUME NEW r \in rows', r.kind = "challenge" PROVE r.device \in Devices
      OBVIOUS
    <2>1. PICK q \in rows : r = [q EXCEPT !.age = @ + 1]
      BY Purged DEF Tick, TypeInv, TypeOK
    <2>. QED
      BY <2>1 DEF TypeInv, TypeOK, SingleUse
  <1>4. epoch' \in 0..EpochLimit
    BY AccountAssumption DEF Tick, TypeInv, TypeOK
  <1>. QED
    BY <1>1, <1>2, <1>3, <1>4 DEF Tick, TypeInv, TypeOK

LEMMA TypeStep == TypeInv /\ [Next]_vars => TypeInv'
  <1> SUFFICES ASSUME TypeInv, [Next]_vars PROVE TypeInv'
    OBVIOUS
  <1>1. CASE UNCHANGED vars
    BY <1>1 DEF vars, TypeInv, TypeOK, Bounded, Holding
  <1>2. CASE Next
    BY <1>2, TypeLogin, TypeDevices, TypeRecovery, TypeCommit, TypeRestore, TypeTick DEF Next
  <1>. QED
    BY <1>1, <1>2

LEMMA TypeHolds == Spec => []TypeInv
  BY TypeStart, TypeStep, PTL DEF Spec

(***************************************************************************)
(* The rows of the account agree                                           *)
(***************************************************************************)

\* The record and the recovery row are those of the state, in tables t.
Agrees(t) ==
  /\ t.cred.pw = t.state.pw /\ t.cred.ak = t.state.ak
  /\ t.state.on <=> t.recovery # NoRecovery
  /\ t.state.on => t.recovery.rec = t.state.rec /\ t.recovery.ak = t.state.ak

\* A restore brings the backup's rows back, so they have to agree as well.
AgreeInv == healed = 0 => Agrees(db) /\ Agrees(backup)

LEMMA AgreesSame ==
  ASSUME TypeInv, AgreeInv, healed' = healed, backup' = backup,
         db'.cred = db.cred, db'.recovery = db.recovery, db'.state.pw = db.state.pw,
         db'.state.ak = db.state.ak, db'.state.rec = db.state.rec,
         db'.state.on <=> db.state.on
  PROVE  AgreeInv'
  BY DEF AgreeInv, Agrees

LEMMA AgreeCommit ==
  ASSUME TypeInv, AgreeInv, NEW s \in sessions, NEW c \in Changes, commit_change(s, c)
  PROVE  AgreeInv'
  <1> DEFINE new == NextState(c)
  <1>1. SUFFICES ASSUME healed = 0 PROVE Agrees(db')
    BY DEF AgreeInv, commit_change, Agrees
  <1>2. /\ db \in Tables /\ db.state \in States /\ c \in ChangeType
        /\ check_objects(c) /\ Agrees(db)
    BY <1>1, AccountAssumption DEF AgreeInv, TypeInv, TypeOK, commit_change, Tables
  <1>3. /\ new \in States
        /\ new.pw = IF c.pw THEN db.state.pw + 1 ELSE db.state.pw
        /\ new.ak = IF c.ak THEN db.state.ak + 1 ELSE db.state.ak
        /\ new.rec = IF c.rec = "new" THEN db.state.rec + 1 ELSE db.state.rec
        /\ new.on <=> c.rec = "new" \/ (c.rec # "off" /\ db.state.on)
    BY NextStateType DEF commit_change
  <1> HIDE DEF new
  <1>4. /\ db'.state = new /\ db'.cred = Credential(c, new)
        /\ db'.recovery = write_recovery(c, new)
    BY <1>2 DEF commit_change, Tables, new
  <1>5. Credential(c, new).pw = new.pw /\ Credential(c, new).ak = new.ak
    <2>1. CASE c.reg
      BY <2>1 DEF Credential
    <2>2. CASE ~c.reg
      BY <1>2, <1>3, <2>2 DEF Credential, Agrees, check_objects, ChangeType, Tables, States
    <2>. QED
      BY <2>1, <2>2
  <1> DEFINE row == write_recovery(c, new)
  <1>6. /\ new.on <=> row # NoRecovery
        /\ new.on => row.rec = new.rec /\ row.ak = new.ak
    <2>1. CASE c.rec \in {"new", "repair", "rewrap"}
      <3>1. row = [rec |-> new.rec, ak |-> new.ak] /\ new.rec # 0
        BY <1>3, <2>1 DEF write_recovery, States
      <3>2. new.on
        BY <1>2, <1>3, <2>1 DEF check_objects
      <3>. QED
        BY <3>1, <3>2 DEF NoRecovery
    <2>2. CASE c.rec = "off"
      BY <1>3, <2>2 DEF write_recovery
    <2>3. CASE c.rec = "none"
      <3>1. row = db.recovery /\ (new.on <=> db.state.on) /\ new.rec = db.state.rec
        BY <1>3, <2>3 DEF write_recovery
      <3>2. new.on => new.ak = db.state.ak
        BY <1>2, <1>3, <2>3, <3>1 DEF check_objects, ChangeType
      <3>. QED
        BY <1>2, <3>1, <3>2 DEF Agrees
    <2>. QED
      BY <1>2, <2>1, <2>2, <2>3 DEF ChangeType
  <1>. QED
    BY <1>4, <1>5, <1>6 DEF Agrees

LEMMA AgreeStep == TypeInv /\ AgreeInv /\ [Next]_vars => AgreeInv'
  <1> SUFFICES ASSUME TypeInv, AgreeInv, [Next]_vars PROVE AgreeInv'
    OBVIOUS
  <1>1. db \in Tables /\ backup \in Tables /\ db.state \in States /\ healed \in Nat
    BY DEF TypeInv, TypeOK, Tables
  <1>2. CASE UNCHANGED <<db, backup, healed>>
    BY <1>2 DEF AgreeInv, Agrees
  <1>3. CASE \E r \in rows : device_auth_finish(r)
    BY <1>1, <1>3, AgreesSame DEF device_auth_finish, Tables
  <1>4. CASE \E s \in sessions, d \in Devices : suspend_device(s, d) \/ unsuspend_device(s, d)
    BY <1>1, <1>4, AgreesSame DEF suspend_device, unsuspend_device, Tables
  <1>5. CASE \E s \in sessions, d \in Devices : enrol_device(s, d)
    <2>1. PICK s \in sessions, d \in Devices : enrol_device(s, d)
      BY <1>5
    <2> DEFINE next == [db.state EXCEPT !.seq = @ + 1, !.devices = device_set(db) \cup {d}]
    <2>2. /\ next.pw = db.state.pw /\ next.ak = db.state.ak /\ next.rec = db.state.rec
          /\ next.on <=> db.state.on
      BY <1>1 DEF States
    <2> HIDE DEF next
    <2>3. db' = [db EXCEPT !.certs["new"] = @ \cup {d}, !.state = next, !.adopted = TRUE]
      BY <2>1, Zenon DEF enrol_device, next
    <2>4. db'.state = next /\ db'.cred = db.cred /\ db'.recovery = db.recovery
      BY <1>1, <2>3 DEF Tables
    <2>. QED
      BY <2>1, <2>2, <2>4, AgreesSame DEF enrol_device
  <1>6. CASE \/ \E rec \in 1..MaxSeq : recovery_start(rec)
             \/ \E s \in sessions : recovery_cancel(s)
    BY <1>1, <1>6, AgreesSame DEF recovery_start, recovery_cancel, Tables
  <1>7. CASE \E s \in sessions, c \in Changes : commit_change(s, c)
    BY <1>7, AgreeCommit
  <1>8. CASE take_backup
    BY <1>8 DEF take_backup, AgreeInv, Agrees
  <1>9. CASE restore
    <2>1. /\ db'.state = backup.state /\ db'.cred = backup.cred
          /\ db'.recovery = backup.recovery
      BY <1>1, <1>9 DEF restore, Tables
    <2>. QED
      BY <1>9, <2>1 DEF restore, AgreeInv, Agrees
  <1>10. CASE \E s \in sessions : publish_account_state(s)
    BY <1>1, <1>2, <1>10 DEF publish_account_state, adopt_state, same_state, AgreeInv
  <1>11. CASE Tick
    BY <1>1, <1>11, OlderTables DEF Tick, AgreeInv, Agrees
  <1>. QED
    BY <1>2, <1>3, <1>4, <1>5, <1>6, <1>7, <1>8, <1>9, <1>10, <1>11
    DEF Next, vars, login_start, begin_reauth, refresh, login_finish, finish_refused,
        device_auth_start, recovery_complete

\* Through every change, restore and healing the rows have their types, and until
\* a healing the record and the recovery row are those of the signed state
\* (change.rs, store.rs, healing.rs).
THEOREM RowsStaySound == Spec => []RowsSound
  <1>1. Init => AgreeInv
    BY DEF Init, AgreeInv, Agrees, FirstState, NoRecovery
  <1>2. TypeInv /\ AgreeInv => RowsSound
    BY DEF TypeInv, AgreeInv, Agrees, RowsSound, RowsFollowState, CredentialLags, RecoveryLags
  <1>. QED
    BY <1>1, <1>2, TypeHolds, AgreeStep, PTL DEF Spec

(***************************************************************************)
(* Sessions                                                                *)
(***************************************************************************)

\* A login under way is against the stored record: a new record ends it.
LoginsCurrent == \A r \in rows : r.kind = "login" => r.pw = db.cred.pw

\* A released recovery session is of no later code than the state's; while its
\* code is in use, the recovery it was released for is still pending, and over.
Released ==
  \A s \in sessions :
    s.kind = "recovery" /\ s.healed = healed =>
      /\ 0 < s.rec /\ s.rec <= db.state.rec
      /\ s.rec = db.state.rec /\ db.state.on => db.pending = [rec |-> s.rec, wait |-> 0]

SessionInv ==
  /\ LivePassword /\ NoSessionOfLostDevice /\ CancelledMeansWaiting
  /\ LoginsCurrent /\ Released
  /\ \A s \in sessions : s.healed <= healed

\* Sessions that stay, under tables that changed nothing they depend on.
LEMMA SessionsKept ==
  ASSUME TypeInv, SessionInv, db' \in Tables, healed' = healed,
         sessions' \subseteq sessions, rows' \subseteq rows,
         \A s \in sessions' : s.kind = "opaque" => db'.state.pw = db.state.pw,
         \A r \in rows' : r.kind = "login" => db'.cred.pw = db.cred.pw,
         \A s \in sessions' : s.kind = "device" => usable_durable(s.device)',
         \A s \in sessions' : s.kind = "recovery" =>
           /\ db'.state.rec = db.state.rec
           /\ db'.state.on <=> db.state.on
           /\ db'.pending = db.pending
  PROVE  SessionInv'
  BY DEF SessionInv, LivePassword, NoSessionOfLostDevice, CancelledMeansWaiting,
         LoginsCurrent, Released

\* One session more, under the same tables.
LEMMA SessionAdded ==
  ASSUME TypeInv, SessionInv, NEW s \in SessionType,
         UNCHANGED <<db, healed>>, rows' \subseteq rows, sessions' = sessions \cup {s},
         s.healed <= healed,
         s.kind = "opaque" => s.pw = db.state.pw,
         s.kind = "device" => usable_durable(s.device),
         s.kind = "recovery" => /\ s.rec = db.state.rec
                                /\ db.pending = [rec |-> s.rec, wait |-> 0]
  PROVE  SessionInv'
  <1>1. db.state.rec \in 1..MaxSeq
    BY DEF TypeInv, TypeOK, Tables, States
  <1>. QED
    BY <1>1, AccountAssumption
    DEF SessionInv, LivePassword, NoSessionOfLostDevice, CancelledMeansWaiting,
        LoginsCurrent, Released, usable_durable, device_set, Holding

LEMMA SessionLogin ==
  ASSUME TypeInv, SessionInv
  PROVE  /\ login_start => SessionInv'
         /\ \A r \in rows, d \in Devices \cup {Nobody} : login_finish(r, d) => SessionInv'
         /\ \A r \in rows : finish_refused(r) => SessionInv'
  <1>1. ASSUME login_start PROVE SessionInv'
    BY <1>1 DEF login_start, NewRow, SessionInv, LivePassword, NoSessionOfLostDevice,
       CancelledMeansWaiting, LoginsCurrent, Released, usable_durable, device_set, Holding
  <1>2. ASSUME NEW r \in rows, NEW d \in Devices \cup {Nobody}, login_finish(r, d)
        PROVE  SessionInv'
    <2> DEFINE s == [NewSession("opaque", d) EXCEPT !.pw = r.pw]
    <2>1. NewSession("opaque", d) \in SessionType /\ r.pw \in 0..MaxSeq /\ healed \in Nat
      BY NewSessionType DEF Kinds, TypeInv, TypeOK, SingleUse
    <2>2. s \in SessionType /\ s.kind = "opaque" /\ s.pw = r.pw /\ s.healed = healed
      BY <2>1 DEF SessionType, NewSession
    <2>3. r.pw = db.state.pw
      BY <1>2 DEF login_finish, MayLogIn, CredentialLags, SessionInv, LoginsCurrent
    <2>4. PICK q \in SessionType : q = s
      BY <2>2
    <2>5. sessions' = sessions \cup {q} /\ rows' \subseteq rows /\ UNCHANGED <<db, healed>>
      BY <1>2, <2>4 DEF login_finish, create
    <2> HIDE DEF s
    <2>6. q.kind = "opaque" /\ q.pw = db.state.pw /\ q.healed <= healed
      BY <2>1, <2>2, <2>3, <2>4
    <2>. QED
      BY <2>5, <2>6, SessionAdded
  <1>3. ASSUME NEW r \in rows, finish_refused(r) PROVE SessionInv'
    BY <1>3 DEF finish_refused, SessionInv, LivePassword, NoSessionOfLostDevice,
       CancelledMeansWaiting, LoginsCurrent, Released, usable_durable, device_set, Holding
  <1>. QED
    BY <1>1, <1>2, <1>3

LEMMA SessionDevices ==
  ASSUME TypeInv, TypeInv', SessionInv
  PROVE  /\ \A d \in Devices : device_auth_start(d) => SessionInv'
         /\ \A r \in rows : device_auth_finish(r) => SessionInv'
         /\ \A s \in sessions, d \in Devices :
              suspend_device(s, d) \/ unsuspend_device(s, d) \/ enrol_device(s, d) => SessionInv'
  <1> db \in Tables /\ db' \in Tables /\ db.state \in States
    BY DEF TypeInv, TypeOK, Tables
  <1>1. ASSUME NEW d \in Devices, device_auth_start(d) PROVE SessionInv'
    BY <1>1 DEF device_auth_start, NewRow, SessionInv, LivePassword, NoSessionOfLostDevice,
       CancelledMeansWaiting, LoginsCurrent, Released, usable_durable, device_set, Holding
  <1>2. ASSUME NEW r \in rows, device_auth_finish(r) PROVE SessionInv'
    <2> DEFINE s == [NewSession("device", r.device) EXCEPT !.healed = 0]
    <2>1. r.device \in Devices /\ NewSession("device", r.device) \in SessionType /\ healed \in Nat
      BY <1>2, NewSessionType DEF device_auth_finish, Kinds, TypeInv, TypeOK
    <2>2. s \in SessionType /\ s.kind = "device" /\ s.device = r.device /\ s.healed = 0
      BY <2>1 DEF SessionType, NewSession
    <2>3. /\ db'.state = db.state /\ db'.cred = db.cred /\ db'.pending = db.pending
          /\ db'.suspended = db.suspended /\ db'.revoked = db.revoked
          /\ Holding(db') = Holding(db) \cup {r.device}
      BY <1>2 DEF device_auth_finish, Tables, Holding
    <2>4. db.suspended \subseteq Holding(db)
      BY DEF TypeInv
    <2>5. usable_durable(r.device)'
      BY <1>2, <2>3, <2>4
      DEF device_auth_finish, device_key, Reconcilable, usable_durable, device_set
    <2>8. PICK n \in SessionType : n = s
      BY <2>2
    <2>6. sessions' = sessions \cup {n} /\ rows' \subseteq rows /\ healed' = healed
      BY <1>2, <2>8 DEF device_auth_finish, create
    <2>9. n.kind = "device" /\ n.device = r.device /\ n.healed = 0
      BY <2>2, <2>8
    <2> HIDE DEF s
    <2>7. \A q \in sessions : q.kind = "device" => usable_durable(q.device)'
      BY <2>3 DEF SessionInv, NoSessionOfLostDevice, usable_durable, device_set
    <2>. QED
      BY <2>1, <2>9, <2>3, <2>5, <2>6, <2>7
      DEF SessionInv, LivePassword, NoSessionOfLostDevice, CancelledMeansWaiting,
          LoginsCurrent, Released
  <1>3. ASSUME NEW s \in sessions, NEW d \in Devices,
               suspend_device(s, d) \/ unsuspend_device(s, d)
        PROVE  SessionInv'
    <2>1. /\ db'.state = db.state /\ db'.cred = db.cred /\ db'.pending = db.pending
          /\ db'.certs = db.certs /\ db'.revoked = db.revoked
      BY <1>3 DEF suspend_device, unsuspend_device, Tables
    <2>2. \A q \in sessions' : q.kind = "device" => usable_durable(q.device)'
      BY <1>3, <2>1 DEF suspend_device, unsuspend_device, Tables, end_device,
         SessionInv, NoSessionOfLostDevice, usable_durable, device_set, Holding
    <2>3. sessions' \subseteq sessions /\ rows' = rows /\ healed' = healed
      BY <1>3 DEF suspend_device, unsuspend_device, end_device
    <2>. QED
      BY <2>1, <2>2, <2>3, SessionsKept
  <1>4. ASSUME NEW s \in sessions, NEW d \in Devices, enrol_device(s, d) PROVE SessionInv'
    <2> DEFINE next == [db.state EXCEPT !.seq = @ + 1, !.devices = device_set(db) \cup {d}]
    <2>1. next.pw = db.state.pw /\ next.rec = db.state.rec /\ (next.on <=> db.state.on)
      BY DEF States
    <2> HIDE DEF next
    <2>2. db' = [db EXCEPT !.certs["new"] = @ \cup {d}, !.state = next, !.adopted = TRUE]
      BY <1>4, Zenon DEF enrol_device, next
    <2>3. /\ db'.state = next /\ db'.cred = db.cred /\ db'.pending = db.pending
          /\ db'.revoked = db.revoked /\ db'.suspended = db.suspended
          /\ Holding(db) \subseteq Holding(db')
      BY <2>2 DEF Tables, Holding
    <2>4. \A q \in sessions' : q.kind = "device" => usable_durable(q.device)'
      BY <1>4, <2>3
      DEF enrol_device, SessionInv, NoSessionOfLostDevice, usable_durable, device_set
    <2>. QED
      BY <1>4, <2>1, <2>3, <2>4, SessionsKept DEF enrol_device
  <1>. QED
    BY <1>1, <1>2, <1>3, <1>4

LEMMA SessionRecovery ==
  ASSUME TypeInv, TypeInv', SessionInv
  PROVE  /\ \A rec \in 1..MaxSeq : recovery_start(rec) => SessionInv'
         /\ \A rec \in 1..MaxSeq : recovery_complete(rec) => SessionInv'
         /\ \A s \in sessions : recovery_cancel(s) => SessionInv'
  <1> db \in Tables /\ db' \in Tables /\ db.state \in States
    BY DEF TypeInv, TypeOK, Tables
  <1>1. ASSUME NEW rec \in 1..MaxSeq, recovery_start(rec) PROVE SessionInv'
    <2>1. /\ db'.state = db.state /\ db'.cred = db.cred
          /\ db'.pending = [rec |-> rec, wait |-> RecoveryWait]
          /\ UNCHANGED <<sessions, rows, healed>>
      BY <1>1 DEF recovery_start, Tables
    <2>2. \A d : usable_durable(d)' <=> usable_durable(d)
      BY <1>1 DEF recovery_start, Tables, usable_durable, device_set, Holding
    <2>3. rec = db.state.rec /\ db.state.on
      BY <1>1 DEF recovery_start, CodeValid, RecoveryLags
    <2>4. \A s \in sessions : s.kind = "recovery" /\ s.healed = healed => s.rec < rec
      <3> SUFFICES ASSUME NEW s \in sessions, s.kind = "recovery", s.healed = healed
                   PROVE  s.rec < rec
        OBVIOUS
      <3>1. s.rec \in Nat /\ s.rec <= rec
        <4>1. s \in SessionType
          BY DEF TypeInv, TypeOK
        <4>2. s.rec \in 0..MaxSeq
          BY <4>1 DEF SessionType
        <4>3. s.rec <= db.state.rec
          BY DEF SessionInv, Released
        <4>. QED
          BY <2>3, <4>2, <4>3, AccountAssumption
      <3>2. s.rec = rec => db.pending = [rec |-> rec, wait |-> 0]
        BY <2>3 DEF SessionInv, Released
      <3>3. s.rec # rec
        BY <1>1, <3>2 DEF recovery_start, NoPending
      <3>. QED
        BY <3>1, <3>3
    <2>. QED
      BY <2>1, <2>2, <2>3, <2>4
      DEF SessionInv, LivePassword, NoSessionOfLostDevice, CancelledMeansWaiting,
          LoginsCurrent, Released, TypeInv, TypeOK, SessionType
  <1>2. ASSUME NEW rec \in 1..MaxSeq, recovery_complete(rec) PROVE SessionInv'
    <2> DEFINE s == [NewSession("recovery", Nobody) EXCEPT !.rec = rec]
    <2>1. NewSession("recovery", Nobody) \in SessionType /\ healed \in Nat
      BY NewSessionType DEF Kinds, TypeInv, TypeOK
    <2>2. s \in SessionType /\ s.kind = "recovery" /\ s.rec = rec /\ s.healed = healed
      BY <2>1 DEF SessionType, NewSession
    <2>3. rec = db.state.rec /\ db.pending = [rec |-> rec, wait |-> 0]
      BY <1>2 DEF recovery_complete, CodeValid, RecoveryLags, Tables
    <2>4. PICK q \in SessionType : q = s
      BY <2>2
    <2>5. sessions' = sessions \cup {q} /\ rows' = rows /\ UNCHANGED <<db, healed>>
      BY <1>2, <2>4 DEF recovery_complete, create
    <2> HIDE DEF s
    <2>. QED
      BY <2>1, <2>2, <2>3, <2>4, <2>5, SessionAdded
  <1>3. ASSUME NEW s \in sessions, recovery_cancel(s) PROVE SessionInv'
    <2>1. db'.state = db.state /\ db'.cred = db.cred
      BY <1>3 DEF recovery_cancel, Tables
    <2>2. \A d : usable_durable(d)' <=> usable_durable(d)
      BY <1>3 DEF recovery_cancel, Tables, usable_durable, device_set, Holding
    <2>3. /\ sessions' \subseteq sessions /\ \A q \in sessions' : q.kind # "recovery"
          /\ rows' = rows /\ healed' = healed
      BY <1>3 DEF recovery_cancel, end_kind
    <2>4. \A q \in sessions' : q.kind = "device" => usable_durable(q.device)'
      BY <2>2, <2>3 DEF SessionInv, NoSessionOfLostDevice
    <2>. QED
      BY <2>1, <2>3, <2>4, SessionsKept
  <1>. QED
    BY <1>1, <1>2, <1>3

LEMMA SessionCommit ==
  ASSUME TypeInv, TypeInv', SessionInv, NEW s \in sessions, NEW c \in Changes,
         commit_change(s, c)
  PROVE  SessionInv'
  <1> DEFINE new == NextState(c)
  <1>1. /\ db \in Tables /\ db' \in Tables /\ db.state \in States /\ c \in ChangeType
        /\ check_objects(c)
    BY AccountAssumption DEF TypeInv, TypeOK, Tables, commit_change
  <1>2. /\ new \in States
        /\ new.pw = IF c.pw THEN db.state.pw + 1 ELSE db.state.pw
        /\ new.rec = IF c.rec = "new" THEN db.state.rec + 1 ELSE db.state.rec
        /\ new.on <=> c.rec = "new" \/ (c.rec # "off" /\ db.state.on)
    BY NextStateType DEF commit_change
  <1> HIDE DEF new
  <1>3. /\ db'.state = new /\ db'.cred = Credential(c, new)
        /\ db'.pending = IF c.rec \in {"new", "off"} THEN NoPending ELSE db.pending
        /\ db'.revoked = db.revoked \cup c.revoke
        /\ db'.suspended = db.suspended /\ Holding(db) \subseteq Holding(db')
    BY <1>1 DEF commit_change, Tables, Holding, new
  <1>4. /\ sessions' \subseteq sessions /\ rows' \subseteq rows /\ healed' = healed
        /\ \A q \in sessions' : q.device \notin c.revoke
        /\ c.pw => \A q \in sessions' : q.kind \notin {"opaque", "recovery"}
    BY DEF commit_change, end_sessions, end_device, end_kind, put_credential
  <1>5. LivePassword'
    BY <1>1, <1>2, <1>3, <1>4 DEF SessionInv, LivePassword, ChangeType
  <1>6. NoSessionOfLostDevice'
    BY <1>3, <1>4 DEF SessionInv, NoSessionOfLostDevice, usable_durable, device_set
  <1>7. LoginsCurrent'
    <2>1. CASE c.reg \/ c.ak
      BY <2>1 DEF commit_change, put_credential, LoginsCurrent
    <2>2. CASE ~(c.reg \/ c.ak)
      BY <1>3, <1>4, <2>2 DEF Credential, SessionInv, LoginsCurrent
    <2>. QED
      BY <2>1, <2>2
  <1>8. \A q \in sessions' : q.healed <= healed'
    BY <1>4 DEF SessionInv
  <1>9. Released' /\ CancelledMeansWaiting'
    <2>1. \A q \in sessions' : q.rec \in Nat
      BY <1>4, AccountAssumption DEF TypeInv, TypeOK, SessionType
    <2>2. db.state.rec \in Nat
      BY <1>1, AccountAssumption DEF States
    <2>3. CASE c.rec \in {"new", "off"}
      <3>1. db'.pending = NoPending
        BY <1>3, <2>3
      <3>2. \A q \in sessions' : q.kind = "recovery" /\ q.healed = healed =>
              0 < q.rec /\ q.rec <= db.state.rec
        BY <1>4 DEF SessionInv, Released
      <3>3. CASE c.rec = "new"
        BY <1>2, <1>3, <1>4, <2>1, <2>2, <3>1, <3>2, <3>3
        DEF Released, CancelledMeansWaiting, NoPending
      <3>4. CASE c.rec = "off"
        BY <1>2, <1>3, <1>4, <2>1, <2>2, <3>1, <3>2, <3>4
        DEF Released, CancelledMeansWaiting, NoPending
      <3>. QED
        BY <2>3, <3>3, <3>4
    <2>4. CASE c.rec \notin {"new", "off"}
      BY <1>2, <1>3, <1>4, <2>4 DEF SessionInv, Released, CancelledMeansWaiting
    <2>. QED
      BY <2>3, <2>4
  <1>. QED
    BY <1>5, <1>6, <1>7, <1>8, <1>9 DEF SessionInv

LEMMA SessionRestore ==
  ASSUME TypeInv, TypeInv', SessionInv
  PROVE  /\ restore => SessionInv'
         /\ \A s \in sessions : publish_account_state(s) => SessionInv'
  <1>1. ASSUME restore PROVE SessionInv'
    BY <1>1 DEF restore, SessionInv, LivePassword, NoSessionOfLostDevice,
       CancelledMeansWaiting, LoginsCurrent, Released
  <1>2. ASSUME NEW s \in sessions, publish_account_state(s) PROVE SessionInv'
    <2>1. CASE same_state(s)
      BY <1>2, <2>1 DEF publish_account_state, same_state, SessionInv, LivePassword,
         NoSessionOfLostDevice, CancelledMeansWaiting, LoginsCurrent, Released,
         usable_durable, device_set, Holding
    <2>2. CASE adopt_state(s)
      <3> DEFINE k == known[s.device]
      <3>1. db \in Tables
        BY DEF TypeInv, TypeOK
      <3>2. /\ db'.cred = db.cred /\ db'.revoked = db.revoked \cup k.revoked
            /\ db'.suspended = db.suspended /\ Holding(db) \subseteq Holding(db')
        BY <2>2, <3>1 DEF adopt_state, Tables, Holding
      <3>3. /\ sessions' = {q \in sessions : q.device \notin k.revoked}
            /\ rows' = rows /\ healed' = healed + 1
        BY <1>2, <2>2 DEF publish_account_state, adopt_state, end_device
      <3>4. \A q \in sessions' : q.healed <= healed /\ q.healed \in Nat /\ healed \in Nat
        BY <3>3 DEF SessionInv, TypeInv, TypeOK, SessionType
      <3>5. \A q \in sessions' : q.healed <= healed' /\ q.healed # healed'
        BY <3>3, <3>4
      <3>6. NoSessionOfLostDevice'
        BY <3>2, <3>3 DEF SessionInv, NoSessionOfLostDevice, usable_durable, device_set
      <3>7. LoginsCurrent'
        BY <3>2, <3>3 DEF SessionInv, LoginsCurrent
      <3>. QED
        BY <3>5, <3>6, <3>7 DEF SessionInv, LivePassword, CancelledMeansWaiting, Released
    <2>. QED
      BY <1>2, <2>1, <2>2 DEF publish_account_state
  <1>. QED
    BY <1>1, <1>2

LEMMA SessionTick == TypeInv /\ SessionInv /\ Tick => SessionInv'
  <1> SUFFICES ASSUME TypeInv, SessionInv, Tick PROVE SessionInv'
    OBVIOUS
  <1>1. /\ db'.state = db.state /\ db'.cred = db.cred /\ db'.pending.rec = db.pending.rec
        /\ db.pending.wait = 0 => db'.pending = db.pending
        /\ healed' = healed
    BY OlderTables DEF Tick, TypeInv, TypeOK
  <1>2. \A d : usable_durable(d)' <=> usable_durable(d)
    BY OlderTables DEF Tick, TypeInv, TypeOK, usable_durable, device_set, Holding
  <1>3. \A r \in rows' : \E q \in rows : r.kind = q.kind /\ r.pw = q.pw
    <2>1. \A r \in rows' : \E q \in rows : r = [q EXCEPT !.age = @ + 1]
      BY Purged DEF Tick, TypeInv, TypeOK
    <2>. QED
      BY <2>1 DEF TypeInv, TypeOK, SingleUse
  <1>4. \A r \in sessions' : \E q \in sessions :
          /\ r.kind = q.kind /\ r.device = q.device /\ r.pw = q.pw /\ r.rec = q.rec
          /\ r.healed = q.healed
    <2>1. \A r \in sessions' : \E q \in sessions : r = [q EXCEPT !.age = @ + 1]
      BY Purged DEF Tick, TypeInv, TypeOK
    <2>. QED
      BY <2>1 DEF TypeInv, TypeOK, SessionType
  <1>5. LivePassword' /\ LoginsCurrent' /\ \A s \in sessions' : s.healed <= healed'
    BY <1>1, <1>3, <1>4 DEF SessionInv, LivePassword, LoginsCurrent
  <1>6. NoSessionOfLostDevice'
    BY <1>2, <1>4 DEF SessionInv, NoSessionOfLostDevice
  <1>7. Released' /\ CancelledMeansWaiting'
    BY <1>1, <1>4 DEF SessionInv, Released, CancelledMeansWaiting
  <1>. QED
    BY <1>5, <1>6, <1>7 DEF SessionInv

LEMMA SessionStep == TypeInv /\ TypeInv' /\ SessionInv /\ [Next]_vars => SessionInv'
  <1> SUFFICES ASSUME TypeInv, TypeInv', SessionInv, [Next]_vars PROVE SessionInv'
    OBVIOUS
  <1>1. CASE UNCHANGED <<db, rows, sessions, healed>>
    BY <1>1 DEF SessionInv, LivePassword, NoSessionOfLostDevice, CancelledMeansWaiting,
       LoginsCurrent, Released, usable_durable, device_set, Holding
  <1>. QED
    BY <1>1, SessionLogin, SessionDevices, SessionRecovery, SessionCommit, SessionRestore,
       SessionTick DEF Next, vars, begin_reauth, refresh, take_backup

LEMMA SessionsHold == Spec => []SessionInv
  <1>1. Init => SessionInv
    BY DEF Init, SessionInv, LivePassword, NoSessionOfLostDevice, CancelledMeansWaiting,
       LoginsCurrent, Released
  <1>. QED
    BY <1>1, TypeHolds, SessionStep, PTL DEF Spec

\* Every session is one that could still be opened: a password change, a
\* suspension or a revocation leaves none of the old ones, whatever logins and
\* device authentications were under way (login.rs, device.rs, session.rs).
THEOREM SessionsStayLive == Spec => []SessionsLive
  <1>1. SessionInv => SessionsLive
    BY DEF SessionInv, SessionsLive
  <1>. QED
    BY <1>1, SessionsHold, PTL

\* No recovery session lives while a recovery of its code still waits: a new code,
\* switching recovery off or a cancellation never leaves one behind that a later
\* recovery would serve (recovery.rs, change.rs).
THEOREM CancelledRecoveryWaits == Spec => []CancelledMeansWaiting
  <1>1. SessionInv => CancelledMeansWaiting
    BY DEF SessionInv
  <1>. QED
    BY <1>1, SessionsHold, PTL

\* Between restores the server forgets no revocation and its account-state never
\* goes back, in healing too (change.rs, healing.rs).
THEOREM RevocationsStand == Spec => RevocationStands
  <1> DEFINE Stands == restores' = restores =>
                         /\ db.revoked \subseteq db'.revoked
                         /\ db.state # db'.state => db.state.seq < db'.state.seq
  <1>1. TypeInv /\ [Next]_vars => [Stands]_vars
    <2> SUFFICES ASSUME TypeInv, Next, restores' = restores
                 PROVE  /\ db.revoked \subseteq db'.revoked
                        /\ db.state # db'.state => db.state.seq < db'.state.seq
      OBVIOUS
    <2>1. /\ db \in Tables /\ db.state \in States /\ db.state.seq \in Nat
          /\ restores \in Nat
      BY AccountAssumption DEF TypeInv, TypeOK, Tables, States
    <2>2. CASE db' = db
      BY <2>2
    <2>3. CASE \E r \in rows : device_auth_finish(r)
      BY <2>1, <2>3 DEF device_auth_finish, Tables
    <2>4. CASE \E s \in sessions, d \in Devices : suspend_device(s, d) \/ unsuspend_device(s, d)
      BY <2>1, <2>4 DEF suspend_device, unsuspend_device, Tables
    <2>5. CASE \E s \in sessions, d \in Devices : enrol_device(s, d)
      <3>1. PICK s \in sessions, d \in Devices : enrol_device(s, d)
        BY <2>5
      <3> DEFINE next == [db.state EXCEPT !.seq = @ + 1, !.devices = device_set(db) \cup {d}]
      <3>2. next.seq = db.state.seq + 1
        BY <2>1 DEF States
      <3>3. db'.revoked = db.revoked /\ db'.state = next
        BY <2>1, <3>1 DEF enrol_device, Tables
      <3>. QED
        BY <2>1, <3>2, <3>3
    <2>6. CASE \/ \E rec \in 1..MaxSeq : recovery_start(rec)
               \/ \E s \in sessions : recovery_cancel(s)
      BY <2>1, <2>6 DEF recovery_start, recovery_cancel, Tables
    <2>7. CASE \E s \in sessions, c \in Changes : commit_change(s, c)
      <3>1. PICK s \in sessions, c \in Changes : commit_change(s, c)
        BY <2>7
      <3>2. NextState(c).seq = db.state.seq + 1
        BY <3>1, NextStateType DEF commit_change
      <3>3. db'.state = NextState(c) /\ db.revoked \subseteq db'.revoked
        BY <2>1, <3>1 DEF commit_change, Tables
      <3>. QED
        BY <2>1, <3>2, <3>3
    <2>8. CASE restore
      BY <2>1, <2>8 DEF restore
    <2>9. CASE \E s \in sessions : publish_account_state(s)
      <3>1. PICK s \in sessions : publish_account_state(s)
        BY <2>9
      <3>2. CASE adopt_state(s)
        <4>1. db'.state = known[s.device] /\ db.revoked \subseteq db'.revoked
          BY <2>1, <3>2 DEF adopt_state, Tables
        <4>2. /\ s.device \in Devices /\ known[s.device] \in States
              /\ known[s.device].seq \in Nat /\ known[s.device].seq > db.state.seq
          BY <3>1, <3>2, AccountAssumption
          DEF publish_account_state, adopt_state, TypeInv, TypeOK, SessionType, States
        <4>. QED
          BY <2>1, <4>1, <4>2
      <3>. QED
        BY <3>1, <3>2 DEF publish_account_state, same_state
    <2>10. CASE Tick
      BY <2>1, <2>10, OlderTables DEF Tick
    <2>. QED
      BY <2>2, <2>3, <2>4, <2>5, <2>6, <2>7, <2>8, <2>9, <2>10
      DEF Next, login_start, begin_reauth, refresh, login_finish, finish_refused,
          device_auth_start, recovery_complete, take_backup
  <1>. QED
    BY <1>1, TypeHolds, PTL DEF Spec, RevocationStands

(***************************************************************************)
(* The request window                                                      *)
(***************************************************************************)

\* A session starts with nothing accepted.
LEMMA WindowStart == WindowInit => WindowInv
<1> SUFFICES ASSUME WindowInit PROVE WindowInv
    OBVIOUS
<1>1. WindowTypeOK
    BY WindowAssumption DEF WindowInit, WindowTypeOK, Windows, NoWindow, Nothing, Counters, Bits
<1>2. Accepted = {}
    BY DEF WindowInit, Accepted
<1>3. WindowExact
    BY <1>2 DEF WindowInit, WindowExact, NoWindow
<1> QED
    BY <1>1, <1>2, <1>3 DEF WindowInv, AcceptedOnce, RefusedRightly, WindowInit

\* The first half of a request changes nothing that counts.
LEMMA WindowLoad ==
  ASSUME WindowInv, NEW q \in Requests, NEW c \in Counters, load_session(q, c)
  PROVE  WindowInv'
<1> USE DEF WindowInv, load_session
<1>1. WindowTypeOK'
    BY DEF WindowTypeOK
<1>2. \A r \in Requests : /\ request'[r].at = "accepted" <=> request[r].at = "accepted"
                          /\ request'[r].at = "refused" <=> request[r].at = "refused"
                          /\ request[r].at \in {"accepted", "refused"} => request'[r] = request[r]
    BY DEF WindowTypeOK
<1>3. Accepted' = Accepted
    BY <1>2 DEF Accepted
<1>4. \A r \in Accepted : request'[r] = request[r]
    BY <1>2 DEF Accepted
<1>5. WindowExact'
    BY <1>3, <1>4 DEF WindowExact
<1>6. AcceptedOnce'
    BY <1>3, <1>4 DEF AcceptedOnce
<1>7. RefusedRightly'
    BY <1>2, <1>3, <1>4 DEF RefusedRightly
<1> QED
    BY <1>1, <1>5, <1>6, <1>7

\* Under the lock a counter is accepted only when no request had it, and the
\* bitmap stays exact.
LEMMA WindowAuthenticate ==
  ASSUME WindowInv, NEW q \in Requests, authenticate_request(q)
  PROVE  WindowInv'
<1> DEFINE c == request[q].counter
<1> USE WindowAssumption DEF WindowInv
<1>1. /\ c \in Counters /\ c \in Nat /\ request[q].at = "loaded"
      /\ window.max \in Counters \cup {Nothing} /\ window.seen \subseteq Bits
    BY DEF WindowTypeOK, Windows, authenticate_request, Counters
<1>2. \A r \in Requests : request[r].counter \in Nat
    BY DEF WindowTypeOK, Counters
<1>5. NoWindow \in Windows
    BY DEF NoWindow, Windows
<1>3. CASE Admits(window, c)
  <2>1. /\ window' = accept(window, c)
        /\ request' = [request EXCEPT ![q] = [at |-> "accepted", counter |-> c, read |-> NoWindow]]
      BY <1>3 DEF authenticate_request, reload, Answered
  <2>2. \A r \in Requests : /\ request'[r].counter = request[r].counter
                            /\ r # q => request'[r] = request[r]
      BY <2>1 DEF WindowTypeOK
  <2>3. Accepted' = Accepted \cup {q} /\ q \notin Accepted
      BY <2>1, <1>1 DEF Accepted, WindowTypeOK
  <2>4. \A r \in Accepted : request[r].counter # c
    <3>1. CASE window.max = Nothing
        BY <3>1 DEF WindowExact
    <3>2. CASE window.max # Nothing /\ c > window.max
      <4>1. window.max \in Nat
          BY <3>2, <1>1 DEF Counters
      <4>2. \A r \in Accepted : request[r].counter \in Nat /\ request[r].counter <= window.max
          BY <3>2, <1>2 DEF WindowExact, Accepted
      <4> HIDE DEF c
      <4> QED
          BY <4>1, <4>2, <3>2, <1>1
    <3>3. CASE window.max # Nothing /\ ~(c > window.max)
      <4>1. window.max \in Nat
          BY <3>3, <1>1 DEF Counters
      <4>2. window.max - c \in Bits /\ window.max - c \notin window.seen
          BY <3>3, <1>1, <1>3, <4>1 DEF Admits, Bits
      <4>3. window.max - (window.max - c) = c
          BY <4>1, <1>1
      <4> QED
          BY <3>3, <4>2, <4>3 DEF WindowExact
    <3> QED
        BY <3>1, <3>2, <3>3
  <2>5. WindowTypeOK'
    <3>1. accept(window, c) \in Windows
        BY <1>1, <1>3, SMT DEF accept, Admits, Windows, Shifted, Bits, Counters, Nothing
    <3>2. request' \in [Requests -> [at: {"sent", "loaded", "accepted", "refused"},
                                     counter: Counters, read: Windows]]
        BY <2>1, <1>1, <1>5 DEF WindowTypeOK
    <3> QED
        BY <3>1, <3>2, <2>1 DEF WindowTypeOK
  <2>6. WindowExact'
    <3>1. CASE window.max = Nothing
      <4>1. Accepted' = {q} /\ window' = [max |-> c, seen |-> {0}]
          BY <3>1, <2>1, <2>3 DEF WindowExact, accept
      <4>2. {i \in Bits : \E r \in {q} : request'[r].counter = c - i} = {0}
          BY <2>2, <1>1 DEF Bits
      <4> QED
          BY <4>1, <4>2, <2>2, <1>1 DEF WindowExact, Counters, Nothing
    <3>2. CASE window.max # Nothing /\ c > window.max
      <4>1. window' = [max |-> c, seen |-> Shifted(window.seen, c - window.max) \cup {0}]
          BY <3>2, <2>1 DEF accept
      <4>2. window.max \in Nat
          BY <3>2, <1>1 DEF Counters
      <4>3. \A i \in Bits : i \in Shifted(window.seen, c - window.max) <=>
                              \E r \in Accepted : request[r].counter = c - i
        <5> SUFFICES ASSUME NEW i \in Bits
                     PROVE  i - (c - window.max) \in window.seen <=>
                              \E r \in Accepted : request[r].counter = c - i
            BY DEF Shifted
        <5>1. i \in Nat /\ i - (c - window.max) <= i
            BY <4>2, <1>1, <3>2 DEF Bits
        <5>2. window.max - (i - (c - window.max)) = c - i
            BY <5>1, <4>2, <1>1
        <5>3. CASE i - (c - window.max) \in Bits
            BY <5>2, <5>3, <3>2 DEF WindowExact
        <5>4. CASE i - (c - window.max) \notin Bits
          <6>1. c - i > window.max
              BY <5>4, <5>1, <4>2, <1>1, <3>2 DEF Bits
          <6>2. ~\E r \in Accepted : request[r].counter = c - i
              BY <6>1, <3>2, <1>2, <4>2 DEF WindowExact, Accepted
          <6> QED
              BY <5>4, <6>2, <1>1
        <5> QED
            BY <5>3, <5>4
      <4>4. \A i \in Bits : c = c - i <=> i = 0
          BY <1>1 DEF Bits
      <4>5. 0 \in Bits
          BY DEF Bits
      <4>6. window'.seen = {i \in Bits : \E r \in Accepted' : request'[r].counter = c - i}
          BY <4>1, <4>3, <4>4, <4>5, <2>2, <2>3 DEF Accepted, Shifted
      <4>7. \A r \in Accepted' : request'[r].counter <= c
          BY <2>2, <2>3, <3>2, <1>1, <1>2, <4>2 DEF WindowExact, Accepted
      <4> QED
          BY <4>1, <4>6, <4>7, <2>2, <2>3, <1>1 DEF WindowExact, Counters, Nothing
    <3>3. CASE window.max # Nothing /\ ~(c > window.max)
      <4>1. window' = [max |-> window.max, seen |-> window.seen \cup {window.max - c}]
          BY <3>3, <2>1 DEF accept
      <4>2. window.max \in Nat
          BY <3>3, <1>1 DEF Counters
      <4>3. window.max - c \in Bits
          BY <3>3, <1>1, <1>3, <4>2 DEF Admits, Bits
      <4>4. \A i \in Bits : c = window.max - i <=> i = window.max - c
          BY <1>1, <4>2 DEF Bits
      <4>5. window'.seen =
              {i \in Bits : \E r \in Accepted' : request'[r].counter = window.max - i}
          BY <4>1, <4>3, <4>4, <2>2, <2>3, <3>3 DEF WindowExact, Accepted
      <4>6. \A r \in Accepted' : request'[r].counter <= window.max
          BY <2>2, <2>3, <3>3, <1>1, <4>2 DEF WindowExact, Accepted
      <4>7. \E r \in Accepted' : request'[r].counter = window.max
          BY <2>2, <2>3, <3>3 DEF WindowExact, Accepted
      <4> QED
          BY <4>1, <4>5, <4>6, <4>7, <3>3 DEF WindowExact
    <3> QED
        BY <3>1, <3>2, <3>3
  <2>7. AcceptedOnce'
      BY <2>2, <2>3, <2>4 DEF AcceptedOnce, Accepted
  <2>8. RefusedRightly'
      BY <2>1, <2>2, <2>3, <1>1 DEF RefusedRightly, Accepted, WindowTypeOK
  <2> QED
      BY <2>5, <2>6, <2>7, <2>8
<1>4. CASE ~Admits(window, c)
  <2>1. window' = window /\ request' = [request EXCEPT ![q] = [at |-> "refused", counter |-> c, read |-> NoWindow]]
      BY <1>4 DEF authenticate_request, reload, Answered
  <2>2. \A r \in Requests : /\ request'[r].counter = request[r].counter
                            /\ r # q => request'[r] = request[r]
      BY <2>1 DEF WindowTypeOK
  <2>3. Accepted' = Accepted
      BY <2>1, <1>1 DEF Accepted, WindowTypeOK
  <2>4. WindowTypeOK'
      BY <2>1, <1>1, <1>5 DEF WindowTypeOK
  <2>5. WindowExact'
      BY <2>1, <2>2, <2>3 DEF WindowExact, Accepted
  <2>6. AcceptedOnce'
      BY <2>2, <2>3 DEF AcceptedOnce, Accepted
  <2>7. window.max # Nothing /\ window.max \in Nat /\ c <= window.max
      BY <1>4, <1>1 DEF Admits, Counters
  <2>8. \E s \in Accepted : request[s].counter = c \/ request[s].counter >= c + Width
    <3>1. CASE window.max - c < Width
      <4>1. window.max - c \in window.seen
          BY <3>1, <1>4 DEF Admits
      <4>2. window.max - (window.max - c) = c
          BY <2>7, <1>1
      <4> QED
          BY <4>1, <4>2, <2>7 DEF WindowExact
    <3>2. CASE ~(window.max - c < Width)
        BY <3>2, <2>7, <1>1 DEF WindowExact
    <3> QED
        BY <3>1, <3>2
  <2>9. RefusedRightly'
      BY <2>1, <2>2, <2>3, <2>8 DEF RefusedRightly, Accepted, WindowTypeOK
  <2> QED
      BY <2>4, <2>5, <2>6, <2>9
<1> QED
    BY <1>3, <1>4

\* The parts of the window's invariant hold together.
LEMMA WindowHolds == WindowSpec => []WindowInv
<1>1. WindowInit => WindowInv
    BY WindowStart
<1>2. WindowInv /\ [WindowNext]_windowVars => WindowInv'
  <2> SUFFICES ASSUME WindowInv, [WindowNext]_windowVars PROVE WindowInv'
      OBVIOUS
  <2>1. CASE WindowNext
      BY <2>1, WindowLoad, WindowAuthenticate DEF WindowNext
  <2>2. CASE UNCHANGED windowVars
      BY <2>2 DEF windowVars, WindowInv, WindowTypeOK, WindowExact, AcceptedOnce,
                  RefusedRightly, Accepted
  <2> QED
      BY <2>1, <2>2
<1> QED
    BY <1>1, <1>2, PTL DEF WindowSpec

\* The bitmap records exactly the counters accepted within the window's width.
THEOREM BitmapExact == WindowSpec => [](WindowTypeOK /\ WindowExact)
<1>1. WindowInv => WindowTypeOK /\ WindowExact
    BY DEF WindowInv
<1> QED
    BY <1>1, WindowHolds, PTL

\* No counter of a session is accepted twice, for any number of concurrent
\* requests and any width of the window, and none is refused without its reason.
THEOREM WindowCorrect == WindowSpec => []CountersExact
<1>1. WindowInv => CountersExact
    BY DEF WindowInv, CountersExact
<1> QED
    BY <1>1, WindowHolds, PTL

(***************************************************************************)
(* The second factor                                                       *)
(***************************************************************************)

\* The highest match is a match, at a step no use of which is possible yet.
LEMMA Picked ==
  ASSUME TotpInv, NEW e \in enrolments, NEW code, Matching(e, code) # {}
  PROVE  /\ Max(Matching(e, code)) \in 0..(MaxStep + 1)
         /\ e.confirmed => Max(Matching(e, code)) > e.last
<1> DEFINE M == Matching(e, code)
<1>1. timeStep \in Nat /\ timeStep <= MaxStep /\ MaxStep \in Nat
    BY TotpAssumption DEF TotpInv
<1>2. M \subseteq Nat /\ M \subseteq {timeStep - 1, timeStep, timeStep + 1}
    BY <1>1 DEF Matching, Candidates
<1>3. \E x \in M : \A y \in M : x >= y
  <2>1. CASE timeStep + 1 \in M
      BY <2>1, <1>1, <1>2
  <2>2. CASE timeStep + 1 \notin M /\ timeStep \in M
      BY <2>2, <1>1, <1>2
  <2>3. CASE timeStep + 1 \notin M /\ timeStep \notin M
      BY <2>3, <1>1, <1>2
  <2> QED
      BY <2>1, <2>2, <2>3
<1>4. Max(M) \in M
    BY <1>3 DEF Max
<1>5. \A x \in M : e.confirmed => x > e.last
    BY DEF Matching, Eligible
<1> HIDE DEF M
<1>6. \A x \in M : x \in 0..(MaxStep + 1)
    BY <1>1, <1>2
<1>7. Max(M) \in 0..(MaxStep + 1) /\ (e.confirmed => Max(M) > e.last)
    BY <1>4, <1>5, <1>6
<1> QED
    BY <1>7 DEF M

\* Using an eligible step uses it for the first time.
LEMMA FirstUse ==
  ASSUME TotpInv, NEW e \in enrolments, NEW t \in 0..(MaxStep + 1),
         e.confirmed => t > e.last,
         uses' = [uses EXCEPT ![<<e.secret, t>>] = @ + 1]
  PROVE  /\ uses' \in [(1..Secrets) \X (0..(MaxStep + 1)) -> Nat]
         /\ CodeOnce'
         /\ \A k \in 1..Secrets, u \in 0..(MaxStep + 1) :
              k # e.secret \/ u # t => uses'[<<k, u>>] = uses[<<k, u>>]
<1>1. Secrets \in Nat /\ drawn \in 0..Secrets /\ e.secret \in 1..drawn
    BY TotpAssumption DEF TotpInv
<1>2. e.secret \in 1..Secrets
    BY <1>1
<1>3. <<e.secret, t>> \in (1..Secrets) \X (0..(MaxStep + 1))
    BY <1>2
<1>4. uses[<<e.secret, t>>] = 0
    BY DEF TotpInv, UnusedAbove
<1>5. uses \in [(1..Secrets) \X (0..(MaxStep + 1)) -> Nat]
    BY DEF TotpInv
<1>6. uses' \in [(1..Secrets) \X (0..(MaxStep + 1)) -> Nat]
    BY <1>5, <1>3
<1>7. \A p \in (1..Secrets) \X (0..(MaxStep + 1)) :
        uses'[p] = IF p = <<e.secret, t>> THEN 1 ELSE uses[p]
    BY <1>3, <1>4, <1>5
<1>8. CodeOnce'
    BY <1>5, <1>6, <1>7 DEF TotpInv, CodeOnce
<1> QED
    BY <1>6, <1>7, <1>8

\* A login's code.
LEMMA TotpLogin ==
  ASSUME TotpInv, NEW e \in enrolments, NEW code, check_second_factor(e, code)
  PROVE  TotpInv'
<1> DEFINE t == Max(Matching(e, code))
           g == Stepped(e, t)
<1>1. /\ enrolments' = (enrolments \ {e}) \cup {g} /\ e.confirmed
      /\ uses' = [uses EXCEPT ![<<e.secret, t>>] = @ + 1]
      /\ timeStep' = timeStep /\ drawn' = drawn /\ Matching(e, code) # {}
    BY DEF check_second_factor, verify_stored, StepOf, confirmed
<1>2. t \in 0..(MaxStep + 1) /\ t > e.last
    BY <1>1, Picked
<1> HIDE DEF t
<1>3. /\ uses' \in [(1..Secrets) \X (0..(MaxStep + 1)) -> Nat]
      /\ CodeOnce'
      /\ \A k \in 1..Secrets, u \in 0..(MaxStep + 1) :
           k # e.secret \/ u # t => uses'[<<k, u>>] = uses[<<k, u>>]
    BY <1>1, <1>2, FirstUse
<1>4. /\ g.seq = e.seq /\ g.secret = e.secret /\ g.confirmed = TRUE /\ g.last = t
    BY DEF Stepped
<1>5. Secrets \in Nat /\ drawn \in 0..Secrets /\ MaxStep \in Nat /\ t \in Nat /\ e.last \in Nat
    BY TotpAssumption, <1>2 DEF TotpInv
<1> HIDE DEF g
<1>6. \A f \in enrolments' : /\ f.seq \in Nat /\ f.secret \in 1..drawn
                             /\ f.confirmed \in BOOLEAN /\ f.last \in Nat
    BY <1>1, <1>4, <1>5 DEF TotpInv
<1>7. \A f, h \in enrolments' : f.secret = h.secret => f = h
    BY <1>1, <1>4 DEF TotpInv
<1>8. UnusedAbove'
  <2>1. ASSUME NEW f \in enrolments', NEW u \in 0..(MaxStep + 1), ~f.confirmed \/ u > f.last
        PROVE  uses'[<<f.secret, u>>] = 0
    <3>1. CASE f = g
      <4>1. u # t /\ u > e.last
          BY <3>1, <2>1, <1>2, <1>4, <1>5
      <4>2. uses[<<e.secret, u>>] = 0
          BY <4>1 DEF TotpInv, UnusedAbove
      <4>3. e.secret \in 1..Secrets
          BY <1>5 DEF TotpInv
      <4> QED
          BY <4>1, <4>2, <4>3, <3>1, <1>3, <1>4
    <3>2. CASE f # g
      <4>1. f \in enrolments /\ f # e
          BY <3>2, <1>1
      <4>2. f.secret # e.secret /\ uses[<<f.secret, u>>] = 0 /\ f.secret \in 1..Secrets
          BY <4>1, <2>1, <1>5 DEF TotpInv, UnusedAbove
      <4> QED
          BY <4>2, <1>3
    <3> QED
        BY <3>1, <3>2
  <2>2. ASSUME NEW k \in 1..Secrets, NEW u \in 0..(MaxStep + 1), k > drawn
        PROVE  uses'[<<k, u>>] = 0
    <3>1. k # e.secret
        BY <2>2, <1>5 DEF TotpInv
    <3>2. uses[<<k, u>>] = 0
        BY <2>2 DEF TotpInv, UnusedAbove
    <3> QED
        BY <3>1, <3>2, <1>3
  <2> QED
      BY <2>1, <2>2, <1>1 DEF UnusedAbove
<1>9. OneFactor'
  <2> SUFFICES ASSUME NEW f \in enrolments', NEW h \in enrolments',
                      (f.confirmed <=> h.confirmed) \/ f.seq = h.seq
               PROVE  f = h
      BY DEF OneFactor
  <2>1. \A x \in enrolments \ {e} : ~x.confirmed /\ x.seq # e.seq
      BY <1>1 DEF TotpInv, OneFactor
  <2>2. \A x, y \in enrolments : (x.confirmed <=> y.confirmed) \/ x.seq = y.seq => x = y
      BY DEF TotpInv, OneFactor
  <2> QED
      BY <2>1, <2>2, <1>1, <1>4
<1> QED
    BY <1>1, <1>3, <1>6, <1>7, <1>8, <1>9 DEF TotpInv

\* A confirmation leaves only the confirmed enrolment.
LEMMA TotpConfirm ==
  ASSUME TotpInv, NEW e \in enrolments, NEW code, totp_enrol_confirm(e, code)
  PROVE  TotpInv'
<1> DEFINE t == Max(Matching(e, code))
           g == Stepped(e, t)
<1>1. /\ enrolments' = {g} /\ ~e.confirmed
      /\ uses' = [uses EXCEPT ![<<e.secret, t>>] = @ + 1]
      /\ timeStep' = timeStep /\ drawn' = drawn /\ Matching(e, code) # {}
    BY DEF totp_enrol_confirm, verify_stored, StepOf, confirmed, delete_except
<1>2. t \in 0..(MaxStep + 1)
    BY <1>1, Picked
<1> HIDE DEF t
<1>3. /\ uses' \in [(1..Secrets) \X (0..(MaxStep + 1)) -> Nat]
      /\ CodeOnce'
      /\ \A k \in 1..Secrets, u \in 0..(MaxStep + 1) :
           k # e.secret \/ u # t => uses'[<<k, u>>] = uses[<<k, u>>]
    BY <1>1, <1>2, FirstUse
<1>4. /\ g.seq = e.seq /\ g.secret = e.secret /\ g.confirmed = TRUE /\ g.last = t
    BY DEF Stepped
<1>5. Secrets \in Nat /\ drawn \in 0..Secrets /\ MaxStep \in Nat /\ t \in Nat
    BY TotpAssumption, <1>2 DEF TotpInv
<1> HIDE DEF g
<1>6. e.secret \in 1..drawn /\ e.secret \in 1..Secrets /\ e.seq \in Nat
    BY <1>5 DEF TotpInv
<1>7. \A u \in 0..(MaxStep + 1) : u > t => uses'[<<e.secret, u>>] = 0
  <2> SUFFICES ASSUME NEW u \in 0..(MaxStep + 1), u > t
               PROVE  uses'[<<e.secret, u>>] = 0
      OBVIOUS
  <2>1. uses[<<e.secret, u>>] = 0
      BY <1>1 DEF TotpInv, UnusedAbove
  <2>2. u # t
      BY <1>5
  <2> QED
      BY <2>1, <2>2, <1>3, <1>6
<1>8. \A k \in 1..Secrets, u \in 0..(MaxStep + 1) : k > drawn => uses'[<<k, u>>] = 0
  <2> SUFFICES ASSUME NEW k \in 1..Secrets, NEW u \in 0..(MaxStep + 1), k > drawn
               PROVE  uses'[<<k, u>>] = 0
      OBVIOUS
  <2>1. k # e.secret
      BY <1>5, <1>6
  <2>2. uses[<<k, u>>] = 0
      BY DEF TotpInv, UnusedAbove
  <2> QED
      BY <2>1, <2>2, <1>3
<1>9. UnusedAbove'
    BY <1>1, <1>4, <1>7, <1>8 DEF UnusedAbove
<1>10. OneFactor' /\ \A f, h \in enrolments' : f.secret = h.secret => f = h
    BY <1>1 DEF OneFactor
<1>11. \A f \in enrolments' : /\ f.seq \in Nat /\ f.secret \in 1..drawn
                              /\ f.confirmed \in BOOLEAN /\ f.last \in Nat
    BY <1>1, <1>4, <1>5, <1>6
<1> QED
    BY <1>1, <1>3, <1>9, <1>10, <1>11 DEF TotpInv

\* Disabling spends a code like a login.
LEMMA TotpDisable ==
  ASSUME TotpInv, NEW e \in enrolments, NEW code, totp_disable(e, code)
  PROVE  TotpInv'
<1> DEFINE t == Max(Matching(e, code))
<1>1. /\ enrolments' = {} /\ e.confirmed
      /\ uses' = [uses EXCEPT ![<<e.secret, t>>] = @ + 1]
      /\ timeStep' = timeStep /\ drawn' = drawn /\ Matching(e, code) # {}
    BY DEF totp_disable, verify_stored, StepOf, confirmed
<1>2. t \in 0..(MaxStep + 1) /\ t > e.last
    BY <1>1, Picked
<1> HIDE DEF t
<1>3. /\ uses' \in [(1..Secrets) \X (0..(MaxStep + 1)) -> Nat]
      /\ CodeOnce'
      /\ \A k \in 1..Secrets, u \in 0..(MaxStep + 1) :
           k # e.secret \/ u # t => uses'[<<k, u>>] = uses[<<k, u>>]
    BY <1>1, <1>2, FirstUse
<1>4. \A k \in 1..Secrets, u \in 0..(MaxStep + 1) : k > drawn => uses'[<<k, u>>] = 0
  <2> SUFFICES ASSUME NEW k \in 1..Secrets, NEW u \in 0..(MaxStep + 1), k > drawn
               PROVE  uses'[<<k, u>>] = 0
      OBVIOUS
  <2>1. k # e.secret
      BY TotpAssumption DEF TotpInv
  <2>2. uses[<<k, u>>] = 0
      BY DEF TotpInv, UnusedAbove
  <2> QED
      BY <2>1, <2>2, <1>3
<1> QED
    BY <1>1, <1>3, <1>4 DEF TotpInv, UnusedAbove, OneFactor

\* A new enrolment has an unused secret and the next sequence number.
LEMMA TotpStart ==
  ASSUME TotpInv, totp_enrol_start
  PROVE  TotpInv'
<1> DEFINE seqs == {e.seq : e \in confirmed} \cup {0}
           g == [seq |-> Max(seqs) + 1, secret |-> drawn + 1, confirmed |-> FALSE, last |-> 0]
<1>1. /\ drawn < Secrets /\ drawn' = drawn + 1 /\ uses' = uses /\ timeStep' = timeStep
      /\ enrolments' = confirmed \cup {g}
    BY DEF totp_enrol_start
<1>2. confirmed \subseteq enrolments /\ \A e \in confirmed : e.confirmed
    BY DEF confirmed
<1>3. \A e, f \in confirmed : e = f
    BY <1>2 DEF TotpInv, OneFactor
<1>4. \A x \in seqs : x \in Nat
    BY <1>2 DEF TotpInv
<1>5. \E x \in seqs : \A y \in seqs : x >= y
  <2>1. CASE confirmed = {}
      BY <2>1
  <2>2. CASE confirmed # {}
    <3>1. PICK e \in confirmed : TRUE
        BY <2>2
    <3>2. e.seq \in seqs /\ e.seq \in Nat
        BY <1>4
    <3>3. \A y \in seqs : y = e.seq \/ y = 0
        BY <1>3
    <3> QED
        BY <3>2, <3>3
  <2> QED
      BY <2>1, <2>2
<1>6. Max(seqs) \in seqs /\ \A y \in seqs : Max(seqs) >= y
    BY <1>5 DEF Max
<1>7. Max(seqs) + 1 \in Nat /\ \A e \in confirmed : e.seq # Max(seqs) + 1
  <2>1. \A e \in confirmed : e.seq \in seqs
      OBVIOUS
  <2> HIDE DEF seqs
  <2>2. \A y \in seqs : y # Max(seqs) + 1
      BY <1>4, <1>6
  <2> QED
      BY <2>1, <2>2, <1>4, <1>6
<1>8. /\ g.seq \in Nat /\ g.secret = drawn + 1 /\ g.confirmed = FALSE /\ g.last = 0
      /\ \A e \in confirmed : e.seq # g.seq
    BY <1>7
<1>9. Secrets \in Nat /\ drawn \in Nat /\ MaxStep \in Nat /\ drawn + 1 \in 1..Secrets
    BY TotpAssumption, <1>1 DEF TotpInv
<1> HIDE DEF g, seqs
<1>10. \A f \in enrolments' : /\ f.seq \in Nat /\ f.secret \in 1..(drawn + 1)
                              /\ f.confirmed \in BOOLEAN /\ f.last \in Nat
  <2>1. \A f \in enrolments : /\ f.seq \in Nat /\ f.secret \in 1..drawn
                               /\ f.confirmed \in BOOLEAN /\ f.last \in Nat
      BY DEF TotpInv
  <2>2. 1..drawn \subseteq 1..(drawn + 1) /\ drawn + 1 \in 1..(drawn + 1) /\ 0 \in Nat
      BY <1>9
  <2> QED
      BY <2>1, <2>2, <1>1, <1>2, <1>8, Zenon
<1>11. \A f, h \in enrolments' : f.secret = h.secret => f = h
  <2>1. \A f \in confirmed : f.secret # drawn + 1
      BY <1>2, <1>9 DEF TotpInv
  <2> QED
      BY <2>1, <1>1, <1>2, <1>8 DEF TotpInv
<1>12. UnusedAbove'
  <2>1. \A u \in 0..(MaxStep + 1) : uses[<<drawn + 1, u>>] = 0
      BY <1>9 DEF TotpInv, UnusedAbove
  <2>2. \A f \in enrolments' : \A u \in 0..(MaxStep + 1) :
          ~f.confirmed \/ u > f.last => uses[<<f.secret, u>>] = 0
      BY <2>1, <1>1, <1>2, <1>8 DEF TotpInv, UnusedAbove
  <2>3. \A k \in 1..Secrets : \A u \in 0..(MaxStep + 1) :
          k > drawn + 1 => uses[<<k, u>>] = 0
      BY <1>9 DEF TotpInv, UnusedAbove
  <2> QED
      BY <2>2, <2>3, <1>1 DEF UnusedAbove
<1>13. OneFactor'
    BY <1>1, <1>2, <1>3, <1>8 DEF OneFactor
<1> QED
    BY <1>1, <1>9, <1>10, <1>11, <1>12, <1>13 DEF TotpInv, CodeOnce

\* The parts of the second factor's invariant hold together.
LEMMA TotpHolds == TotpSpec => []TotpInv
<1>1. TotpInit => TotpInv
    BY TotpAssumption DEF TotpInit, TotpInv, UnusedAbove, CodeOnce, OneFactor
<1>2. TotpInv /\ [TotpNext]_totpVars => TotpInv'
  <2> SUFFICES ASSUME TotpInv, [TotpNext]_totpVars PROVE TotpInv'
      OBVIOUS
  <2>1. CASE totp_enrol_start
      BY <2>1, TotpStart
  <2>2. CASE clock
      BY <2>2, TotpAssumption DEF clock, TotpInv, UnusedAbove, CodeOnce, OneFactor
  <2>3. CASE \E e \in enrolments, code \in Codes : check_second_factor(e, code)
      BY <2>3, TotpLogin
  <2>4. CASE \E e \in enrolments, code \in Codes : totp_enrol_confirm(e, code)
      BY <2>4, TotpConfirm
  <2>5. CASE \E e \in enrolments, code \in Codes : totp_disable(e, code)
      BY <2>5, TotpDisable
  <2>6. CASE UNCHANGED totpVars
      BY <2>6 DEF totpVars, TotpInv, UnusedAbove, CodeOnce, OneFactor
  <2> QED
      BY <2>1, <2>2, <2>3, <2>4, <2>5, <2>6 DEF TotpNext
<1> QED
    BY <1>1, <1>2, PTL DEF TotpSpec

\* A step of a secret is accepted at most once, for every number of secrets and
\* steps and every assignment of codes to steps, equal codes included.
THEOREM StepAcceptedOnce == TotpSpec => []CodeOnce
<1>1. TotpInv => CodeOnce
    BY DEF TotpInv
<1> QED
    BY <1>1, TotpHolds, PTL

\* One enrolment counts, beside at most one that is pending.
THEOREM FactorUnique == TotpSpec => []OneFactor
<1>1. TotpInv => OneFactor
    BY DEF TotpInv
<1> QED
    BY <1>1, TotpHolds, PTL

(***************************************************************************)
(* The rate limits                                                         *)
(***************************************************************************)

\* The worker may delete a row past its time at any moment, or never: the next
\* attempt is admitted and leaves the same row either way.
THEOREM PurgeChangesNothing ==
  ASSUME NEW row \in Rows, NEW t \in Nat, t >= Expires(row)
  PROVE  ~IsBlocked(row, t) /\ ~IsBlocked(NoRow, t) /\ step(row, t) = step(NoRow, t)
<1>1. row.started \in Nat /\ row.blocked \in Nat /\ Window \in Nat
    BY RateAssumption DEF Rows
<1>2. t >= row.blocked
    BY <1>1 DEF Expires, later
<1>3. ~IsBlocked(row, t) /\ ~IsBlocked(NoRow, t)
    BY <1>1, <1>2 DEF IsBlocked, NoRow
<1>4. Quiet(row, t) /\ Quiet(NoRow, t)
    BY DEF Quiet, NoRow
<1> QED
    BY <1>3, <1>4 DEF step

\* A set of natural numbers has a least element.
LEMMA LeastElement ==
  ASSUME NEW T \in SUBSET Nat, T # {}
  PROVE  \E x \in T : \A y \in T : x <= y
<1> DEFINE R == OpToRel(<, Nat)
<1>1. IsWellFoundedOn(R, Nat)
    BY NatLessThanWellFounded
<1>2. \A x, y \in Nat : y < x => <<y, x>> \in R
    BY DEF OpToRel
<1> HIDE DEF R
<1>3. PICK x \in T : \A y \in T : ~(<<y, x>> \in R)
    BY <1>1, WFMin
<1>4. \A y \in T : ~(y < x) /\ x \in Nat /\ y \in Nat
    BY <1>2, <1>3
<1> QED
    BY <1>4

\* The values of a recursion on the naturals up to the n-th.
Climbs(f, n, base, G) ==
  /\ f \in [0..n -> Nat] /\ f[0] = base
  /\ \A i \in 1..n : f[i] = G[<<i, f[i - 1]>>]

\* They exist, for every n.
LEMMA ClimbsExist ==
  ASSUME NEW base \in Nat, NEW G \in [Nat \X Nat -> Nat], NEW n \in Nat
  PROVE  \E f : Climbs(f, n, base, G)
<1> DEFINE T == {k \in Nat : ~\E f : Climbs(f, k, base, G)}
<1> SUFFICES ASSUME T # {}
             PROVE  FALSE
    OBVIOUS
<1>1. PICK m \in T : \A k \in T : m <= k
    BY LeastElement
<1>2. m \in Nat /\ ~\E f : Climbs(f, m, base, G)
    OBVIOUS
<1>3. CASE m = 0
  <2>1. Climbs([i \in 0..0 |-> base], 0, base, G)
      BY DEF Climbs
  <2> QED
      BY <1>2, <1>3, <2>1
<1>4. CASE m # 0
  <2>1. m - 1 \in Nat /\ m - 1 \notin T
      BY <1>1, <1>2, <1>4
  <2>2. PICK f : Climbs(f, m - 1, base, G)
      BY <2>1
  <2> DEFINE g == [i \in 0..m |-> IF i = m THEN G[<<m, f[m - 1]>>] ELSE f[i]]
  <2>3. \A i \in 0..m - 1 : f[i] \in Nat
      BY <2>2 DEF Climbs
  <2>a. m - 1 \in 0..m - 1
      BY <2>1
  <2>b. <<m, f[m - 1]>> \in Nat \X Nat
      BY <1>2, <2>3, <2>a
  <2>4. g \in [0..m -> Nat] /\ g[0] = base
    <3>1. G[<<m, f[m - 1]>>] \in Nat
        BY <2>b
    <3>2. \A i \in 0..m : i # m => i \in 0..m - 1
        BY <1>2
    <3>3. 0 \in 0..m /\ f[0] = base
        BY <1>2, <2>2 DEF Climbs
    <3> QED
        BY <1>4, <2>3, <3>1, <3>2, <3>3
  <2>5. ASSUME NEW i \in 1..m
        PROVE  g[i] = G[<<i, g[i - 1]>>]
    <3>1. i - 1 \in 0..m /\ i - 1 # m /\ i \in 0..m
        BY <1>2
    <3>2. g[i - 1] = f[i - 1]
        BY <3>1
    <3>3. CASE i = m
        BY <3>1, <3>2, <3>3
    <3>4. CASE i # m
      <4>1. i \in 1..m - 1
          BY <1>2, <3>4
      <4>2. f[i] = G[<<i, f[i - 1]>>]
          BY <2>2, <4>1 DEF Climbs
      <4> QED
          BY <3>1, <3>2, <3>4, <4>2
    <3> QED
        BY <3>3, <3>4
  <2> HIDE DEF g
  <2>6. Climbs(g, m, base, G)
      BY <2>4, <2>5 DEF Climbs
  <2> QED
      BY <1>2, <2>6
<1> QED
    BY <1>3, <1>4

\* And are the same however many are taken.
LEMMA ClimbsAgree ==
  ASSUME NEW base, NEW G, NEW m \in Nat, NEW n \in Nat, NEW f, NEW g,
         Climbs(f, m, base, G), Climbs(g, n, base, G),
         NEW i \in Nat, i <= m, i <= n
  PROVE  f[i] = g[i]
<1> DEFINE T == {k \in Nat : k <= m /\ k <= n /\ f[k] # g[k]}
<1> SUFFICES ASSUME T # {}
             PROVE  FALSE
    OBVIOUS
<1>1. PICK k \in T : \A j \in T : k <= j
    BY LeastElement
<1>2. k \in Nat /\ k <= m /\ k <= n /\ f[k] # g[k] /\ k # 0
    BY DEF Climbs
<1>3. k - 1 \in Nat /\ k - 1 \notin T /\ k \in 1..m /\ k \in 1..n
    BY <1>1, <1>2
<1>4. f[k - 1] = g[k - 1]
    BY <1>2, <1>3
<1> QED
    BY <1>2, <1>3, <1>4 DEF Climbs

\* So the recursion defines a function.
LEMMA ClimbAll ==
  ASSUME NEW base \in Nat, NEW G \in [Nat \X Nat -> Nat]
  PROVE  \E F \in [Nat -> Nat] : /\ F[0] = base
                                 /\ \A k \in Nat \ {0} : F[k] = G[<<k, F[k - 1]>>]
<1> DEFINE Pick(k) == CHOOSE f : Climbs(f, k, base, G)
           F == [k \in Nat |-> Pick(k)[k]]
<1>1. \A k \in Nat : Climbs(Pick(k), k, base, G)
    BY ClimbsExist
<1> HIDE DEF Pick
<1>2. ASSUME NEW k \in Nat
      PROVE  F[k] \in Nat /\ F[k] = IF k = 0 THEN base ELSE G[<<k, F[k - 1]>>]
  <2>1. Climbs(Pick(k), k, base, G) /\ k \in 0..k
      BY <1>1
  <2>2. F[k] \in Nat
      BY <2>1 DEF Climbs
  <2>3. CASE k = 0
      BY <2>1, <2>2, <2>3 DEF Climbs
  <2>4. CASE k # 0
    <3>1. PICK j \in Nat : k = j + 1
        BY <2>4
    <3>2. Climbs(Pick(j), j, base, G) /\ F[j] = Pick(j)[j] /\ F[k] = Pick(k)[k]
        BY <1>1
    <3>3. Pick(k)[j] = Pick(j)[j]
      <4>1. j <= k /\ j <= j
          BY <3>1
      <4> QED
          BY <2>1, <3>2, <4>1, ClimbsAgree
    <3>4. Pick(k)[k] = G[<<k, Pick(k)[j]>>]
      <4>1. k \in 1..k /\ k - 1 = j
          BY <3>1
      <4> QED
          BY <2>1, <4>1 DEF Climbs
    <3> QED
        BY <2>2, <2>4, <3>1, <3>2, <3>3, <3>4
  <2> QED
      BY <2>3, <2>4
<1>3. F \in [Nat -> Nat]
    BY <1>2
<1> HIDE DEF F
<1> QED
    BY <1>2, <1>3

\* What holds at 0, and after k whenever it holds at k, holds of every number.
LEMMA EveryNumber ==
  ASSUME NEW T, 0 \in T, \A k \in Nat : k \in T => k + 1 \in T
  PROVE  \A k \in Nat : k \in T
<1> DEFINE M == {k \in Nat : k \notin T}
<1> SUFFICES ASSUME M # {}
             PROVE  FALSE
    OBVIOUS
<1>1. PICK m \in M : \A k \in M : m <= k
    BY LeastElement
<1>2. m \in Nat /\ m \notin T /\ m # 0
    OBVIOUS
<1>3. PICK j \in Nat : m = j + 1
    BY <1>2
<1>4. ~(m <= j)
    BY <1>3
<1>5. j \in T
    BY <1>1, <1>4
<1> QED
    BY <1>2, <1>3, <1>5

\* The doubling times of a backoff: numbers, the first one Base, each twice the
\* one before.
LEMMA DoublingClimbs ==
  /\ Doubling[0] = Base
  /\ \A k \in Nat : Doubling[k] \in Nat /\ Doubling[k + 1] = 2 * Doubling[k]
<1> DEFINE G == [p \in Nat \X Nat |-> 2 * p[2]]
           Eq(f) == f = [k \in Nat |-> IF k = 0 THEN Base ELSE 2 * f[k - 1]]
<1>0. Base \in Nat
    BY RateAssumption
<1>1. G \in [Nat \X Nat -> Nat] /\ \A k, v \in Nat : G[<<k, v>>] = 2 * v
    OBVIOUS
<1> HIDE DEF G
<1>2. PICK F \in [Nat -> Nat] : F[0] = Base /\ \A k \in Nat \ {0} : F[k] = G[<<k, F[k - 1]>>]
    BY <1>0, <1>1, ClimbAll
<1>3. \A k \in Nat : F[k] = IF k = 0 THEN Base ELSE 2 * F[k - 1]
  <2> TAKE k \in Nat
  <2>1. CASE k # 0
    <3>1. k - 1 \in Nat /\ k \in Nat \ {0}
        BY <2>1
    <3>2. F[k] = G[<<k, F[k - 1]>>] /\ F[k - 1] \in Nat
        BY <1>2, <3>1
    <3> QED
        BY <1>1, <2>1, <3>1, <3>2
  <2> QED
      BY <1>2, <2>1
<1>4. Eq(F)
    BY <1>3
<1>5. Doubling = CHOOSE f : Eq(f)
    BY DEF Doubling
<1>6. Eq(Doubling)
  <2> HIDE DEF Eq
  <2> QED
      BY <1>4, <1>5
<1>7. \A k \in Nat : Doubling[k] = IF k = 0 THEN Base ELSE 2 * Doubling[k - 1]
    BY <1>6
<1>8. \A k \in Nat : Doubling[k + 1] = 2 * Doubling[k]
  <2> TAKE k \in Nat
  <2>1. k + 1 \in Nat /\ k + 1 # 0 /\ (k + 1) - 1 = k
      OBVIOUS
  <2> QED
      BY <1>7, <2>1
<1> HIDE DEF Eq
<1> DEFINE T == {k \in Nat : Doubling[k] \in Nat}
<1>9. 0 \in T
    BY <1>0, <1>7
<1>10. \A k \in Nat : k \in T => k + 1 \in T
    BY <1>8
<1>11. \A k \in Nat : k \in T
  <2> HIDE DEF T
  <2> QED
      BY <1>9, <1>10, EveryNumber
<1> QED
    BY <1>7, <1>8, <1>11

\* They do not fall.
LEMMA DoublingGrows ==
  ASSUME NEW i \in Nat, NEW j \in Nat, i <= j
  PROVE  Doubling[i] \in Nat /\ Doubling[j] \in Nat /\ 1 <= Doubling[i] /\ Doubling[i] <= Doubling[j]
<1> DEFINE T == {k \in Nat : Doubling[i] <= Doubling[i + k]}
           U == {k \in Nat : 1 <= Doubling[k]}
<1>0. Base \in Nat \ {0}
    BY RateAssumption
<1>1. \A k \in Nat : Doubling[k] \in Nat /\ Doubling[k + 1] = 2 * Doubling[k]
    BY DoublingClimbs
<1>2. 0 \in U
    BY <1>0, DoublingClimbs
<1>3. \A k \in Nat : k \in U => k + 1 \in U
    BY <1>1
<1>4. 0 \in T
    BY <1>1
<1>5. ASSUME NEW k \in Nat, k \in T
      PROVE  k + 1 \in T
  <2>1. i + k \in Nat /\ (i + k) + 1 = i + (k + 1)
      OBVIOUS
  <2>2. Doubling[i + (k + 1)] = 2 * Doubling[i + k] /\ Doubling[i + k] \in Nat /\ Doubling[i] \in Nat
      BY <1>1, <2>1
  <2> QED
      BY <1>5, <2>2
<1> HIDE DEF T, U
<1>6. i \in U /\ j - i \in Nat /\ i + (j - i) = j
    BY <1>2, <1>3, EveryNumber
<1>7. j - i \in T
    BY <1>4, <1>5, <1>6, EveryNumber
<1> QED
    BY <1>1, <1>6, <1>7 DEF T, U

\* A backoff lasts, never falls as attempts go on, and never exceeds the cap.
LEMMA BackoffGrows ==
  ASSUME NEW a \in Nat \ {0}, NEW b \in Nat \ {0}, a <= b
  PROVE  /\ Backoff(a) \in Nat /\ 1 <= Backoff(a) /\ Backoff(a) <= Cap
         /\ Backoff(b) \in Nat /\ Backoff(a) <= Backoff(b)
<1>1. PICK i \in Nat : i = least(a - 1, 40)
    BY DEF least
<1>2. PICK j \in Nat : j = least(b - 1, 40)
    BY DEF least
<1>3. i <= j
    BY <1>1, <1>2 DEF least
<1>4. PICK x \in Nat : x = Doubling[i]
    BY DoublingClimbs
<1>5. PICK y \in Nat : y = Doubling[j]
    BY DoublingClimbs
<1>6. 1 <= x /\ x <= y
    BY <1>3, <1>4, <1>5, DoublingGrows
<1>7. Cap \in Nat \ {0}
    BY RateAssumption
<1>8. Backoff(a) = (IF x < Cap THEN x ELSE Cap) /\ Backoff(b) = (IF y < Cap THEN y ELSE Cap)
    BY <1>1, <1>2, <1>4, <1>5 DEF Backoff, least
<1> QED
    BY <1>6, <1>7, <1>8

\* A backoff never exceeds the cap, however far over the limit.
LEMMA BackoffCapped ==
  ASSUME NEW over \in Nat \ {0}
  PROVE  Backoff(over) \in Nat /\ Backoff(over) <= Cap
  BY BackoffGrows

\* The row of an attempt is a row, blocked no later than the cap from now.
LEMMA StepBlocks ==
  ASSUME NEW t \in Nat, NEW row \in Rows, row.blocked <= t + Cap
  PROVE  step(row, t) \in Rows /\ step(row, t).blocked <= t + Cap
<1> DEFINE fresh == [attempts |-> 0, started |-> t, blocked |-> 0]
<1>0. Cap \in Nat /\ MaxAttempts \in Nat
    BY RateAssumption
<1>1. fresh \in Rows /\ fresh.blocked <= t + Cap
    BY <1>0 DEF Rows
<1>2. PICK c \in Rows : /\ c = IF Quiet(row, t) THEN fresh ELSE row
                        /\ c.blocked <= t + Cap
    BY <1>1
<1> HIDE DEF fresh
<1>3. c.attempts \in Nat /\ c.started \in Nat /\ c.blocked \in Nat
    BY DEF Rows
<1>4. PICK n \in Nat : n = c.attempts + 1
    BY <1>3
<1>5. PICK b \in Nat : /\ b = IF n > MaxAttempts THEN t + Backoff(n - MaxAttempts) ELSE c.blocked
                       /\ b <= t + Cap
  <2>1. CASE n > MaxAttempts
    <3>1. n - MaxAttempts \in Nat \ {0}
        BY <1>0, <1>4, <2>1
    <3>2. PICK d \in Nat : d = Backoff(n - MaxAttempts) /\ d <= Cap
        BY <3>1, BackoffCapped
    <3> QED
        BY <1>0, <2>1, <3>2
  <2>2. CASE ~(n > MaxAttempts)
      BY <1>2, <1>3, <2>2
  <2> QED
      BY <2>1, <2>2
<1>6. step(row, t) = [c EXCEPT !.attempts = n, !.blocked = b]
    BY <1>2, <1>4, <1>5 DEF step, fresh
<1> QED
    BY <1>3, <1>5, <1>6 DEF Rows

\* Rows that a later time reads, and no bucket blocked past the cap.
RateInv == now \in Nat /\ rate \in [Buckets -> Rows] /\ NeverLockedOut

LEMMA RateKept ==
  ASSUME RateInv, [RateNext]_rateVars
  PROVE  RateInv'
<1>0. Cap \in Nat /\ now \in Nat
    BY RateAssumption DEF RateInv
<1>1. NoRow \in Rows /\ NoRow.blocked <= now + Cap
    BY <1>0 DEF NoRow, Rows
<1>2. \A b \in Buckets : /\ rate[b] \in Rows /\ rate[b].blocked <= now + Cap
                         /\ step(rate[b], now) \in Rows /\ step(rate[b], now).blocked <= now + Cap
    BY <1>0, StepBlocks DEF RateInv, NeverLockedOut
<1>3. CASE /\ now' = now /\ DOMAIN rate' = Buckets /\ rate' = [b \in Buckets |-> rate'[b]]
           /\ \A b \in Buckets : rate'[b] \in {rate[b], step(rate[b], now), NoRow}
    BY <1>0, <1>1, <1>2, <1>3 DEF RateInv, NeverLockedOut
<1>4. ASSUME NEW s \in Sources, hit_all(s)
      PROVE  RateInv'
    BY <1>3, <1>4 DEF hit_all, RateInv, Buckets
<1>5. ASSUME NEW s \in Sources, clear(s)
      PROVE  RateInv'
    BY <1>3, <1>5 DEF clear, RateInv, Buckets
<1>6. ASSUME NEW b \in Buckets, purge_rate(b)
      PROVE  RateInv'
    BY <1>3, <1>6 DEF purge_rate, RateInv
<1>7. CASE pass_time
  <2>1. now' = now + 1 /\ rate' = rate
      BY <1>7 DEF pass_time
  <2>2. \A b \in Buckets : rate[b].blocked \in Nat
      BY <1>2 DEF Rows
  <2> QED
      BY <1>0, <1>2, <2>1, <2>2 DEF RateInv, NeverLockedOut
<1>8. CASE UNCHANGED rateVars
    BY <1>8 DEF rateVars, RateInv, NeverLockedOut
<1> QED
    BY <1>4, <1>5, <1>6, <1>7, <1>8 DEF RateNext

(***************************************************************************)
(* How many attempts a name admits                                         *)
(***************************************************************************)

\* When the attempts over the limit come at the soonest: the second one backoff
\* after the first, each later one the next backoff after the one before.
LEMMA OffsetClimbs ==
  /\ Offset[1] = 0
  /\ \A j \in Nat \ {0} : Offset[j] \in Nat /\ Offset[j + 1] = Offset[j] + Backoff(j)
<1> DEFINE G == [p \in Nat \X Nat |-> IF p[1] <= 1 THEN 0 ELSE p[2] + Backoff(p[1] - 1)]
           Eq(f) == f = [j \in Nat |-> IF j <= 1 THEN 0 ELSE f[j - 1] + Backoff(j - 1)]
<1>0. \A j \in Nat \ {0} : Backoff(j) \in Nat
    BY BackoffCapped
<1>1. \A k, v \in Nat : (IF k <= 1 THEN 0 ELSE v + Backoff(k - 1)) \in Nat
  <2> TAKE k, v \in Nat
  <2>1. CASE k <= 1
      BY <2>1
  <2>2. CASE ~(k <= 1)
    <3>1. k - 1 \in Nat \ {0}
        BY <2>2
    <3> QED
        BY <1>0, <2>2, <3>1
  <2> QED
      BY <2>1, <2>2
<1>2. /\ G \in [Nat \X Nat -> Nat]
      /\ \A k, v \in Nat : G[<<k, v>>] = IF k <= 1 THEN 0 ELSE v + Backoff(k - 1)
    BY <1>1
<1> HIDE DEF G
<1>3. PICK F \in [Nat -> Nat] : F[0] = 0 /\ \A k \in Nat \ {0} : F[k] = G[<<k, F[k - 1]>>]
  <2>1. PICK z \in Nat : z = 0
      OBVIOUS
  <2>2. \E F \in [Nat -> Nat] : F[0] = z /\ \A k \in Nat \ {0} : F[k] = G[<<k, F[k - 1]>>]
      BY <1>2, ClimbAll
  <2> QED
      BY <2>1, <2>2
<1>4. \A k \in Nat : F[k] = IF k <= 1 THEN 0 ELSE F[k - 1] + Backoff(k - 1)
  <2> TAKE k \in Nat
  <2>1. CASE k # 0
    <3>1. k - 1 \in Nat /\ k \in Nat \ {0}
        BY <2>1
    <3>2. F[k] = G[<<k, F[k - 1]>>] /\ F[k - 1] \in Nat
        BY <1>3, <3>1
    <3> QED
        BY <1>2, <3>1, <3>2
  <2> QED
      BY <1>3, <2>1
<1>5. Eq(F)
    BY <1>4
<1>6. Offset = CHOOSE f : Eq(f)
    BY DEF Offset
<1>7. Eq(Offset)
  <2> HIDE DEF Eq
  <2> QED
      BY <1>5, <1>6
<1>8. \A j \in Nat : Offset[j] = IF j <= 1 THEN 0 ELSE Offset[j - 1] + Backoff(j - 1)
    BY <1>7
<1>9. \A j \in Nat \ {0} : Offset[j + 1] = Offset[j] + Backoff(j)
  <2> TAKE j \in Nat \ {0}
  <2>1. j + 1 \in Nat /\ ~(j + 1 <= 1) /\ (j + 1) - 1 = j
      OBVIOUS
  <2> QED
      BY <1>8, <2>1
<1> HIDE DEF Eq
<1> DEFINE T == {k \in Nat : Offset[k + 1] \in Nat}
<1>10. 0 \in T
  <2>1. 0 + 1 = 1 /\ Offset[1] = 0
      BY <1>8
  <2> QED
      BY <2>1
<1>11. ASSUME NEW k \in Nat, k \in T
       PROVE  k + 1 \in T
  <2>1. k + 1 \in Nat \ {0} /\ Offset[k + 1] \in Nat /\ Backoff(k + 1) \in Nat
      BY <1>0, <1>11
  <2>2. Offset[(k + 1) + 1] = Offset[k + 1] + Backoff(k + 1)
      BY <1>9, <2>1
  <2> QED
      BY <2>1, <2>2
<1>12. \A k \in Nat : k \in T
  <2> HIDE DEF T
  <2> QED
      BY <1>10, <1>11, EveryNumber
<1>13. \A j \in Nat \ {0} : Offset[j] \in Nat
  <2> TAKE j \in Nat \ {0}
  <2>1. j - 1 \in Nat /\ (j - 1) + 1 = j
      OBVIOUS
  <2> QED
      BY <1>12, <2>1
<1> QED
    BY <1>8, <1>9, <1>13

\* They come one after the other.
LEMMA OffsetGrows ==
  ASSUME NEW i \in Nat \ {0}, NEW j \in Nat, i <= j
  PROVE  Offset[i] \in Nat /\ Offset[j] \in Nat /\ Offset[i] + (j - i) <= Offset[j]
<1> DEFINE T == {k \in Nat : Offset[i] + k <= Offset[i + k]}
<1>1. \A k \in Nat \ {0} : /\ Offset[k] \in Nat /\ Offset[k + 1] = Offset[k] + Backoff(k)
                           /\ Backoff(k) \in Nat /\ 1 <= Backoff(k)
    BY OffsetClimbs, BackoffGrows
<1>2. 0 \in T
    BY <1>1
<1>3. ASSUME NEW k \in Nat, k \in T
      PROVE  k + 1 \in T
  <2>1. i + k \in Nat \ {0} /\ (i + k) + 1 = i + (k + 1) /\ Offset[i] \in Nat
      BY <1>1
  <2>2. PICK x \in Nat : x = Offset[i + k]
      BY <1>1, <2>1
  <2>3. PICK d \in Nat : d = Backoff(i + k) /\ 1 <= d
      BY <1>1, <2>1
  <2>4. Offset[i + (k + 1)] = x + d
      BY <1>1, <2>1, <2>2, <2>3
  <2>5. Offset[i] + k <= x
      BY <1>3, <2>2
  <2> QED
      BY <2>1, <2>2, <2>3, <2>4, <2>5
<1>4. \A k \in Nat : k \in T
  <2> HIDE DEF T
  <2> QED
      BY <1>2, <1>3, EveryNumber
<1>5. j - i \in Nat /\ i + (j - i) = j /\ j \in Nat \ {0}
    OBVIOUS
<1> QED
    BY <1>1, <1>4, <1>5

\* Paced is the number of attempts over the limit in less than one window: the
\* next one comes no sooner than a window after the first.
LEMMA PacedSpans == Paced \in Nat \ {0} /\ Window <= Offset[Paced + 1]
<1> DEFINE T == {j \in Nat : 1 <= j /\ Window <= Offset[j]}
<1>0. Window \in Nat \ {0}
    BY RateAssumption
<1>1. Window + 1 \in T
  <2>1. 1 \in Nat \ {0} /\ Window + 1 \in Nat /\ 1 <= Window + 1 /\ (Window + 1) - 1 = Window
      BY <1>0
  <2>2. Offset[1] + ((Window + 1) - 1) <= Offset[Window + 1]
      BY <2>1, OffsetGrows
  <2>3. Offset[1] = 0 /\ Offset[Window + 1] \in Nat
      BY <2>1, OffsetClimbs
  <2> QED
      BY <1>0, <2>1, <2>2, <2>3
<1>2. PICK p \in T : \A j \in T : p <= j
    BY <1>1, LeastElement
<1>3. p \in Nat /\ 1 <= p /\ Window <= Offset[p] /\ p <= Window + 1 /\ p # 1
    BY <1>0, <1>1, <1>2, OffsetClimbs
<1>4. PICK m \in Nat \ {0} : p = m + 1
    BY <1>3
<1>5. {j \in 1..(Window + 1) : Offset[j] < Window} = 1..m
  <2>1. ASSUME NEW j \in 1..(Window + 1), Offset[j] < Window
        PROVE  j \in 1..m
    <3>1. j \in Nat \ {0} /\ Offset[j] \in Nat
        BY <1>0, OffsetClimbs
    <3>2. CASE p <= j
      <4>1. p \in Nat \ {0} /\ Offset[p] \in Nat /\ Offset[p] + (j - p) <= Offset[j]
          BY <1>3, <3>1, <3>2, OffsetGrows
      <4> QED
          BY <1>0, <1>3, <2>1, <3>1, <3>2, <4>1
    <3> QED
        BY <1>3, <1>4, <3>1, <3>2
  <2>2. ASSUME NEW j \in 1..m
        PROVE  j \in 1..(Window + 1) /\ Offset[j] < Window
    <3>1. j \in Nat \ {0} /\ Offset[j] \in Nat /\ ~(p <= j) /\ j \in 1..(Window + 1)
        BY <1>0, <1>3, <1>4, OffsetClimbs
    <3>2. j \notin T
        BY <1>2, <3>1
    <3> QED
        BY <1>0, <3>1, <3>2
  <2> QED
      BY <2>1, <2>2
<1>6. Cardinality(1..m) = m
    BY <1>4, FS_Interval
<1>7. Paced = m
    BY <1>5, <1>6 DEF Paced
<1> QED
    BY <1>3, <1>4, <1>7


\* The times a of the attempts a name admitted, in order, none after t.
Ordered(a, t) ==
  /\ a \in Seq(Nat)
  /\ \A i, j \in 1..Len(a) : i <= j => a[i] <= a[j]
  /\ \A i \in 1..Len(a) : a[i] <= t

\* Of any Most + 1 attempts, the last is made a window after the first.
Limited(a) ==
  \A k \in 1..Len(a) : k > Most => a[k - Most] + Window <= a[k]

\* What a name's row of n attempts, started at s and blocked until u, says of the
\* times a of the attempts admitted, at time t.  It counts the last n of them, the
\* first of those at s; the limit of attempts before these were made a window
\* before s, or, when there is no row, before t; attempts over the limit are a
\* growing backoff apart.
Pace(n, s, u, a, t) ==
  /\ Ordered(a, t) /\ Limited(a) /\ n <= Len(a)
  /\ n > 0 => a[Len(a) - n + 1] = s
  /\ n > 0 /\ Len(a) - n >= MaxAttempts => a[Len(a) - n + 1 - MaxAttempts] + Window <= s
  /\ n = 0 /\ Len(a) >= MaxAttempts => a[Len(a) + 1 - MaxAttempts] + Window <= t
  /\ u = IF n > MaxAttempts THEN a[Len(a)] + Backoff(n - MaxAttempts) ELSE 0
  /\ \A i, j \in 1..Len(a) :
       Len(a) - n + MaxAttempts < i /\ i <= j => a[i] + Offset[j - i + 1] <= a[j]

\* An attempt now keeps the order.
LEMMA OrderedOn ==
  ASSUME NEW t \in Nat, NEW a, Ordered(a, t)
  PROVE  /\ Ordered(Append(a, t), t) /\ Len(a) \in Nat /\ Len(Append(a, t)) = Len(a) + 1
         /\ Append(a, t)[Len(a) + 1] = t
         /\ \A i \in 1..Len(a) : Append(a, t)[i] = a[i] /\ a[i] \in Nat /\ a[i] <= t
         /\ \A i, j \in 1..Len(a) : i <= j => a[i] <= a[j]
<1>1. a \in Seq(Nat) /\ Len(a) \in Nat
    BY DEF Ordered
<1>2. PICK m \in Nat : m = Len(a)
    BY <1>1
<1>a. Append(a, t) \in Seq(Nat)
    BY <1>1
<1>3. PICK e : e = Append(a, t) /\ e \in Seq(Nat)
    BY <1>a
<1>4. Len(e) = m + 1 /\ e[m + 1] = t /\ \A i \in 1..m : e[i] = a[i] /\ a[i] \in Nat
    BY <1>1, <1>2, <1>3
<1>5. \A i \in 1..m : a[i] <= t
    BY <1>2 DEF Ordered
<1>6. \A i, j \in 1..m : i <= j => a[i] <= a[j]
    BY <1>2 DEF Ordered
<1>7. \A i \in 1..m + 1 : i = m + 1 \/ i \in 1..m
    OBVIOUS
<1>8. \A i \in 1..m + 1 : e[i] <= t
    BY <1>4, <1>5, <1>7
<1>9. \A i, j \in 1..m + 1 : i <= j => e[i] <= e[j]
  <2> SUFFICES ASSUME NEW i \in 1..m + 1, NEW j \in 1..m + 1, i <= j
               PROVE  e[i] <= e[j]
      OBVIOUS
  <2>1. CASE j = m + 1
      BY <1>4, <1>8, <2>1
  <2>2. CASE j # m + 1
    <3>1. i \in 1..m /\ j \in 1..m
        BY <2>2
    <3> QED
        BY <1>4, <1>6, <3>1
  <2> QED
      BY <2>1, <2>2
<1>10. Ordered(e, t)
    BY <1>3, <1>4, <1>8, <1>9 DEF Ordered
<1> QED
    BY <1>2, <1>3, <1>4, <1>5, <1>6, <1>10

\* A row past its time says that the limit of attempts was made a window ago.
LEMMA QuietClears ==
  ASSUME NEW t \in Nat, NEW a, NEW n \in Nat, NEW s \in Nat, NEW u \in Nat,
         Pace(n, s, u, a, t), n = 0 \/ t >= later(s, u) + Window,
         Len(a) >= MaxAttempts
  PROVE  a[Len(a) + 1 - MaxAttempts] + Window <= t
<1>0. Window \in Nat \ {0} /\ MaxAttempts \in Nat \ {0}
    BY RateAssumption
<1>1. PICK m \in Nat : m = Len(a) /\ \A i \in 1..m : a[i] \in Nat
    BY OrderedOn DEF Pace
<1>2. \A i, j \in 1..m : i <= j => a[i] <= a[j]
    BY <1>1 DEF Pace, Ordered
<1>3. CASE n = 0
    BY <1>3 DEF Pace
<1>4. CASE n > 0
  <2>1. t >= s + Window /\ t >= u + Window
      BY <1>0, <1>4 DEF later
  <2>2. n <= m /\ a[m - n + 1] = s
      BY <1>1, <1>4 DEF Pace
  <2>3. m >= MaxAttempts
      BY <1>1
  <2>4. PICK x \in 1..m : x = m + 1 - MaxAttempts
      BY <1>0, <2>3
  <2>5. CASE n <= MaxAttempts
    <3>1. PICK y \in 1..m : y = m - n + 1
        BY <1>4, <2>2
    <3>2. x <= y
        BY <1>0, <2>4, <2>5, <3>1
    <3>3. a[x] <= a[y] /\ a[x] \in Nat /\ a[y] = s
        BY <1>1, <1>2, <2>2, <3>1, <3>2
    <3> QED
        BY <1>0, <1>1, <2>1, <2>4, <3>3
  <2>6. CASE n > MaxAttempts
    <3>1. PICK d \in Nat : d = Backoff(n - MaxAttempts)
      <4>1. n - MaxAttempts \in Nat \ {0}
          BY <1>0, <2>6
      <4> QED
          BY <4>1, BackoffCapped
    <3>2. u = a[m] + d
        BY <1>1, <2>6, <3>1 DEF Pace
    <3>3. m \in 1..m /\ x <= m
        BY <1>0, <2>3, <2>4
    <3>4. PICK f \in Nat, g \in Nat : f = a[x] /\ g = a[m]
        BY <1>1, <3>3
    <3>a. f <= g
        BY <1>2, <3>3, <3>4
    <3>5. PICK w \in Nat : w = Window
        BY <1>0
    <3>6. g + d + w <= t
        BY <2>1, <3>2, <3>4, <3>5
    <3>7. f + w <= t
        BY ONLY <3>6, <3>a, d \in Nat, f \in Nat, g \in Nat, w \in Nat, t \in Nat
    <3> QED
        BY <1>1, <2>4, <3>4, <3>5, <3>7
  <2> QED
      BY <1>0, <2>5, <2>6
<1> QED
    BY <1>3, <1>4


\* An attempt a name admits is a window after the one Most before it.
LEMMA AttemptLimited ==
  ASSUME NEW t \in Nat, NEW a, NEW n \in Nat, NEW s \in Nat, NEW u \in Nat,
         Pace(n, s, u, a, t), t >= u, Len(a) >= Most
  PROVE  a[Len(a) + 1 - Most] + Window <= t
<1>0. Window \in Nat \ {0} /\ MaxAttempts \in Nat \ {0}
    BY RateAssumption
<1>1. PICK m \in Nat : m = Len(a) /\ \A i \in 1..m : a[i] \in Nat /\ a[i] <= t
    BY OrderedOn DEF Pace
<1>2. \A i, j \in 1..m : i <= j => a[i] <= a[j]
    BY <1>1 DEF Pace, Ordered
<1>3. PICK p \in Nat \ {0} : p = Paced /\ Window <= Offset[p + 1]
    BY PacedSpans
<1>4. PICK q \in Nat : q = Most /\ q = 2 * MaxAttempts - 1 + p
    BY <1>0, <1>3 DEF Most
<1>5. m >= q /\ n <= m
    BY <1>1, <1>4 DEF Pace
<1>6. PICK x \in 1..m : x = m + 1 - q
    BY <1>0, <1>4, <1>5
<1>7. \A y \in 1..m : x <= y /\ a[y] + Window <= t => a[x] + Window <= t
    BY <1>0, <1>1, <1>2
<1>8. CASE n = 0 \/ t >= later(s, u) + Window
  <2>1. PICK y \in 1..m : y = m + 1 - MaxAttempts
      BY <1>0, <1>4, <1>5
  <2>2. x <= y /\ m >= MaxAttempts
      BY <1>0, <1>3, <1>4, <1>5, <1>6, <2>1
  <2>3. a[y] + Window <= t
      BY <1>1, <1>8, <2>1, <2>2, QuietClears
  <2> QED
      BY <1>1, <1>4, <1>6, <1>7, <2>2, <2>3
<1>9. CASE n > 0 /\ n >= MaxAttempts + p
  <2>1. PICK y \in 1..m : y = m + 1 - p
      BY <1>0, <1>3, <1>4, <1>5
  <2>2. x <= y /\ m - n + MaxAttempts < y /\ m \in 1..m /\ y <= m /\ m - y + 1 = p
      BY <1>0, <1>3, <1>4, <1>5, <1>6, <1>9, <2>1
  <2>3. a[y] + Offset[p] <= a[m]
    <3>1. a[y] + Offset[m - y + 1] <= a[m]
        BY <1>1, <2>2 DEF Pace
    <3> QED
        BY <2>2, <3>1
  <2>4. PICK d \in Nat \ {0} : d = n - MaxAttempts /\ p <= d
      BY <1>0, <1>3, <1>9
  <2>5. u = a[m] + Backoff(d)
      BY <1>0, <1>1, <2>4 DEF Pace
  <2>6. PICK v \in Nat, w \in Nat : v = Backoff(p) /\ w = Backoff(d) /\ v <= w
      BY <1>3, <2>4, BackoffGrows
  <2>7. PICK o \in Nat : o = Offset[p] /\ Offset[p + 1] = o + v
      BY <1>3, <2>6, OffsetClimbs
  <2>8. PICK f \in Nat, g \in Nat : f = a[y] /\ g = a[m]
      BY <1>1, <2>2
  <2>9. Window <= o + v /\ f + o <= g /\ g + w <= t
      BY <1>3, <2>3, <2>5, <2>6, <2>7, <2>8
  <2>10. a[y] + Window <= t
    <3>1. PICK k \in Nat : k = Window
        BY <1>0
    <3>2. k <= o + v /\ f + o <= g /\ g + w <= t /\ v <= w
        BY <2>6, <2>9, <3>1
    <3>3. f + k <= t
        BY ONLY <3>2, f \in Nat, g \in Nat, k \in Nat, o \in Nat, v \in Nat, w \in Nat, t \in Nat
    <3> QED
        BY <2>8, <3>1, <3>3
  <2> QED
      BY <1>1, <1>4, <1>6, <1>7, <2>2, <2>10
<1>10. CASE n > 0 /\ n < MaxAttempts + p
  <2>1. m - n >= MaxAttempts
      BY <1>0, <1>3, <1>4, <1>5, <1>10
  <2>2. PICK y \in 1..m : y = m - n + 1 - MaxAttempts
      BY <1>0, <1>5, <1>10, <2>1
  <2>3. a[y] + Window <= s
      BY <1>1, <1>10, <2>1, <2>2 DEF Pace
  <2>4. s <= t
    <3>1. PICK z \in 1..m : z = m - n + 1
        BY <1>5, <1>10
    <3>2. a[z] = s
        BY <1>1, <1>10, <3>1 DEF Pace
    <3> QED
        BY <1>1, <3>2
  <2>5. x <= y
      BY <1>0, <1>3, <1>4, <1>6, <1>10, <2>2
  <2>6. a[y] \in Nat /\ a[y] + Window <= t
      BY <1>0, <1>1, <2>3, <2>4
  <2> QED
      BY <1>1, <1>4, <1>6, <1>7, <2>5, <2>6
<1> QED
    BY <1>0, <1>3, <1>8, <1>9, <1>10


\* An attempt admitted keeps the limit.
LEMMA LimitKept ==
  ASSUME NEW t \in Nat, NEW a, NEW n \in Nat, NEW s \in Nat, NEW u \in Nat,
         Pace(n, s, u, a, t), t >= u
  PROVE  Limited(Append(a, t))
<1>0. Ordered(a, t) /\ Limited(a)
    BY DEF Pace
<1>1. PICK m \in Nat : m = Len(a)
    BY <1>0, OrderedOn
<1>2. PICK e : e = Append(a, t)
    OBVIOUS
<1>3. Len(e) = m + 1 /\ e[m + 1] = t /\ \A i \in 1..m : e[i] = a[i]
    BY <1>0, <1>1, <1>2, OrderedOn
<1>4. PICK q \in Nat : q = Most /\ q >= 1
  <2>1. MaxAttempts \in Nat \ {0}
      BY RateAssumption
  <2>2. PICK p \in Nat \ {0} : p = Paced
      BY PacedSpans
  <2> QED
      BY <2>1, <2>2 DEF Most
<1>5. ASSUME NEW k \in 1..m + 1, k > q
      PROVE  e[k - q] + Window <= e[k]
  <2>1. k - q \in 1..m
      BY <1>4, <1>5
  <2>2. CASE k = m + 1
    <3>1. m >= q /\ k - q = m + 1 - q
        BY <1>4, <1>5, <2>2
    <3>2. a[m + 1 - q] + Window <= t
        BY <1>1, <1>4, <3>1, AttemptLimited
    <3> QED
        BY <1>3, <2>1, <2>2, <3>1, <3>2
  <2>3. CASE k # m + 1
    <3>1. k \in 1..m
        BY <2>3
    <3>2. a[k - q] + Window <= a[k]
        BY <1>0, <1>1, <1>4, <1>5, <3>1 DEF Limited
    <3> QED
        BY <1>3, <2>1, <3>1, <3>2
  <2> QED
      BY <2>2, <2>3
<1> QED
    BY <1>2, <1>3, <1>4, <1>5 DEF Limited

\* An attempt that starts a row afresh.
LEMMA FreshPaced ==
  ASSUME NEW t \in Nat, NEW a, NEW n \in Nat, NEW s \in Nat, NEW u \in Nat,
         Pace(n, s, u, a, t), t >= u, n = 0 \/ t >= later(s, u) + Window
  PROVE  Pace(1, t, 0, Append(a, t), t)
<1>0. MaxAttempts \in Nat \ {0} /\ Ordered(a, t)
    BY RateAssumption DEF Pace
<1>1. PICK m \in Nat : m = Len(a)
    BY <1>0, OrderedOn
<1>2. PICK e : e = Append(a, t)
    OBVIOUS
<1>3. /\ Ordered(e, t) /\ Len(e) = m + 1 /\ e[m + 1] = t
      /\ \A i \in 1..m : e[i] = a[i]
    BY <1>0, <1>1, <1>2, OrderedOn
<1>4. Limited(e)
    BY <1>2, LimitKept
<1>5. m >= MaxAttempts => e[m + 1 - MaxAttempts] + Window <= t
  <2> HAVE m >= MaxAttempts
  <2>1. a[m + 1 - MaxAttempts] + Window <= t
      BY <1>1, QuietClears
  <2>2. m + 1 - MaxAttempts \in 1..m
      BY <1>0
  <2> QED
      BY <1>3, <2>1, <2>2
<1>6. Pace(1, t, 0, e, t)
  <2>1. (m + 1) - 1 + 1 = m + 1 /\ (m + 1) - 1 = m
      OBVIOUS
  <2>2. \A i \in 1..m + 1 : ~((m + 1) - 1 + MaxAttempts < i)
      BY <1>0
  <2>3. ~(1 > MaxAttempts)
      BY <1>0
  <2> QED
      BY <1>0, <1>3, <1>4, <1>5, <2>1, <2>2, <2>3 DEF Pace
<1> QED
    BY <1>2, <1>6

\* An attempt that a row counts with the ones before it.
LEMMA CountedPaced ==
  ASSUME NEW t \in Nat, NEW a, NEW n \in Nat \ {0}, NEW s \in Nat, NEW u \in Nat,
         Pace(n, s, u, a, t), t >= u
  PROVE  Pace(n + 1, s, IF n + 1 > MaxAttempts THEN t + Backoff(n + 1 - MaxAttempts) ELSE u,
              Append(a, t), t)
<1>0. MaxAttempts \in Nat \ {0} /\ Ordered(a, t)
    BY RateAssumption DEF Pace
<1>1. PICK m \in Nat : m = Len(a) /\ \A i \in 1..m : a[i] \in Nat
    BY <1>0, OrderedOn
<1>2. PICK e : e = Append(a, t)
    OBVIOUS
<1>3. /\ Ordered(e, t) /\ Len(e) = m + 1 /\ e[m + 1] = t
      /\ \A i \in 1..m : e[i] = a[i]
    BY <1>0, <1>1, <1>2, OrderedOn
<1>4. Limited(e)
    BY <1>2, LimitKept
<1>5. n <= m /\ a[m - n + 1] = s
    BY <1>1 DEF Pace
<1>6. PICK b \in Nat : b = m - n /\ b + 1 \in 1..m
    BY <1>5
<1>7. e[b + 1] = s
    BY <1>3, <1>5, <1>6
<1>8. b >= MaxAttempts => e[b + 1 - MaxAttempts] + Window <= s
  <2> HAVE b >= MaxAttempts
  <2>1. a[b + 1 - MaxAttempts] + Window <= s
      BY <1>1, <1>6 DEF Pace
  <2>2. b + 1 - MaxAttempts \in 1..m
      BY <1>0, <1>6
  <2> QED
      BY <1>3, <2>1, <2>2
<1>9. ASSUME NEW i \in 1..m + 1, NEW j \in 1..m + 1, b + MaxAttempts < i, i <= j
      PROVE  e[i] + Offset[j - i + 1] <= e[j]
  <2>1. CASE i = m + 1
    <3>1. j = m + 1 /\ j - i + 1 = 1
        BY <1>9, <2>1
    <3>2. Offset[j - i + 1] = 0
        BY <3>1, OffsetClimbs
    <3> QED
        BY <1>3, <2>1, <3>1, <3>2
  <2>2. CASE j # m + 1
    <3>1. i \in 1..m /\ j \in 1..m
        BY <1>9, <2>2
    <3>2. a[i] + Offset[j - i + 1] <= a[j]
        BY <1>1, <1>6, <1>9, <3>1 DEF Pace
    <3> QED
        BY <1>3, <3>1, <3>2
  <2>3. CASE i # m + 1 /\ j = m + 1
    <3>1. i \in 1..m /\ m \in 1..m /\ i <= m
        BY <2>3
    <3>2. PICK h \in Nat \ {0} : h = m - i + 1 /\ j - i + 1 = h + 1
        BY <2>3, <3>1
    <3>3. a[i] + Offset[h] <= a[m]
        BY <1>1, <1>6, <1>9, <3>1, <3>2 DEF Pace
    <3>4. PICK d \in Nat \ {0} : d = n - MaxAttempts /\ h <= d
        BY <1>0, <1>6, <1>9, <3>1, <3>2
    <3>5. u = a[m] + Backoff(d)
        BY <1>0, <1>1, <3>4 DEF Pace
    <3>6. PICK v \in Nat, w \in Nat : v = Backoff(h) /\ w = Backoff(d) /\ v <= w
        BY <3>4, BackoffGrows
    <3>7. PICK o \in Nat : o = Offset[h] /\ Offset[h + 1] = o + v
        BY <3>6, OffsetClimbs
    <3>8. PICK x \in Nat, y \in Nat : x = a[i] /\ y = a[m]
        BY <1>1, <3>1
    <3>9. x + o <= y /\ y + w <= t
        BY <3>3, <3>5, <3>6, <3>7, <3>8
    <3>10. x + (o + v) <= t
        BY ONLY <3>6, <3>9, o \in Nat, v \in Nat, w \in Nat, x \in Nat, y \in Nat, t \in Nat
    <3>11. e[i] = x /\ e[j] = t /\ Offset[j - i + 1] = o + v
        BY <1>3, <2>3, <3>1, <3>2, <3>7, <3>8
    <3> QED
        BY <3>10, <3>11
  <2> QED
      BY <2>1, <2>2, <2>3
<1>10. PICK z : /\ z = IF n + 1 > MaxAttempts THEN t + Backoff(n + 1 - MaxAttempts) ELSE u
                /\ z = IF n + 1 > MaxAttempts THEN t + Backoff(n + 1 - MaxAttempts) ELSE 0
  <2>1. CASE n + 1 > MaxAttempts
      BY <2>1
  <2>2. CASE ~(n + 1 > MaxAttempts)
    <3>1. ~(n > MaxAttempts)
        BY <1>0, <2>2
    <3>2. u = 0
        BY <3>1 DEF Pace
    <3> QED
        BY <2>2, <3>2
  <2> QED
      BY <2>1, <2>2
<1>11. Pace(n + 1, s, z, e, t)
  <2>1. (m + 1) - (n + 1) = b /\ n + 1 > 0 /\ n + 1 # 0 /\ n + 1 <= m + 1
      BY <1>5, <1>6
  <2> QED
      BY <1>0, <1>3, <1>4, <1>7, <1>8, <1>9, <1>10, <2>1, SMTT(30) DEF Pace
<1> QED
    BY <1>2, <1>10, <1>11


\* The row of a bucket after an attempt it admits.
LEMMA StepPaced ==
  ASSUME NEW t \in Nat, NEW a, NEW row \in Rows, ~IsBlocked(row, t),
         Pace(row.attempts, row.started, row.blocked, a, t)
  PROVE  LET new == step(row, t)
         IN Pace(new.attempts, new.started, new.blocked, Append(a, t), t)
<1>0. MaxAttempts \in Nat \ {0}
    BY RateAssumption
<1>1. PICK n \in Nat, s \in Nat, u \in Nat :
        n = row.attempts /\ s = row.started /\ u = row.blocked
    BY DEF Rows
<1>2. Pace(n, s, u, a, t) /\ t >= u
    BY <1>1 DEF IsBlocked
<1>3. Quiet(row, t) <=> (n = 0 \/ t >= later(s, u) + Window)
    BY <1>1 DEF Quiet, Expires
<1>4. CASE Quiet(row, t)
  <2>1. step(row, t) = [attempts |-> 1, started |-> t, blocked |-> 0]
    <3>1. PICK c : /\ c = IF Quiet(row, t) THEN [attempts |-> 0, started |-> t, blocked |-> 0] ELSE row
                   /\ c = [attempts |-> 0, started |-> t, blocked |-> 0]
        BY <1>4
    <3>2. c.attempts + 1 = 1 /\ ~(1 > MaxAttempts) /\ c.blocked = 0
        BY <1>0, <3>1
    <3>3. step(row, t) = [c EXCEPT !.attempts = 1, !.blocked = 0]
        BY <3>1, <3>2 DEF step
    <3>4. c = [attempts |-> 0, started |-> t, blocked |-> 0]
        BY <3>1
    <3> QED
        BY ONLY <3>3, <3>4
  <2>2. Pace(1, t, 0, Append(a, t), t)
      BY <1>2, <1>3, <1>4, FreshPaced
  <2> QED
      BY <2>1, <2>2
<1>5. CASE ~Quiet(row, t)
  <2>1. PICK z : z = IF n + 1 > MaxAttempts THEN t + Backoff(n + 1 - MaxAttempts) ELSE u
      OBVIOUS
  <2>2. step(row, t) = [row EXCEPT !.attempts = n + 1, !.blocked = z]
    <3>1. PICK c \in Rows : /\ c = IF Quiet(row, t) THEN [attempts |-> 0, started |-> t, blocked |-> 0] ELSE row
                            /\ c = row
        BY <1>5
    <3>2. PICK k \in Nat : k = c.attempts + 1 /\ k = n + 1
        BY <1>1, <3>1
    <3>3. c.blocked = u
        BY <1>1, <3>1
    <3>4. PICK b \in Nat : b = IF k > MaxAttempts THEN t + Backoff(k - MaxAttempts) ELSE c.blocked
      <4>1. CASE k > MaxAttempts
        <5>1. k - MaxAttempts \in Nat \ {0}
            BY <1>0, <4>1
        <5>2. PICK d \in Nat : d = Backoff(k - MaxAttempts)
            BY <5>1, BackoffCapped
        <5> QED
            BY <4>1, <5>2
      <4>2. CASE ~(k > MaxAttempts)
          BY <3>3, <4>2
      <4> QED
          BY <4>1, <4>2
    <3>5. b = z
        BY <1>0, <2>1, <3>2, <3>3, <3>4
    <3>a. c = IF Quiet(row, t) THEN [attempts |-> 0, started |-> t, blocked |-> 0] ELSE row
        BY <3>1
    <3>6. step(row, t) = [c EXCEPT !.attempts = k, !.blocked = b]
        BY ONLY <3>2, <3>4, <3>a DEF step
    <3> QED
        BY <3>1, <3>2, <3>5, <3>6
  <2>3. /\ step(row, t).attempts = n + 1 /\ step(row, t).started = s
        /\ step(row, t).blocked = z
      BY <1>1, <2>2 DEF Rows
  <2>4. n \in Nat \ {0}
      BY <1>3, <1>5
  <2>5. Pace(n + 1, s, z, Append(a, t), t)
      BY <1>2, <2>1, <2>4, CountedPaced
  <2> QED
      BY <2>3, <2>5
<1> QED
    BY <1>4, <1>5

\* The worker deletes a row that says nothing any more.
LEMMA PurgePaced ==
  ASSUME NEW t \in Nat, NEW a, NEW row \in Rows, t >= Expires(row),
         Pace(row.attempts, row.started, row.blocked, a, t)
  PROVE  Pace(0, 0, 0, a, t)
<1>0. MaxAttempts \in Nat \ {0}
    BY RateAssumption
<1>1. PICK n \in Nat, s \in Nat, u \in Nat :
        n = row.attempts /\ s = row.started /\ u = row.blocked
    BY DEF Rows
<1>2. Pace(n, s, u, a, t) /\ t >= later(s, u) + Window
    BY <1>1 DEF Expires
<1>3. Ordered(a, t) /\ Limited(a)
    BY <1>2 DEF Pace
<1>4. PICK m \in Nat : m = Len(a)
    BY <1>3, OrderedOn
<1>5. m >= MaxAttempts => a[m + 1 - MaxAttempts] + Window <= t
    BY <1>2, <1>4, QuietClears
<1>6. \A i \in 1..m : ~(m - 0 + MaxAttempts < i)
    BY <1>0
<1> QED
    BY <1>0, <1>3, <1>4, <1>5, <1>6 DEF Pace

\* Time that passes changes nothing a row says.
LEMMA TimePaced ==
  ASSUME NEW t \in Nat, NEW a, NEW n \in Nat, NEW s \in Nat, NEW u \in Nat,
         Pace(n, s, u, a, t)
  PROVE  Pace(n, s, u, a, t + 1)
<1>0. MaxAttempts \in Nat \ {0} /\ Window \in Nat
    BY RateAssumption
<1>1. Ordered(a, t)
    BY DEF Pace
<1>2. PICK m \in Nat : m = Len(a) /\ \A i \in 1..m : a[i] \in Nat /\ a[i] <= t
    BY <1>1, OrderedOn
<1>3. Ordered(a, t + 1)
  <2>1. \A i \in 1..m : a[i] <= t + 1
      BY <1>2
  <2> QED
      BY <1>1, <1>2, <2>1 DEF Ordered
<1>4. n = 0 /\ m >= MaxAttempts => a[m + 1 - MaxAttempts] + Window <= t + 1
  <2> HAVE n = 0 /\ m >= MaxAttempts
  <2>1. PICK x \in 1..m : x = m + 1 - MaxAttempts
      BY <1>0
  <2>2. a[x] + Window <= t /\ a[x] \in Nat
      BY <1>2, <2>1 DEF Pace
  <2> QED
      BY <1>0, <2>1, <2>2
<1> QED
    BY <1>2, <1>3, <1>4 DEF Pace

\* What the name's row says of the attempts admitted.
NamePaced ==
  Pace(rate[Name].attempts, rate[Name].started, rate[Name].blocked, admitted, now)

LEMMA NamePacedKept ==
  ASSUME RateInv, NamePaced, [RateNext]_rateVars
  PROVE  NamePaced'
<1>0. /\ now \in Nat /\ Name \in Buckets /\ Name \notin Sources /\ rate[Name] \in Rows
      /\ Sources \subseteq Buckets /\ rate \in [Buckets -> Rows]
    BY RateAssumption DEF RateInv, Buckets
<1>1. CASE /\ rate'[Name] = rate[Name]
           /\ UNCHANGED <<now, admitted>>
    BY <1>1 DEF NamePaced
<1>2. ASSUME NEW s \in Sources, hit_all(s)
      PROVE  NamePaced'
  <2>1. CASE IsBlocked(rate[Name], now)
    <3>1. /\ rate' = [rate EXCEPT ![s] = step(@, now)]
          /\ UNCHANGED <<now, admitted>>
        BY <1>2, <2>1 DEF hit_all
    <3> QED
        BY <1>0, <1>1, <3>1
  <2>2. CASE ~IsBlocked(rate[Name], now)
    <3>1. /\ rate' = [rate EXCEPT ![s] = step(@, now), ![Name] = step(@, now)]
          /\ admitted' = Append(admitted, now) /\ now' = now
        BY <1>2, <2>2 DEF hit_all
    <3>2. rate'[Name] = step(rate[Name], now)
        BY <1>0, <3>1
    <3>3. PICK new : new = step(rate[Name], now)
        OBVIOUS
    <3>4. Pace(new.attempts, new.started, new.blocked, Append(admitted, now), now)
        BY <1>0, <2>2, <3>3, StepPaced DEF NamePaced
    <3> QED
        BY <3>1, <3>2, <3>3, <3>4 DEF NamePaced
  <2> QED
      BY <2>1, <2>2
<1>3. ASSUME NEW s \in Sources, clear(s)
      PROVE  NamePaced'
    BY <1>0, <1>1, <1>3 DEF clear
<1>4. ASSUME NEW b \in Buckets, purge_rate(b)
      PROVE  NamePaced'
  <2>1. CASE b # Name
      BY <1>0, <1>1, <1>4, <2>1 DEF purge_rate
  <2>2. CASE b = Name
    <3>1. rate'[Name] = NoRow /\ admitted' = admitted /\ now' = now
        BY <1>0, <1>4, <2>2 DEF purge_rate
    <3>2. Pace(0, 0, 0, admitted, now)
        BY <1>0, <1>4, <2>2, PurgePaced DEF NamePaced, purge_rate
    <3> QED
        BY <3>1, <3>2 DEF NamePaced, NoRow
  <2> QED
      BY <2>1, <2>2
<1>5. CASE pass_time
  <2>1. rate' = rate /\ admitted' = admitted /\ now' = now + 1
      BY <1>5 DEF pass_time
  <2>2. PICK n \in Nat, s \in Nat, u \in Nat :
          n = rate[Name].attempts /\ s = rate[Name].started /\ u = rate[Name].blocked
      BY <1>0 DEF Rows
  <2>3. Pace(n, s, u, admitted, now + 1)
      BY <1>0, <2>2, TimePaced DEF NamePaced
  <2> QED
      BY <2>1, <2>2, <2>3 DEF NamePaced
<1>6. CASE UNCHANGED rateVars
    BY <1>1, <1>6 DEF rateVars
<1> QED
    BY <1>2, <1>3, <1>4, <1>5, <1>6 DEF RateNext

\* The limits hold in both directions (hit_all, step, clear, purge_rate in
\* ratelimit.rs): for every rule, from however many sources and with whatever
\* logins that succeed between, a name admits no more than Most attempts in one
\* window, and every bucket takes an attempt again within the cap.
THEOREM RateLimitsExact == RateSpec => []LimitsExact
<1> DEFINE Inv == RateInv /\ NamePaced
<1>1. RateInit => Inv
  <2> SUFFICES ASSUME RateInit
               PROVE  RateInv /\ NamePaced
      OBVIOUS
  <2>1. Cap \in Nat /\ MaxAttempts \in Nat \ {0} /\ Name \in Buckets
      BY RateAssumption DEF Buckets
  <2>2. RateInv
      BY <2>1 DEF RateInit, RateInv, NeverLockedOut, NoRow, Rows
  <2>3. /\ rate[Name].attempts = 0 /\ rate[Name].started = 0 /\ rate[Name].blocked = 0
        /\ admitted = <<>> /\ now = 0
      BY <2>1 DEF RateInit, NoRow
  <2>4. Ordered(<<>>, 0) /\ Limited(<<>>)
      BY DEF Ordered, Limited
  <2>5. Pace(0, 0, 0, <<>>, 0)
      BY <2>1, <2>4 DEF Pace
  <2> QED
      BY <2>2, <2>3, <2>5 DEF NamePaced
<1>2. Inv /\ [RateNext]_rateVars => Inv'
    BY RateKept, NamePacedKept
<1>3. Inv => LimitsExact
    BY DEF RateInv, NamePaced, Pace, Limited, LimitsExact, LimitHolds
<1> QED
    BY <1>1, <1>2, <1>3, PTL DEF RateSpec

=============================================================================
