-------------------------------- MODULE Totp --------------------------------
(***************************************************************************)
(* The second factor of an account (rizzy-domain-auth totp.rs, rizzy-core  *)
(* totp.rs): an enrolment is pending until a code confirms it and then the *)
(* account's only one; a code is accepted one step around the clock's and  *)
(* above the last accepted step.  Two steps of one secret can have the     *)
(* same code.  Each flow holds the account lock: one action.               *)
(***************************************************************************)
EXTENDS Naturals, FiniteSetsExt

CONSTANTS Secrets,       \* bound: the secrets drawn, in order 1..n
          MaxStep,       \* bound: the clock
          Codes,
          CodeAt         \* the code of a secret at a step

ASSUME TotpAssumption ==
  /\ {Secrets, MaxStep} \subseteq Nat
  /\ CodeAt \in [(1..Secrets) \X (0..(MaxStep + 1)) -> Codes]

VARIABLES timeStep,      \* the time step of the server's clock
          enrolments,    \* rows: seq, secret, confirmed, last accepted step
          drawn,         \* secrets drawn so far
          uses           \* ghost: times each step of each secret was accepted

totpVars == <<timeStep, enrolments, drawn, uses>>

confirmed == {e \in enrolments : e.confirmed}

\* TotpParams::verify: no predecessor of step 0.
Candidates == {t \in {timeStep - 1, timeStep, timeStep + 1} : timeStep > 0 \/ t >= timeStep}

\* Mutant: the last accepted step may be used again.
Eligible_again(e, t) == e.confirmed => t >= e.last

\* select_step: above the last accepted step.
Eligible(e, t) == e.confirmed => t > e.last

Matching(e, code) == {t \in Candidates : Eligible(e, t) /\ CodeAt[<<e.secret, t>>] = code}

StepOf(e, code) == Max(Matching(e, code))

\* verify_stored: the highest match becomes the last accepted step.
verify_stored(e, code, rows_after) ==
  /\ Matching(e, code) # {}
  /\ enrolments' = rows_after
  /\ uses' = [uses EXCEPT ![<<e.secret, StepOf(e, code)>>] = @ + 1]

Stepped(e, t) == [seq |-> e.seq, secret |-> e.secret, confirmed |-> TRUE, last |-> t]

\* check_second_factor of a login with a confirmed enrolment.
check_second_factor(e, code) ==
  /\ e \in confirmed
  /\ verify_stored(e, code, (enrolments \ {e}) \cup {Stepped(e, StepOf(e, code))})
  /\ UNCHANGED <<timeStep, drawn>>

\* Any earlier pending enrolment goes; the sequence number follows what is left.
totp_enrol_start ==
  LET seqs == {e.seq : e \in confirmed} \cup {0}
  IN /\ drawn < Secrets
     /\ drawn' = drawn + 1
     /\ enrolments' = confirmed \cup
          {[seq |-> Max(seqs) + 1, secret |-> drawn + 1, confirmed |-> FALSE, last |-> 0]}
     /\ UNCHANGED <<timeStep, uses>>

delete_except(e, t) == {Stepped(e, t)}

totp_enrol_confirm(e, code) ==
  /\ e \in enrolments \ confirmed
  /\ verify_stored(e, code, delete_except(e, StepOf(e, code)))
  /\ UNCHANGED <<timeStep, drawn>>

totp_disable(e, code) ==
  /\ e \in confirmed
  /\ verify_stored(e, code, {})
  /\ UNCHANGED <<timeStep, drawn>>

clock == /\ timeStep < MaxStep /\ timeStep' = timeStep + 1
         /\ UNCHANGED <<enrolments, drawn, uses>>

TotpInit == /\ timeStep = 0 /\ enrolments = {} /\ drawn = 0
            /\ uses = [p \in (1..Secrets) \X (0..(MaxStep + 1)) |-> 0]

TotpNext ==
  \/ totp_enrol_start \/ clock
  \/ \E e \in enrolments, code \in Codes :
       \/ check_second_factor(e, code)
       \/ totp_enrol_confirm(e, code)
       \/ totp_disable(e, code)

TotpSpec == TotpInit /\ [][TotpNext]_totpVars

(***************************************************************************)
(* Properties                                                              *)
(***************************************************************************)

\* A step of a secret is accepted at most once, over enrolment, logins and
\* disabling together, whatever codes repeat (CRYPTO.md, section 11.15).
CodeOnce == \A p \in DOMAIN uses : uses[p] <= 1

\* From a confirmation on, that enrolment is the only one that counts; beside it
\* at most one is pending, and never under its sequence number.
OneFactor ==
  \A e, f \in enrolments :
    (e.confirmed <=> f.confirmed) \/ e.seq = f.seq => e = f

\* The steps of a secret that can still be accepted were never used.
UnusedAbove ==
  /\ \A e \in enrolments : \A t \in 0..(MaxStep + 1) :
       ~e.confirmed \/ t > e.last => uses[<<e.secret, t>>] = 0
  /\ \A k \in 1..Secrets : \A t \in 0..(MaxStep + 1) :
       k > drawn => uses[<<k, t>>] = 0

TotpInv ==
  /\ drawn \in 0..Secrets /\ timeStep \in 0..MaxStep
  /\ uses \in [(1..Secrets) \X (0..(MaxStep + 1)) -> Nat]
  /\ \A e \in enrolments : /\ e.seq \in Nat /\ e.secret \in 1..drawn
                           /\ e.confirmed \in BOOLEAN /\ e.last \in Nat
  /\ \A e, f \in enrolments : e.secret = f.secret => e = f
  /\ UnusedAbove /\ CodeOnce /\ OneFactor
=============================================================================
