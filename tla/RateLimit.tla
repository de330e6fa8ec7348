------------------------------ MODULE RateLimit ------------------------------
(***************************************************************************)
(* Rate limits of login and recovery (rizzy-domain-auth ratelimit.rs): an  *)
(* attempt counts against the bucket of its (name, source) and then the    *)
(* bucket of the name; a bucket over its limit blocks for a doubling time  *)
(* up to a cap; a login that succeeds clears its (name, source) bucket;    *)
(* the worker deletes rows past their time.  Both buckets have one rule.   *)
(***************************************************************************)
EXTENDS Naturals, FiniteSets, Sequences

CONSTANTS Sources,
          Name,                           \* the bucket of the name
          MaxAttempts, Window, Base, Cap, \* RateRule
          MaxTime                         \* bound: the clock

ASSUME RateAssumption ==
  /\ Name \notin Sources
  /\ {MaxAttempts, Window, Base, Cap} \subseteq Nat \ {0} /\ MaxTime \in Nat

VARIABLES now,
          rate,          \* the row of each bucket; no attempts: no row
          admitted       \* ghost: when each attempt that passed both was made

rateVars == <<now, rate, admitted>>

Buckets == Sources \cup {Name}

NoRow == [attempts |-> 0, started |-> 0, blocked |-> 0]

later(m, n) == IF m > n THEN m ELSE n
least(m, n) == IF m < n THEN m ELSE n

IsBlocked(row, t) == t < row.blocked

\* The time past which a row says nothing: hit's expires_at_ms.
Expires(row) == later(row.started, row.blocked) + Window

\* The counters restart after a whole window without a backoff.
Quiet(row, t) == row.attempts = 0 \/ t >= Expires(row)

Doubling[n \in Nat] == IF n = 0 THEN Base ELSE 2 * Doubling[n - 1]

Backoff(over) == least(Doubling[least(over - 1, 40)], Cap)

\* step, for an attempt that is not refused.
step(row, t) ==
  LET c == IF Quiet(row, t) THEN [attempts |-> 0, started |-> t, blocked |-> 0] ELSE row
      n == c.attempts + 1
  IN [c EXCEPT !.attempts = n,
               !.blocked = IF n > MaxAttempts THEN t + Backoff(n - MaxAttempts) ELSE @]

\* hit_all: the first bucket that refuses ends the attempt, and what was counted
\* before it stays counted.
hit_all(s) ==
  /\ ~IsBlocked(rate[s], now)
  /\ \/ /\ IsBlocked(rate[Name], now)
        /\ rate' = [rate EXCEPT ![s] = step(@, now)]
        /\ UNCHANGED admitted
     \/ /\ ~IsBlocked(rate[Name], now)
        /\ rate' = [rate EXCEPT ![s] = step(@, now), ![Name] = step(@, now)]
        /\ admitted' = Append(admitted, now)
  /\ UNCHANGED now

\* Mutant: a login clears the name's bucket too.
clear_name(s) ==
  /\ rate' = [rate EXCEPT ![s] = NoRow, ![Name] = NoRow]
  /\ UNCHANGED <<now, admitted>>

\* After a login from source s.
clear(s) ==
  /\ rate' = [rate EXCEPT ![s] = NoRow]
  /\ UNCHANGED <<now, admitted>>

purge_rate(b) ==
  /\ now >= Expires(rate[b])
  /\ rate' = [rate EXCEPT ![b] = NoRow]
  /\ UNCHANGED <<now, admitted>>

pass_time == /\ now < MaxTime /\ now' = now + 1 /\ UNCHANGED <<rate, admitted>>

RateInit == /\ now = 0 /\ rate = [b \in Buckets |-> NoRow]
            /\ admitted = <<>>

RateNext ==
  \/ \E s \in Sources : hit_all(s) \/ clear(s)
  \/ \E b \in Buckets : purge_rate(b)
  \/ pass_time

RateSpec == RateInit /\ [][RateNext]_rateVars

(***************************************************************************)
(* Properties                                                              *)
(***************************************************************************)

Rows == [attempts: Nat, started: Nat, blocked: Nat]

\* A delay, never a lockout (INV-7): however often an attempt is made, every
\* bucket takes one again within the cap.
NeverLockedOut == \A b \in Buckets : rate[b].blocked <= now + Cap

\* When the attempts over the limit come, counted from the first of them.
Offset[j \in Nat] == IF j <= 1 THEN 0 ELSE Offset[j - 1] + Backoff(j - 1)
Paced == Cardinality({j \in 1..(Window + 1) : Offset[j] < Window})

\* In any time of one window, from however many sources, with whatever logins
\* that succeed between, a name admits at most twice its limit less one and the
\* attempts its backoff lets through: of any one more, the last is made a whole
\* window after the first.
Most == 2 * MaxAttempts - 1 + Paced

LimitHolds ==
  \A k \in 1..Len(admitted) :
    k > Most => admitted[k - Most] + Window <= admitted[k]

\* The limits hold in both directions: attempts are held back, nobody is shut out.
LimitsExact == LimitHolds /\ NeverLockedOut
=============================================================================
