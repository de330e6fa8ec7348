-------------------------------- MODULE Hlc --------------------------------
(***************************************************************************)
(* Hybrid logical clocks (rizzy-sync/src/hlc.rs): one number, the          *)
(* milliseconds above a counter of Ticks values, so that a counter that    *)
(* runs over carries into the milliseconds.  The wall clock is the host's. *)
(***************************************************************************)
EXTENDS Naturals

CONSTANTS Ticks,          \* the values of the counter (2^16 in the code)
          MAX_MILLIS,     \* the largest milliseconds (2^48 - 1)
          SKEW_GUARD_MS   \* how far ahead a received clock may be (24 h)

ASSUME HlcAssumption ==
  /\ Ticks \in Nat \ {0}
  /\ MAX_MILLIS \in Nat
  /\ SKEW_GUARD_MS \in Nat

\* The largest clock value, u64::MAX.
Top == MAX_MILLIS * Ticks + (Ticks - 1)

Hlcs == 0..Top

millis(h) == h \div Ticks

larger(x, y) == IF x >= y THEN x ELSE y

physical(now) == now * Ticks

\* tick: refused when the wall clock is out of range or the clock exhausted.
can_tick(h, now) == now <= MAX_MILLIS /\ h < Top

tick(h, now) == larger(h + 1, physical(now))

\* Mutant: the skew guard one millisecond too tight.
can_receive_below(h, remote, now) ==
  /\ now <= MAX_MILLIS
  /\ millis(remote) < now + SKEW_GUARD_MS
  /\ larger(h, remote) < Top

\* receive: the new clock; unchanged past the skew guard, and where the code
\* answers an error, which its callers pass over.
can_receive(h, remote, now) ==
  /\ now <= MAX_MILLIS
  /\ millis(remote) <= now + SKEW_GUARD_MS
  /\ larger(h, remote) < Top

receive(h, remote, now) ==
  IF can_receive(h, remote, now)
    THEN larger(physical(now), larger(h, remote) + 1)
    ELSE h
=============================================================================
