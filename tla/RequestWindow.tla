---------------------------- MODULE RequestWindow ----------------------------
(***************************************************************************)
(* The window of request counters of one device session (rizzy-domain-auth *)
(* rules.rs, device.rs, session.rs).  Signed requests run concurrently;    *)
(* each reads the session, takes the account lock, reads it again, and     *)
(* accepts or refuses its counter against the window of that second read.  *)
(* A request repeated on the way is another request with the same counter. *)
(***************************************************************************)
EXTENDS Integers

CONSTANTS Requests, MaxCounter,   \* MAX_REQUEST_COUNTER
          Width                   \* REQUEST_WINDOW

ASSUME WindowAssumption == MaxCounter \in Nat /\ Width \in Nat \ {0}

VARIABLES window,   \* the session row: the highest counter and the bitmap below it
          request   \* per request: where it is, its counter, the window it read first

windowVars == <<window, request>>

Counters == 0..MaxCounter
Bits     == 0..(Width - 1)

\* RequestWindow::default: max is None.
Nothing == -1
NoWindow == [max |-> Nothing, seen |-> {}]

\* The bitmap moved up by shift, bits past its end lost.
Shifted(seen, shift) == {i \in Bits : i - shift \in seen}

\* RequestWindow::accept: whether it accepts, and the window after.
Admits(w, c) ==
  w.max = Nothing \/ c > w.max \/ (w.max - c < Width /\ w.max - c \notin w.seen)

accept(w, c) ==
  IF w.max = Nothing THEN [max |-> c, seen |-> {0}]
  ELSE IF c > w.max THEN [max |-> c, seen |-> Shifted(w.seen, c - w.max) \cup {0}]
  ELSE [max |-> w.max, seen |-> w.seen \cup {w.max - c}]

\* authenticate_request up to the lock.
load_session(r, c) ==
  /\ request[r].at = "sent"
  /\ request' = [request EXCEPT ![r] = [at |-> "loaded", counter |-> c, read |-> window]]
  /\ UNCHANGED window

\* Mutant: the window of the first read is used under the lock.
reload_stale(r) == request[r].read

\* session::reload.
reload(r) == window

Answered(answer, c) == [at |-> answer, counter |-> c, read |-> NoWindow]

\* The rest, under the account lock: reload, accept, store_window.
authenticate_request(r) ==
  LET c == request[r].counter
      w == reload(r)
  IN /\ request[r].at = "loaded"
     /\ \/ /\ Admits(w, c)
           /\ window' = accept(w, c)
           /\ request' = [request EXCEPT ![r] = Answered("accepted", c)]
        \/ /\ ~Admits(w, c)
           /\ request' = [request EXCEPT ![r] = Answered("refused", c)]
           /\ UNCHANGED window

WindowInit ==
  /\ window = NoWindow
  /\ request = [r \in Requests |-> [at |-> "sent", counter |-> 0, read |-> NoWindow]]

WindowNext ==
  \E r \in Requests :
    \/ \E c \in Counters : load_session(r, c)
    \/ authenticate_request(r)

WindowSpec == WindowInit /\ [][WindowNext]_windowVars

(***************************************************************************)
(* Properties                                                              *)
(***************************************************************************)

Windows == [max: Counters \cup {Nothing}, seen: SUBSET Bits]

WindowTypeOK ==
  /\ window \in Windows
  /\ request \in [Requests -> [at: {"sent", "loaded", "accepted", "refused"},
                               counter: Counters, read: Windows]]

Accepted == {r \in Requests : request[r].at = "accepted"}

\* The bitmap is exact: bit i stands for an accepted request with counter max - i.
WindowExact ==
  /\ window.max = Nothing => Accepted = {} /\ window.seen = {}
  /\ window.max # Nothing =>
       /\ \E r \in Accepted : request[r].counter = window.max
       /\ \A r \in Accepted : request[r].counter <= window.max
       /\ window.seen = {i \in Bits : \E r \in Accepted : request[r].counter = window.max - i}

\* No counter is accepted twice, whatever the order of the requests and however
\* their reads interleave (rules.rs, RequestWindow).
AcceptedOnce ==
  \A r, s \in Accepted : request[r].counter = request[s].counter => r = s

\* A refusal has its reason: the counter was accepted already, or one at least
\* Width above it was.
RefusedRightly ==
  \A r \in Requests : request[r].at = "refused" =>
    \E s \in Accepted : \/ request[s].counter = request[r].counter
                        \/ request[s].counter >= request[r].counter + Width

WindowInv == WindowTypeOK /\ WindowExact /\ AcceptedOnce /\ RefusedRightly

\* The window is exact in both directions: no counter twice, and none refused
\* without its reason.
CountersExact == AcceptedOnce /\ RefusedRightly
=============================================================================
