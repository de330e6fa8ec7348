--------------------------- MODULE MCAccountService ---------------------------
(***************************************************************************)
(* One account, and beside it the smaller machines of the same crate, each *)
(* explored on its own: mode says which one runs.                          *)
(***************************************************************************)
EXTENDS AccountService, RequestWindow, Totp, RateLimit
CONSTANTS d, e

MCLife == [k \in Kinds \cup {"login", "challenge"} |-> IF k = "opaque" THEN 2 ELSE 1]

\* Again, the same password; a new password with a new recovery code and device,
\* from a login or a recovery; recovery off; its repair; a rotation that revokes;
\* a device replaced.
Again == [pw |-> FALSE, reg |-> TRUE, ak |-> FALSE, rec |-> "none",
          enrol |-> {}, revoke |-> {}]
MCChanges ==
  { Again,
    [Again EXCEPT !.pw = TRUE, !.rec = "new", !.enrol = {e}],
    [Again EXCEPT !.reg = FALSE, !.rec = "off"],
    [Again EXCEPT !.reg = FALSE, !.rec = "repair"],
    [Again EXCEPT !.reg = FALSE, !.ak = TRUE, !.rec = "rewrap", !.revoke = {e}],
    [Again EXCEPT !.reg = FALSE, !.enrol = {e}, !.revoke = {d}] }

\* Neighbouring steps with one code, within a secret and between two.
MCCodeAt == [p \in (1..Secrets) \X (0..(MaxStep + 1)) |-> ((p[1] + p[2]) \div 2) % 2]

VARIABLE mode

MCInit ==
  /\ mode \in {"account", "requests", "codes", "attempts"}
  /\ Init /\ WindowInit /\ TotpInit /\ RateInit

MCNext ==
  /\ UNCHANGED mode
  /\ \/ mode = "account"  /\ Next       /\ UNCHANGED <<windowVars, totpVars, rateVars>>
     \/ mode = "requests" /\ WindowNext /\ UNCHANGED <<vars, totpVars, rateVars>>
     \/ mode = "codes"    /\ TotpNext   /\ UNCHANGED <<vars, windowVars, rateVars>>
     \/ mode = "attempts" /\ RateNext   /\ UNCHANGED <<vars, windowVars, totpVars>>

MCSpec == MCInit /\ [][MCNext]_<<mode, vars, windowVars, totpVars, rateVars>>
=============================================================================
