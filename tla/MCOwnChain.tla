----------------------------- MODULE MCOwnChain -----------------------------
(* TLC instances of OwnChain. *)
EXTENDS OwnChain
=============================================================================
