----------------------------- MODULE MCRotation -----------------------------
(* Two devices that rotate, and one that is only enrolled.                   *)
EXTENDS Rotation
=============================================================================
