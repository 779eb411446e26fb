------------------------------ MODULE MCPlayer ------------------------------
(***************************************************************************)
(* The player's car on the road and the screen of the program.  Steering   *)
(* and speed share no register, so each gets its own run; PlayerDistance,  *)
(* which nothing in this component reads, counts modulo 1.                 *)
(***************************************************************************)
EXTENDS PlayerLogic

SteeringKeys == {NoKey, KeyA, KeyD}
SpeedKeys == {NoKey, KeyS, KeyW}
NoKeys == {NoKey}

=============================================================================
