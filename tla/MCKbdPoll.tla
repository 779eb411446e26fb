------------------------------ MODULE MCKbdPoll ------------------------------
(* KbdPoll with up to two keys down, of one for each register, one that the *)
(* game does not know, and two for the same register.                       *)
EXTENDS KbdPoll

MCReports == {<<>>} \cup {<<k>> : k \in {KeyA, KeyW}}
             \cup {<<KeyW, KeyA>>, <<KeyW, KeyS>>, <<9>>}
=============================================================================
