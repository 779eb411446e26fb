-------------------------------- MODULE Pipe --------------------------------
(***************************************************************************)
(* What a byte stream promises: what one side puts in comes out at the     *)
(* other side, once each and in order, and no more than Capacity bytes are *)
(* on the way.  The bytes put in are numbered modulo Stamps, which is more *)
(* than can be on the way, so that a lost, repeated or stale byte shows.   *)
(***************************************************************************)
EXTENDS Integers, Sequences

CONSTANTS Capacity, Stamps

VARIABLES
    q,        \* the bytes on the way, oldest first
    sent,     \* the number of the last byte put in
    given     \* the bytes of the last delivery

vars == <<q, sent, given>>

Fresh(n) == [i \in 1..n |-> (sent + i) % Stamps]

Init == q = <<>> /\ sent = 0 /\ given = <<>>

Put ==
    \E n \in 1 .. Capacity - Len(q) :
        /\ q' = q \o Fresh(n)
        /\ sent' = (sent + n) % Stamps
        /\ UNCHANGED given

Take ==
    \E n \in 1 .. Len(q) :
        /\ given' = SubSeq(q, 1, n)
        /\ q' = SubSeq(q, n + 1, Len(q))
        /\ UNCHANGED sent

Spec == Init /\ [][Put \/ Take]_vars

=============================================================================
