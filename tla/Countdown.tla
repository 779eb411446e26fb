----------------------------- MODULE Countdown -----------------------------
(***************************************************************************)
(* What alarms promise: each counts the ticks it was asked to wait, is     *)
(* called back on the last of them and not before, and then waits again    *)
(* for as long as the callback says, or is gone.                           *)
(***************************************************************************)
EXTENDS Naturals

CONSTANTS Alarms, Delays, Periods

VARIABLES
    left,       \* ticks until the callback, 0 when there is none to come
    fired       \* the alarms called back by the last tick

vars == <<left, fired>>

Init == left = [a \in Alarms |-> 0] /\ fired = {}

\* A delay of n is n whole ticks: the one that is under way does not count.
Start(a) ==
    /\ left[a] = 0
    /\ \E n \in Delays : left' = [left EXCEPT ![a] = n + 1]
    /\ fired' = {}

Stop(a) == left' = [left EXCEPT ![a] = 0] /\ fired' = {}

Tick ==
    /\ fired' = {a \in Alarms : left[a] = 1}
    /\ \E next \in [Alarms -> Periods] :
          left' = [a \in Alarms |-> IF left[a] = 1 THEN next[a]
                                    ELSE IF left[a] = 0 THEN 0 ELSE left[a] - 1]

Next == Tick \/ \E a \in Alarms : Start(a) \/ Stop(a)

Spec == Init /\ [][Next]_vars

=============================================================================
