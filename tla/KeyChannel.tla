----------------------------- MODULE KeyChannel -----------------------------
(***************************************************************************)
(* What polling the keyboard promises: every report that the keyboard      *)
(* makes reaches the firmware once, in order and unchanged, unless the     *)
(* keyboard is pulled out before.                                          *)
(***************************************************************************)
CONSTANT Reports        \* what a report may say

VARIABLES
    report,             \* last report of the keyboard
    pending,            \* it has not reached the firmware
    got                 \* last report that has

vars == <<report, pending, got>>

Init ==
    /\ report \in Reports /\ got \in Reports
    /\ pending = FALSE

Make ==
    /\ ~pending
    /\ report' \in Reports /\ pending' = TRUE
    /\ UNCHANGED got

Deliver ==
    /\ pending
    /\ got' = report /\ pending' = FALSE
    /\ UNCHANGED report

\* The keyboard is pulled out.
Drop ==
    /\ pending' = FALSE
    /\ UNCHANGED <<report, got>>

Spec == Init /\ [][Make \/ Deliver \/ Drop]_vars
=============================================================================
