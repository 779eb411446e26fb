----------------------------- MODULE MCJtagUart -----------------------------
(***************************************************************************)
(* JtagUart with a bounded number of bytes written and typed, and the      *)
(* fairness of the processor, the timer and the host.                      *)
(***************************************************************************)
EXTENDS JtagUart

CONSTANTS MaxOut, MaxIn

MCCall == Call /\ (op' = "write" => sent + left' <= MaxOut)
MCHostType == typed < MaxIn /\ HostType

MCNext ==
    \/ Step \/ MCCall \/ SetTimeout \/ ReadIrq \/ WriteIrq \/ Alarm
    \/ HostTake \/ MCHostType \/ HostComesAndGoes

MCSpec == Init /\ [][MCNext]_vars

\* The processor, the interrupts and the one-second alarm run; a host takes
\* what is there for it to take, if it is there again and again.
FairSpec ==
    /\ MCSpec
    /\ WF_vars(Step) /\ WF_vars(ReadIrq) /\ WF_vars(WriteIrq) /\ WF_vars(Alarm)
    /\ SF_vars(HostTake)

Forever == timeout > IntMax - 2
Writing == op \in {"write", "close"}

\* A write or a close comes to an end, unless its caller has asked to wait
\* forever and the host is gone.
WriteEnds == Writing ~> (pc = "idle" \/ (Forever /\ ~attached))

\* A reader gets the byte that is there for it.
ReadWakes == (op = "read" /\ (rx.in # rx.out \/ rxFifo # <<>>)) ~> pc = "idle"

\* No call waits for ever for something that is not going to come, except where
\* it was asked to, or misses what does come.
CallsEnd == WriteEnds /\ ReadWakes

=============================================================================
