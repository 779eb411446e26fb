----------------------------- MODULE MCControl ------------------------------
(***************************************************************************)
(* Control with a bounded number of packets that the bus spoils.           *)
(***************************************************************************)
EXTENDS Control

CONSTANT MaxFaults

VARIABLES
    faults,     \* packets spoiled since the device was attached
    harmless    \* they were only such as never got to the device

MCInit == CtrlInit /\ faults = 0 /\ harmless = TRUE

MCTransaction ==
    \E fate \in Fate :
        /\ Attempt(fate)
        /\ fate # "heard" => faults < MaxFaults
        /\ faults' = IF fate = "heard" THEN faults ELSE faults + 1
        /\ harmless' = (harmless /\ fate \in {"heard", "lost"})

MCReceive == ReceivePacket /\ UNCHANGED <<faults, harmless>>
MCAttach == \E d \in Devices : Attach(d) /\ faults' = 0 /\ harmless' = TRUE

MCNext == MCTransaction \/ MCReceive \/ MCAttach

\* The firmware is one thread that nothing stops.
MCSpec ==
    /\ MCInit /\ [][MCNext]_<<ctrlVars, faults, harmless>>
    /\ WF_<<ctrlVars, faults, harmless>>(MCTransaction \/ MCReceive)

\* Every enumeration comes to an end, and a boot device whose bus loses fewer
\* packets on the way to it than an attempt is repeated runs in the end.
EnumerationEnds ==
    step = "size" ~>
        \/ step = "RUNNING"
        \/ step = "ERROR" /\ (dev.boot = "none" \/ ~harmless
                                \/ faults >= USB_RETRY_LIMIT)

TwoSizes == {2, 4}
Device(m, c, s, b) ==
    [mps |-> m, len |-> [device |-> 5, string |-> 3, config |-> c],
     strings |-> s, boot |-> b]
MCDevices ==
    {Device(2, 4, {}, "mouse"), Device(4, 9, {"mfg", "product"}, "keyboard"),
     Device(2, 6, {"product"}, "none")}
=============================================================================
