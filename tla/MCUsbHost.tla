----------------------------- MODULE MCUsbHost -----------------------------
(***************************************************************************)
(* UsbHost with a bounded number of bus changes and of failed transfers.   *)
(***************************************************************************)
EXTENDS UsbHost

CONSTANTS MaxChanges, MaxFaults

VARIABLES
    changes, faults,    \* bus changes and failed transfers so far
    hurried             \* the bus has changed while the firmware was busy

history == <<changes, faults, hurried>>
allVars == <<vars, history>>

MCInit == Init /\ changes = 0 /\ faults = 0 /\ hurried = FALSE

Transferring ==
    /\ pc = "usb"
    /\ usb_task_state \in {GET_DEVICE_DESCRIPTOR_SIZE, ADDRESSING, CONFIGURING}

MCFirmware ==
    /\ \E ok \in BOOLEAN :
          /\ Firmware(ok)
          /\ ok \/ (faults < MaxFaults /\ Transferring)
          /\ faults' = IF ok THEN faults ELSE faults + 1
    /\ UNCHANGED <<changes, hurried>>

\* The firmware has handled all changes and has nothing left to do.
Resting ==
    /\ pc = "usb" /\ ~condet
    /\ \/ Major(usb_task_state) = DETACHED /\ usb_task_state # INITIALIZE
       \/ usb_task_state \in {RUNNING, ERROR}

MCUser ==
    /\ changes < MaxChanges
    /\ User
    /\ changes' = changes + 1
    /\ hurried' = (hurried \/ ~Resting)
    /\ UNCHANGED faults

MCSettled == Settled /\ UNCHANGED history
MCResetDone == ResetDone /\ UNCHANGED history
MCStartOfFrame == StartOfFrame /\ UNCHANGED history

MCNext == MCFirmware \/ MCUser \/ MCSettled \/ MCResetDone \/ MCStartOfFrame

\* The processor and the timers run; and the end of a bus reset, which takes
\* 50 ms on the chip's own clock, does not fall between the two tasks of the
\* main loop again and again.
MCSpec ==
    /\ MCInit /\ [][MCNext]_allVars
    /\ WF_allVars(MCFirmware) /\ WF_allVars(MCSettled)
    /\ WF_allVars(MCResetDone) /\ SF_allVars(pc = "task" /\ MCResetDone)

\* A keyboard that stays plugged in works in the end, whatever was plugged in
\* before, if its user is patient and no transfer fails.
KeyboardWorks ==
    <>[](plugged = "keyboard" /\ ~hurried /\ faults = 0)
        => <>[](usb_task_state = RUNNING /\ led9 /\ device = HID_K)

AllKinds == {"keyboard", "mouse", "other", "short"}

=============================================================================
