--------------------------- MODULE UsbHostProofs ---------------------------
(***************************************************************************)
(* The USB host for any number of addresses and of bus changes: the end of *)
(* a bus reset is never mistaken, no table entry is used that is empty,    *)
(* and a running device is there.                                          *)
(***************************************************************************)
EXTENDS UsbHost, TLAPS

Speaking == {WAIT_SOF, GET_DEVICE_DESCRIPTOR_SIZE, ADDRESSING, CONFIGURING,
             RUNNING}

\* A BUSEVENT always means that the reset is over, because the firmware clears
\* an old one before it starts the next reset; the handler's copy of the bit is
\* as old as that only when it is no longer used.
ResetInv ==
    /\ busrst => ~busevent
    /\ pc = "probe" /\ event => busevent
    /\ usb_task_state \in Speaking => ~busrst

\* Addresses are taken from below, so that the table has no gap; what the state
\* machine is about to use stays in the table until the state changes.
TableInv ==
    /\ epinfo \in [Addresses -> {"NULL", "dev0ep", "hid_ep"}]
    /\ \A a, b \in Addresses : b < a /\ ~Free(a) => ~Free(b)
    /\ usb_task_state = CONFIGURING => tmp_addr \in Addresses /\ ~Free(tmp_addr)
    /\ usb_task_state = RUNNING =>
           hid_addr \in Addresses /\ epinfo[hid_addr] = "hid_ep"

\* No device runs between a probe and the clearing of its interrupt.
ProbeInv ==
    pc \in {"ack", "clear"} => usb_task_state \notin {CONFIGURING, RUNNING}

IInv == ResetInv /\ TableInv /\ ProbeInv /\ RunningDevice

\* A probe leaves one of five states, and only WAIT_RESET_COMPLETE unchanged.
LEMMA ProbedStates ==
    /\ Probed \in {INITIALIZE, WAIT_FOR_DEVICE, ILLEGAL, ATTACHED,
                   WAIT_RESET_COMPLETE}
    /\ Probed = WAIT_RESET_COMPLETE => usb_task_state = WAIT_RESET_COMPLETE
BY DEF Probed, BusLine, INITIALIZE, WAIT_FOR_DEVICE, ILLEGAL, ATTACHED,
       WAIT_RESET_COMPLETE

LEMMA InitIInv == Init => IInv
BY DEF Init, IInv, ResetInv, TableInv, ProbeInv, RunningDevice, Speaking, Free,
       INITIALIZE, WAIT_SOF, GET_DEVICE_DESCRIPTOR_SIZE, ADDRESSING,
       CONFIGURING, RUNNING

-----------------------------------------------------------------------------

LEMMA ChipIInv ==
    ASSUME IInv, ResetDone \/ StartOfFrame \/ Settled \/ User
    PROVE  IInv'
<1>1. CASE ResetDone
  BY <1>1 DEF ResetDone, mainVars, table, IInv, ResetInv, TableInv, ProbeInv,
              RunningDevice, Speaking, Free, RUNNING
<1>2. CASE StartOfFrame
  BY <1>2 DEF StartOfFrame, mainVars, table, bus, IInv, ResetInv, TableInv,
              ProbeInv, RunningDevice, Free
<1>3. CASE Settled
  BY <1>3 DEF Settled, mainVars, table, bus, chip, IInv, ResetInv, TableInv,
              ProbeInv, RunningDevice, Free
<1>4. CASE User
  BY <1>4 DEF User, Plug, Unplug, mainVars, table, IInv, ResetInv, TableInv,
              ProbeInv, RunningDevice, Free
<1> QED
  BY <1>1, <1>2, <1>3, <1>4

\* The empty table has no gap.
LEMMA ClearTableInv ==
    ASSUME ClearTable, usb_task_state' \notin {CONFIGURING, RUNNING}
    PROVE  TableInv'
BY DEF ClearTable, TableInv, Free

LEMMA HandlerIInv ==
    ASSUME IInv, CheckPin \/ Probe \/ Ack \/ InitChip \/ InitClear
    PROVE  IInv'
<1> USE DEF INITIALIZE, WAIT_FOR_DEVICE, ILLEGAL, ATTACHED, WAIT_RESET_COMPLETE,
            WAIT_SOF, GET_DEVICE_DESCRIPTOR_SIZE, ADDRESSING, CONFIGURING,
            RUNNING
<1>1. CASE CheckPin
  BY <1>1 DEF CheckPin, mainVars, table, bus, chip, IInv, ResetInv, TableInv,
              ProbeInv, RunningDevice, Speaking, Free
<1>2. CASE Probe
  <2>1. /\ usb_task_state' \in {1, 2, 3, 4, 5, 16, 17, 19, 20}
        /\ usb_task_state' = 20 => event
    BY <1>2, ProbedStates DEF Probe
  <2> QED
    BY <1>2, <2>1 DEF Probe, mainVars, table, bus, IInv, ResetInv, TableInv,
                      ProbeInv, RunningDevice, Speaking, Free
<1>3. CASE Ack
  BY <1>3 DEF Ack, mainVars, table, bus, IInv, ResetInv, TableInv, ProbeInv,
              RunningDevice, Speaking, Free
<1>4. CASE InitChip
  <2>1. usb_task_state' \in {1, 3, 4, 16, 19}
    BY <1>4, ProbedStates DEF InitChip
  <2> QED
    BY <1>4, <2>1 DEF InitChip, mainVars, table, bus, IInv, ResetInv, TableInv,
                      ProbeInv, RunningDevice, Speaking, Free
<1>5. CASE InitClear
  <2>1. TableInv'
    BY <1>5, ClearTableInv DEF InitClear, IInv, ProbeInv
  <2> QED
    BY <1>5, <2>1 DEF InitClear, bus, IInv, ResetInv, ProbeInv, RunningDevice,
                      Speaking
<1> QED
  BY <1>1, <1>2, <1>3, <1>4, <1>5

\* Steps of USB_Task without transfers.
LEMMA WaitIInv ==
    ASSUME IInv,
           \/ UsbIdle \/ UsbInitialize \/ UsbAttached \/ UsbSettle
           \/ UsbResetDevice \/ UsbWaitReset \/ UsbWaitSof
    PROVE  IInv'
<1> USE DEF INITIALIZE, WAIT_FOR_DEVICE, ATTACHED, SETTLE, RESET_DEVICE,
            WAIT_RESET_COMPLETE, WAIT_SOF, GET_DEVICE_DESCRIPTOR_SIZE,
            ADDRESSING, CONFIGURING, RUNNING, ERROR
<1>1. CASE UsbIdle
  BY <1>1 DEF UsbIdle, mainVars, table, bus, chip, IInv, ResetInv, TableInv,
              ProbeInv, RunningDevice, Speaking, Free
<1>2. CASE UsbInitialize
  <2>1. TableInv'
    BY <1>2, ClearTableInv DEF UsbInitialize, Goto
  <2> QED
    BY <1>2, <2>1 DEF UsbInitialize, Goto, bus, chip, IInv, ResetInv, ProbeInv,
                      RunningDevice, Speaking
<1>3. CASE UsbAttached
  BY <1>3 DEF UsbAttached, Goto, mainVars, table, bus, chip, IInv, ResetInv,
              TableInv, ProbeInv, RunningDevice, Speaking, Free
<1>4. CASE UsbSettle
  BY <1>4 DEF UsbSettle, Goto, mainVars, table, bus, chip, IInv, ResetInv,
              TableInv, ProbeInv, RunningDevice, Speaking, Free
<1>5. CASE UsbResetDevice
  BY <1>5 DEF UsbResetDevice, Goto, mainVars, table, bus, IInv, ResetInv,
              TableInv, ProbeInv, RunningDevice, Speaking, Free
<1>6. CASE UsbWaitReset
  BY <1>6 DEF UsbWaitReset, Goto, mainVars, table, bus, IInv, ResetInv,
              TableInv, ProbeInv, RunningDevice, Speaking, Free
<1>7. CASE UsbWaitSof
  BY <1>7 DEF UsbWaitSof, Goto, mainVars, table, bus, chip, IInv, ResetInv,
              TableInv, ProbeInv, RunningDevice, Speaking, Free
<1> QED
  BY <1>1, <1>2, <1>3, <1>4, <1>5, <1>6, <1>7

\* Steps with transfers: taking the lowest free address leaves no gap.
LEMMA TransferIInv ==
    ASSUME IInv, NEW ok \in BOOLEAN,
           UsbGetDescriptor(ok) \/ UsbAddressing(ok) \/ UsbConfiguring(ok)
    PROVE  IInv'
<1> USE DEF GET_DEVICE_DESCRIPTOR_SIZE, WAIT_SOF, ADDRESSING, CONFIGURING,
            RUNNING, ERROR
<1>1. CASE UsbGetDescriptor(ok)
  BY <1>1 DEF UsbGetDescriptor, Goto, mainVars, table, bus, chip, IInv, ResetInv,
              TableInv, ProbeInv, RunningDevice, Speaking, Free
<1>2. CASE UsbAddressing(ok)
  <2>1. ResetInv' /\ ProbeInv' /\ RunningDevice'
    BY <1>2 DEF UsbAddressing, Goto, chip, IInv, ResetInv, ProbeInv,
                RunningDevice, Speaking
  <2>2. TableInv'
    <3>1. CASE \A a \in Addresses : ~Free(a)
      BY <1>2, <3>1 DEF UsbAddressing, Goto, IInv, TableInv, FirstFree, Free
    <3>2. CASE \E a \in Addresses : FirstFree(a)
      <4>1. PICK a \in Addresses :
                /\ FirstFree(a)
                /\ epinfo' = [epinfo EXCEPT ![a] = "dev0ep"]
                /\ \/ tmp_addr' = a /\ usb_task_state' = CONFIGURING
                   \/ usb_task_state' = ERROR
        BY <1>2, <3>2 DEF UsbAddressing, Goto, FirstFree
      <4>2. epinfo' \in [Addresses -> {"NULL", "dev0ep", "hid_ep"}]
        BY <4>1 DEF IInv, TableInv
      <4>3. \A b \in Addresses : Free(b)' <=> Free(b) /\ b # a
        BY <4>1 DEF IInv, TableInv, Free
      <4>4. \A b, c \in Addresses : c < b /\ ~Free(b)' => ~Free(c)'
        BY <4>1, <4>3 DEF IInv, TableInv, FirstFree
      <4> QED
        BY <4>1, <4>2, <4>3, <4>4 DEF TableInv
    <3> QED
      BY <1>2, <3>1, <3>2 DEF UsbAddressing
  <2> QED
    BY <2>1, <2>2 DEF IInv
<1>3. CASE UsbConfiguring(ok)
  <2>1. ResetInv' /\ ProbeInv' /\ RunningDevice'
    BY <1>3 DEF UsbConfiguring, Recognised, Responds, Goto, chip, IInv, ResetInv,
                ProbeInv, RunningDevice, Speaking
  <2>2. tmp_addr \in Addresses /\ ~Free(tmp_addr)
    BY <1>3 DEF UsbConfiguring, IInv, TableInv
  <2>3. CASE UNCHANGED <<table, hid_addr>> /\ usb_task_state' = ERROR
    BY <2>1, <2>3 DEF table, IInv, TableInv, Free
  <2>4. CASE Recognised /\ usb_task_state' \in {RUNNING, ERROR}
    <3>1. epinfo' \in [Addresses -> {"NULL", "dev0ep", "hid_ep"}]
      BY <2>4 DEF Recognised, IInv, TableInv
    <3>2. epinfo'[tmp_addr] = "hid_ep" /\ hid_addr' = tmp_addr
      BY <2>2, <2>4 DEF Recognised, IInv, TableInv
    <3>3. \A b \in Addresses : Free(b)' <=> Free(b)
      BY <2>2, <2>4 DEF Recognised, IInv, TableInv, Free
    <3> QED
      BY <2>1, <2>2, <2>4, <3>1, <3>2, <3>3 DEF IInv, TableInv
  <2>5. \/ UNCHANGED <<table, hid_addr>> /\ usb_task_state' = ERROR
        \/ Recognised /\ usb_task_state' \in {RUNNING, ERROR}
    BY <1>3 DEF UsbConfiguring, Goto
  <2> QED
    BY <2>3, <2>4, <2>5
<1> QED
  BY <1>1, <1>2, <1>3

LEMMA MainIInv == ASSUME IInv, Main PROVE IInv'
<1>1. CASE MainReport
  BY <1>1 DEF MainReport, table, bus, chip, IInv, ResetInv, TableInv, ProbeInv,
              RunningDevice, Free
<1>2. CASE MainPoll
  BY <1>2 DEF MainPoll, table, bus, chip, IInv, ResetInv, TableInv, ProbeInv,
              RunningDevice, Free
<1>3. CASE MainError
  BY <1>3 DEF MainError, table, bus, chip, IInv, ResetInv, TableInv, ProbeInv,
              RunningDevice, Free
<1>4. CASE MainOther
  BY <1>4 DEF MainOther, table, bus, chip, IInv, ResetInv, TableInv, ProbeInv,
              RunningDevice, Free
<1> QED
  BY <1>1, <1>2, <1>3, <1>4 DEF Main

LEMMA StepIInv == IInv /\ [Next]_vars => IInv'
<1> SUFFICES ASSUME IInv, [Next]_vars PROVE IInv'
  OBVIOUS
<1>1. CASE UNCHANGED vars
  BY <1>1 DEF vars, table, bus, chip, IInv, ResetInv, TableInv, ProbeInv,
              RunningDevice, Free
<1>2. CASE \E ok \in BOOLEAN : Firmware(ok)
  BY <1>2, HandlerIInv, WaitIInv, TransferIInv, MainIInv DEF Firmware, UsbTask
<1> QED
  BY <1>1, <1>2, ChipIInv DEF Next

-----------------------------------------------------------------------------

\* The device is only spoken to when its bus reset is over, whether USB_Task or
\* the interrupt handler notices that, and whatever is plugged when.
THEOREM AlwaysSpeaksAfterReset == Spec => []SpeaksAfterReset
<1>1. IInv => SpeaksAfterReset
  BY DEF IInv, ResetInv, Speaking, SpeaksAfterReset
<1> QED
  BY InitIInv, StepIInv, <1>1, PTL DEF Spec

\* No endpoint record that the firmware uses is missing, for any number of
\* addresses, although failed attachments leave entries in the table.
THEOREM NeverNullEpinfo == Spec => []NoNullEpinfo
<1>1. IInv => NoNullEpinfo
  <2> SUFFICES ASSUME IInv PROVE NoNullEpinfo
    OBVIOUS
  <2>1. usb_task_state = RUNNING => ~Free(1)
    <3> SUFFICES ASSUME usb_task_state = RUNNING PROVE ~Free(1)
      OBVIOUS
    <3>1. hid_addr \in Addresses /\ ~Free(hid_addr)
      BY DEF IInv, TableInv, Free
    <3>2. 1 \in Addresses /\ (hid_addr = 1 \/ 1 < hid_addr)
      BY <3>1, DeviceAssumption DEF Addresses
    <3> QED
      BY <3>1, <3>2 DEF IInv, TableInv
  <2>2. 0 \notin Addresses
    BY DeviceAssumption DEF Addresses
  <2> QED
    BY <2>1, <2>2 DEF IInv, TableInv, NoNullEpinfo
<1> QED
  BY InitIInv, StepIInv, <1>1, PTL DEF Spec

\* While the state machine says RUNNING the device is there, configured and at
\* its address, or its change is still to be handled.
THEOREM DeviceIsThere == Spec => []RunningDevice
<1>1. IInv => RunningDevice
  BY DEF IInv
<1> QED
  BY InitIInv, StepIInv, <1>1, PTL DEF Spec

-----------------------------------------------------------------------------
\* The types, in parts.

StateOK ==
    /\ pc \in {"init", "clear", "task", "probe", "ack", "usb", "main"}
    /\ usb_task_state \in 1 .. 5 \cup 16 .. 21
                          \cup {ADDRESSING, CONFIGURING, RUNNING, ERROR}
    /\ event \in BOOLEAN /\ settled \in BOOLEAN

TableOK ==
    /\ epinfo \in [Addresses -> {"NULL", "dev0ep", "hid_ep"}]
    /\ devclass \in [Addresses -> {0, HID_K, HID_M}]
    /\ tmp_addr \in Addresses \cup {0} /\ hid_addr \in Addresses \cup {0}

MainOK ==
    /\ device \in {0, HID_K, HID_M, NoClass}
    /\ runningdebugflag \in BOOLEAN /\ errorflag \in BOOLEAN /\ led9 \in BOOLEAN

ChipOK ==
    /\ condet \in BOOLEAN /\ busevent \in BOOLEAN /\ frame \in BOOLEAN
    /\ busrst \in BOOLEAN /\ sofkaenab \in BOOLEAN

BusOK ==
    /\ plugged \in Kinds \cup {"none"}
    /\ devAddr \in 0 .. NoAddress /\ configured \in BOOLEAN

Types == StateOK /\ TableOK /\ MainOK /\ ChipOK /\ BusOK

LEMMA InitType == Init => Types
<1> SUFFICES ASSUME Init PROVE Types
  OBVIOUS
<1>1. StateOK
  <2>1. pc = "init" /\ usb_task_state = 1 /\ event \in BOOLEAN /\ settled \in BOOLEAN
    BY Zenon DEF Init, INITIALIZE
  <2>2. usb_task_state \in 1 .. 5
    BY <2>1
  <2> QED
    BY <2>1, <2>2, Zenon DEF StateOK
<1>2. TableOK
  BY DEF Init, TableOK
<1>3. MainOK
  BY DEF Init, MainOK
<1>4. ChipOK
  BY DEF Init, ChipOK
<1>5. BusOK
  <2>1. NoAddress \in 0 .. NoAddress
    BY DeviceAssumption DEF NoAddress
  <2> QED
    BY <2>1, Zenon DEF Init, BusOK
<1> QED
  BY <1>1, <1>2, <1>3, <1>4, <1>5 DEF Types

\* The environment leaves the firmware's variables alone.
LEMMA ChipType ==
    ASSUME Types, ResetDone \/ StartOfFrame \/ Settled \/ User
    PROVE  Types'
<1> USE DEF Types
<1>1. StateOK'
  BY Zenon DEF StateOK, ResetDone, StartOfFrame, Settled, User, Plug, Unplug
<1>2. TableOK' /\ MainOK'
  <2>1. UNCHANGED <<table, tmp_addr, hid_addr, mainVars>>
    BY Zenon DEF ResetDone, StartOfFrame, Settled, User, Plug, Unplug
  <2> QED
    BY <2>1 DEF table, mainVars, TableOK, MainOK
<1>3. ChipOK'
  BY Zenon DEF ChipOK, ResetDone, StartOfFrame, Settled, User, Plug, Unplug, chip
<1>4. BusOK'
  <2>1. 0 \in 0 .. NoAddress /\ NoAddress \in 0 .. NoAddress
    BY DeviceAssumption DEF NoAddress
  <2> QED
    BY <2>1 DEF BusOK, ResetDone, StartOfFrame, Settled, User, Plug, Unplug, bus
<1> QED
  BY <1>1, <1>2, <1>3, <1>4

LEMMA HandlerType ==
    ASSUME Types, CheckPin \/ Probe \/ Ack \/ InitChip \/ InitClear
    PROVE  Types'
<1> USE DEF Types
<1>1. StateOK'
  <2>1. Probed \in {1, 3, 4, 16, 19}
    BY ProbedStates DEF INITIALIZE, WAIT_FOR_DEVICE, ILLEGAL, ATTACHED,
                        WAIT_RESET_COMPLETE
  <2>2. (Probed + 1) % 256 \in {2, 4, 5, 17, 20}
    BY <2>1
  <2>3. /\ Probed \in 1 .. 5 \cup 16 .. 21
        /\ (Probed + 1) % 256 \in 1 .. 5 \cup 16 .. 21
    BY <2>1, <2>2
  <2> QED
    BY <2>3, Zenon DEF StateOK, ChipOK, CheckPin, Probe, Ack, InitChip, InitClear
<1>2. TableOK'
  BY DEF TableOK, CheckPin, Probe, Ack, InitChip, InitClear, ClearTable, table
<1>3. MainOK'
  BY Zenon DEF MainOK, CheckPin, Probe, Ack, InitChip, InitClear, mainVars
<1>4. ChipOK'
  BY Zenon DEF ChipOK, CheckPin, Probe, Ack, InitChip, InitClear, StartsHost, chip
<1>5. BusOK'
  BY Zenon DEF BusOK, CheckPin, Probe, Ack, InitChip, InitClear, bus
<1> QED
  BY <1>1, <1>2, <1>3, <1>4, <1>5 DEF Types

\* Steps of USB_Task: the addresses that it uses are in the table (TableInv).
LEMMA UsbType ==
    ASSUME Types, IInv, NEW ok \in BOOLEAN, UsbTask(ok)
    PROVE  Types'
<1> USE DEF Types
<1>1. StateOK'
  <2>1. {WAIT_FOR_DEVICE, SETTLE, RESET_DEVICE, WAIT_RESET_COMPLETE, WAIT_SOF,
         GET_DEVICE_DESCRIPTOR_SIZE}
            \subseteq 1 .. 5 \cup 16 .. 21
    BY DEF WAIT_FOR_DEVICE, SETTLE, RESET_DEVICE, WAIT_RESET_COMPLETE, WAIT_SOF,
           GET_DEVICE_DESCRIPTOR_SIZE
  <2>2. event' = event /\ settled' \in {settled, FALSE} /\ pc' = "main"
    BY Zenon DEF UsbTask, UsbIdle, UsbInitialize, UsbAttached, UsbSettle,
                 UsbResetDevice, UsbWaitReset, UsbWaitSof, UsbGetDescriptor,
                 UsbAddressing, UsbConfiguring, Goto
  <2>3. usb_task_state' \in {usb_task_state, WAIT_FOR_DEVICE, SETTLE, RESET_DEVICE,
            WAIT_RESET_COMPLETE, WAIT_SOF, GET_DEVICE_DESCRIPTOR_SIZE, ADDRESSING,
            CONFIGURING, RUNNING, ERROR}
    BY Zenon DEF UsbTask, UsbIdle, UsbInitialize, UsbAttached, UsbSettle,
                 UsbResetDevice, UsbWaitReset, UsbWaitSof, UsbGetDescriptor,
                 UsbAddressing, UsbConfiguring, Goto
  <2> QED
    BY <2>1, <2>2, <2>3, Zenon DEF StateOK
<1>2. TableOK'
  <2>1. CASE UsbAddressing(ok)
    BY <2>1 DEF UsbAddressing, TableOK, Goto
  <2>2. CASE UsbConfiguring(ok)
    <3>1. tmp_addr \in Addresses
      BY <2>2 DEF UsbConfiguring, IInv, TableInv
    <3>2. /\ epinfo' \in {epinfo, [epinfo EXCEPT ![tmp_addr] = "hid_ep"]}
          /\ devclass' \in {devclass, [devclass EXCEPT ![tmp_addr] = HID_M],
                            [devclass EXCEPT ![tmp_addr] = HID_K]}
          /\ tmp_addr' = tmp_addr /\ hid_addr' \in {hid_addr, tmp_addr}
      BY <2>2 DEF UsbConfiguring, Recognised, table
    <3> QED
      BY <3>1, <3>2 DEF TableOK
  <2>3. CASE UsbInitialize
    BY <2>3 DEF UsbInitialize, ClearTable, TableOK
  <2>4. CASE UNCHANGED <<table, tmp_addr, hid_addr>>
    BY <2>4 DEF TableOK, table
  <2> QED
    BY <2>1, <2>2, <2>3, <2>4
    DEF UsbTask, UsbIdle, UsbAttached, UsbSettle, UsbResetDevice, UsbWaitReset,
        UsbWaitSof, UsbGetDescriptor
<1>3. MainOK'
  <2>1. UNCHANGED mainVars
    BY Zenon DEF UsbTask, UsbIdle, UsbInitialize, UsbAttached, UsbSettle,
                 UsbResetDevice, UsbWaitReset, UsbWaitSof, UsbGetDescriptor,
                 UsbAddressing, UsbConfiguring
  <2> QED
    BY <2>1, Zenon DEF MainOK, mainVars
<1>4. ChipOK'
  BY Zenon DEF ChipOK, UsbTask, UsbIdle, UsbInitialize, UsbAttached, UsbSettle,
               UsbResetDevice, UsbWaitReset, UsbWaitSof, UsbGetDescriptor,
               UsbAddressing, UsbConfiguring, chip
<1>5. BusOK'
  <2>1. CASE UsbAddressing(ok)
    <3>1. 0 \in 0 .. NoAddress /\ \A a \in Addresses : a \in 0 .. NoAddress
      BY DeviceAssumption DEF Addresses, NoAddress
    <3> QED
      BY <2>1, <3>1, Zenon DEF UsbAddressing, BusOK
  <2>2. CASE UsbConfiguring(ok)
    BY <2>2, Zenon DEF UsbConfiguring, BusOK
  <2>3. CASE UNCHANGED bus
    BY <2>3, Zenon DEF BusOK, bus
  <2> QED
    BY <2>1, <2>2, <2>3, Zenon
    DEF UsbTask, UsbIdle, UsbInitialize, UsbAttached, UsbSettle, UsbResetDevice,
        UsbWaitReset, UsbWaitSof, UsbGetDescriptor
<1> QED
  BY <1>1, <1>2, <1>3, <1>4, <1>5

-----------------------------------------------------------------------------
\* The device that runs has the last address in use, so it is the one whose
\* class main finds at the end of its search.

LastInv ==
    /\ usb_task_state = CONFIGURING =>
           \A b \in Addresses : b > tmp_addr => Free(b)
    /\ usb_task_state = RUNNING =>
           \A b \in Addresses : b > hid_addr => Free(b)

LEMMA InitLast == Init => LastInv
BY DEF Init, LastInv, INITIALIZE, CONFIGURING, RUNNING

LEMMA StepLast == ASSUME IInv, LastInv, [Next]_vars PROVE LastInv'
<1>1. CASE UNCHANGED vars
  BY <1>1 DEF vars, table, LastInv, Free
<1>2. CASE ResetDone \/ StartOfFrame \/ Settled \/ User
  BY <1>2 DEF ResetDone, StartOfFrame, Settled, User, Plug, Unplug, table, LastInv,
              Free
<1>3. CASE CheckPin \/ Ack \/ Main
  BY <1>3 DEF CheckPin, Ack, Main, MainReport, MainPoll, MainError, MainOther, table,
              LastInv, Free
<1>4. CASE Probe \/ InitChip \/ InitClear
  <2>1. usb_task_state' \notin {CONFIGURING, RUNNING}
    BY <1>4, ProbedStates
    DEF Probe, InitChip, InitClear, IInv, ProbeInv, INITIALIZE, WAIT_FOR_DEVICE,
        ILLEGAL, ATTACHED, WAIT_RESET_COMPLETE, CONFIGURING, RUNNING
  <2> QED
    BY <2>1 DEF LastInv
<1>5. ASSUME NEW ok \in BOOLEAN, UsbTask(ok) PROVE LastInv'
  <2>1. CASE UsbAddressing(ok)
    <3>1. CASE usb_task_state' = CONFIGURING
      <4>1. PICK a \in Addresses :
                /\ FirstFree(a)
                /\ epinfo' = [epinfo EXCEPT ![a] = "dev0ep"]
                /\ tmp_addr' = a
        BY <2>1, <3>1 DEF UsbAddressing, Goto, CONFIGURING, ERROR
      <4>2. \A b \in Addresses : b > a => Free(b)
        BY <4>1 DEF IInv, TableInv, FirstFree, Addresses
      <4>3. \A b \in Addresses : b > a => Free(b)'
        BY <4>1, <4>2 DEF Free, IInv, TableInv, Addresses
      <4> QED
        BY <3>1, <4>1, <4>3 DEF LastInv, CONFIGURING, RUNNING
    <3>2. CASE usb_task_state' = ERROR
      BY <3>2 DEF LastInv, CONFIGURING, RUNNING, ERROR
    <3> QED
      BY <2>1, <3>1, <3>2 DEF UsbAddressing, Goto
  <2>2. CASE UsbConfiguring(ok)
    <3>1. CASE usb_task_state' = RUNNING
      <4>1. hid_addr' = tmp_addr /\ epinfo' = [epinfo EXCEPT ![tmp_addr] = "hid_ep"]
        BY <2>2, <3>1 DEF UsbConfiguring, Recognised, Goto, RUNNING, ERROR
      <4>2. \A b \in Addresses : b > tmp_addr => Free(b)
        BY <2>2 DEF UsbConfiguring, LastInv
      <4>3. \A b \in Addresses : b > tmp_addr => Free(b)'
        BY <4>1, <4>2 DEF Free, IInv, TableInv, Addresses
      <4> QED
        BY <3>1, <4>1, <4>3 DEF LastInv, CONFIGURING, RUNNING
    <3>2. CASE usb_task_state' = ERROR
      BY <3>2 DEF LastInv, CONFIGURING, RUNNING, ERROR
    <3> QED
      BY <2>2, <3>1, <3>2 DEF UsbConfiguring, Goto
  <2>3. CASE UsbIdle
    BY <2>3 DEF UsbIdle, table, LastInv, Free
  <2>4. CASE UsbInitialize
    BY <2>4 DEF UsbInitialize, Goto, LastInv, WAIT_FOR_DEVICE, CONFIGURING, RUNNING
  <2>5. CASE UsbAttached \/ UsbSettle \/ UsbResetDevice \/ UsbWaitReset \/ UsbWaitSof
             \/ UsbGetDescriptor(ok)
    <3>1. usb_task_state' \in {SETTLE, RESET_DEVICE, WAIT_RESET_COMPLETE, WAIT_SOF,
                               GET_DEVICE_DESCRIPTOR_SIZE, ADDRESSING, ERROR}
      BY <2>5, Zenon DEF UsbAttached, UsbSettle, UsbResetDevice, UsbWaitReset,
                         UsbWaitSof, UsbGetDescriptor, Goto
    <3> QED
      BY <3>1 DEF LastInv, SETTLE, RESET_DEVICE, WAIT_RESET_COMPLETE, WAIT_SOF,
                  GET_DEVICE_DESCRIPTOR_SIZE, ADDRESSING, CONFIGURING, RUNNING, ERROR
  <2> QED
    BY <1>5, <2>1, <2>2, <2>3, <2>4, <2>5 DEF UsbTask
<1> QED
  BY <1>1, <1>2, <1>3, <1>4, <1>5 DEF Next, Firmware

LEMMA LastClassIs ==
    ASSUME IInv, LastInv, usb_task_state = RUNNING
    PROVE  LastClass = devclass[hid_addr] /\ hid_addr \in Addresses
<1>1. hid_addr \in Addresses /\ ~Free(hid_addr)
  BY DEF IInv, TableInv, Free
<1>2. \A b \in Addresses : b > hid_addr => Free(b)
  BY DEF LastInv
<1> DEFINE L(a) == ~Free(a) /\ \A b \in Addresses : b > a => Free(b)
<1>3. \A a \in Addresses : L(a) => a = hid_addr
  BY <1>1, <1>2 DEF Addresses
<1>4. L(hid_addr)
  BY <1>1, <1>2
<1>5. (CHOOSE a \in Addresses : L(a)) = hid_addr
  <2> HIDE DEF L
  <2> QED
    BY <1>1, <1>3, <1>4
<1> QED
  BY <1>1, <1>5 DEF LastClass

LEMMA MainType == ASSUME Types, IInv, LastInv, Main PROVE Types'
<1> USE DEF Types
<1>1. StateOK'
  BY Zenon DEF StateOK, Main, MainReport, MainPoll, MainError, MainOther
<1>2. TableOK'
  <2>1. UNCHANGED <<table, tmp_addr, hid_addr>>
    BY Zenon DEF Main, MainReport, MainPoll, MainError, MainOther
  <2> QED
    BY <2>1 DEF TableOK, table
<1>3. MainOK'
  <2>1. CASE MainReport
    <3>1. devclass[hid_addr] \in {0, HID_K, HID_M}
      BY <2>1, LastClassIs DEF MainReport, TableOK
    <3>2. LastClass \in {0, HID_K, HID_M, NoClass}
      BY <2>1, <3>1, LastClassIs DEF MainReport
    <3> QED
      BY <2>1, <3>2, Zenon DEF MainReport, MainOK
  <2>2. CASE MainPoll \/ MainError \/ MainOther
    BY <2>2, Zenon DEF MainOK, mainVars, MainPoll, MainError, MainOther
  <2> QED
    BY <2>1, <2>2 DEF Main
<1>4. ChipOK' /\ BusOK'
  <2>1. UNCHANGED <<chip, bus>>
    BY Zenon DEF Main, MainReport, MainPoll, MainError, MainOther
  <2> QED
    BY <2>1, Zenon DEF ChipOK, chip, BusOK, bus
<1> QED
  BY <1>1, <1>2, <1>3, <1>4

LEMMA StepType == ASSUME Types, IInv, LastInv, [Next]_vars PROVE Types'
<1>1. CASE UNCHANGED vars
  <2>1. StateOK' /\ ChipOK'
    BY <1>1, Zenon DEF vars, chip, Types, StateOK, ChipOK
  <2>2. MainOK' /\ BusOK'
    BY <1>1, Zenon DEF vars, mainVars, bus, Types, MainOK, BusOK
  <2> QED
    BY <1>1, <2>1, <2>2 DEF vars, table, Types, TableOK
<1>2. CASE ResetDone \/ StartOfFrame \/ Settled \/ User
  BY <1>2, ChipType
<1>3. CASE \E ok \in BOOLEAN : Firmware(ok)
  BY <1>3, HandlerType, UsbType, MainType DEF Firmware
<1> QED
  BY <1>1, <1>2, <1>3 DEF Next

-----------------------------------------------------------------------------
\* The flags of main, wherever the loop is.

\* At the start of a loop they agree with the state.
Agree ==
    /\ runningdebugflag <=> usb_task_state = RUNNING
    /\ led9 <=> usb_task_state = RUNNING
    /\ errorflag <=> usb_task_state = ERROR
    /\ runningdebugflag => device = devclass[hid_addr]

\* The handler leaves a state from which neither a running device nor an error
\* is less than a whole loop away; the flags are still those of before.
Changed ==
    /\ led9 <=> runningdebugflag
    /\ errorflag => ~runningdebugflag
    /\ usb_task_state \notin {RUNNING, ERROR, CONFIGURING, ADDRESSING,
                              GET_DEVICE_DESCRIPTOR_SIZE}

\* What USB_Task makes of the one or the other.
Stepped ==
    /\ led9 <=> runningdebugflag
    /\ errorflag => ~runningdebugflag
    /\ usb_task_state = RUNNING =>
           ~errorflag /\ (runningdebugflag => device = devclass[hid_addr])
    /\ usb_task_state = ERROR => ~runningdebugflag

FlagInv ==
    /\ pc \in {"init", "clear"} =>
           ~runningdebugflag /\ usb_task_state \notin {RUNNING, ERROR}
    /\ pc \in {"task", "probe"} => Agree
    /\ pc = "ack" => Changed
    /\ pc = "usb" => Agree \/ Changed
    /\ pc = "main" => Stepped

LEMMA InitFlags == Init => FlagInv
BY DEF Init, FlagInv, INITIALIZE, RUNNING, ERROR

LEMMA StepFlags == ASSUME IInv, LastInv, Types, FlagInv, [Next]_vars PROVE FlagInv'
<1> USE DEF FlagInv, Agree, Changed, Stepped
<1>1. CASE UNCHANGED <<pc, usb_task_state, hid_addr, table, mainVars>>
  BY <1>1 DEF table, mainVars
<1>2. CASE UNCHANGED vars \/ ResetDone \/ StartOfFrame \/ Settled \/ User
  <2>1. UNCHANGED <<pc, usb_task_state, hid_addr, table, mainVars>>
    BY <1>2, Zenon DEF vars, ResetDone, StartOfFrame, Settled, User, Plug, Unplug
  <2> QED
    BY <1>1, <2>1
<1>3. CASE CheckPin \/ Ack
  <2>1. UNCHANGED <<usb_task_state, hid_addr, devclass, runningdebugflag, errorflag,
                    led9, device>>
    BY <1>3, Zenon DEF CheckPin, Ack, table, mainVars
  <2>2. CASE pc = "task" /\ pc' \in {"probe", "usb"}
    BY <2>1, <2>2
  <2>3. CASE pc = "ack" /\ pc' = "usb"
    BY <2>1, <2>3
  <2> QED
    BY <1>3, <2>2, <2>3 DEF CheckPin, Ack
<1>4. CASE Probe \/ InitChip
  <2>1. usb_task_state' \in {1, 2, 3, 4, 5, 16, 17, 19, 20}
    BY <1>4, ProbedStates DEF Probe, InitChip, INITIALIZE, WAIT_FOR_DEVICE, ILLEGAL,
                              ATTACHED, WAIT_RESET_COMPLETE
  <2> QED
    BY <1>4, <2>1 DEF Probe, InitChip, mainVars, RUNNING, ERROR, CONFIGURING,
                      ADDRESSING, GET_DEVICE_DESCRIPTOR_SIZE
<1>5. CASE InitClear
  BY <1>5 DEF InitClear
<1>6. ASSUME NEW ok \in BOOLEAN, UsbTask(ok) PROVE FlagInv'
  <2>1. pc = "usb" /\ pc' = "main" /\ UNCHANGED mainVars
    BY <1>6, Zenon DEF UsbTask, UsbIdle, UsbInitialize, UsbAttached, UsbSettle,
                       UsbResetDevice, UsbWaitReset, UsbWaitSof, UsbGetDescriptor,
                       UsbAddressing, UsbConfiguring, Goto
  <2>2. CASE UsbIdle
    BY <2>1, <2>2 DEF UsbIdle, table, mainVars, RUNNING, ERROR
  <2>3. CASE UsbGetDescriptor(ok) \/ UsbAddressing(ok) \/ UsbConfiguring(ok)
    <3>1. ~runningdebugflag /\ ~errorflag /\ ~led9
      BY <2>1, <2>3 DEF UsbGetDescriptor, UsbAddressing, UsbConfiguring, RUNNING, ERROR,
                        CONFIGURING, ADDRESSING, GET_DEVICE_DESCRIPTOR_SIZE
    <3> QED
      BY <2>1, <3>1 DEF mainVars
  <2>4. CASE UsbInitialize \/ UsbAttached \/ UsbSettle \/ UsbResetDevice
             \/ UsbWaitReset \/ UsbWaitSof
    <3>1. usb_task_state' \in {WAIT_FOR_DEVICE, SETTLE, RESET_DEVICE,
                               WAIT_RESET_COMPLETE, WAIT_SOF,
                               GET_DEVICE_DESCRIPTOR_SIZE}
      BY <2>4, Zenon DEF UsbInitialize, UsbAttached, UsbSettle, UsbResetDevice,
                         UsbWaitReset, UsbWaitSof, Goto
    <3>2. usb_task_state' \notin {RUNNING, ERROR}
      BY <3>1 DEF WAIT_FOR_DEVICE, SETTLE, RESET_DEVICE, WAIT_RESET_COMPLETE, WAIT_SOF,
                  GET_DEVICE_DESCRIPTOR_SIZE, RUNNING, ERROR
    <3>3. (led9 <=> runningdebugflag) /\ (errorflag => ~runningdebugflag)
      BY <2>1 DEF RUNNING, ERROR
    <3> QED
      BY <2>1, <3>2, <3>3 DEF mainVars
  <2> QED
    BY <1>6, <2>2, <2>3, <2>4 DEF UsbTask
<1>7. CASE MainReport
  <2>1. device' = devclass[hid_addr]
    BY <1>7, LastClassIs DEF MainReport
  <2> QED
    BY <1>7, <2>1 DEF MainReport, table, RUNNING, ERROR
<1>8. CASE MainPoll
  BY <1>8 DEF MainPoll, table, mainVars, RUNNING, ERROR
<1>9. CASE MainError
  <2>1. ~runningdebugflag /\ ~led9 /\ RUNNING # ERROR
    BY <1>9 DEF MainError, RUNNING, ERROR
  <2>2. pc' = "task" /\ usb_task_state' = ERROR /\ errorflag' /\ ~led9'
    BY <1>9, <2>1, Zenon DEF MainError
  <2>3. ~runningdebugflag'
    BY <1>9, <2>1, Zenon DEF MainError
  <2> QED
    BY <2>1, <2>2, <2>3
<1>10. CASE MainOther
  BY <1>10 DEF MainOther
<1> QED
  BY <1>2, <1>3, <1>4, <1>5, <1>6, <1>7, <1>8, <1>9, <1>10 DEF Next, Firmware, Main

-----------------------------------------------------------------------------

FullInv == IInv /\ LastInv /\ Types /\ FlagInv

LEMMA InitFull == Init => FullInv
BY InitIInv, InitLast, InitType, InitFlags DEF FullInv

LEMMA StepFull == FullInv /\ [Next]_vars => FullInv'
BY StepIInv, StepLast, StepType, StepFlags DEF FullInv

\* The state machine never leaves its states although it is incremented from
\* outside of them, and the table holds addresses only.
THEOREM HostTypes == Spec => []TypeOK
<1>1. FullInv => TypeOK
  BY Zenon DEF FullInv, Types, StateOK, TableOK, MainOK, ChipOK, BusOK, TypeOK
<1> QED
  BY InitFull, StepFull, <1>1, PTL DEF Spec

\* Main's flags, LED 9 and the class that it polls agree with the state at the
\* start of every loop, however the handler and USB_Task have changed it.
THEOREM FlagsAgree == Spec => []LoopFlags
<1>1. FullInv => LoopFlags
  BY Zenon DEF FullInv, FlagInv, Agree, Types, MainOK, LoopFlags
<1> QED
  BY InitFull, StepFull, <1>1, PTL DEF Spec

=============================================================================
