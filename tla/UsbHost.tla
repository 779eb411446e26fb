------------------------------ MODULE UsbHost ------------------------------
(***************************************************************************)
(* The firmware's main loop (main.c) with the state machine that brings a  *)
(* USB device up (USB_Task of transfer.c) and the handler of the MAX3421E  *)
(* host controller (MAX3421E.c).  The firmware is one thread; the chip and *)
(* the user who plugs devices act between any two of its accesses to the   *)
(* chip.  A transfer either succeeds or fails here: what it does is in     *)
(* modules Dispatch and KbdPoll.                                           *)
(***************************************************************************)
EXTENDS Integers

CONSTANTS
    USB_NUMDEVICES,     \* addresses 1 .. USB_NUMDEVICES - 1 are given away (8)
    Kinds               \* what the user may plug in

ASSUME DeviceAssumption ==
    /\ USB_NUMDEVICES \in Nat /\ USB_NUMDEVICES >= 2
    /\ Kinds \subseteq {"keyboard", "mouse", "other", "short"}

\* Values of usb_task_state.  The high half-byte is the state, the low one the
\* substate.
INITIALIZE == 1
WAIT_FOR_DEVICE == 3
ILLEGAL == 4
ATTACHED == 16
SETTLE == 17
RESET_DEVICE == 18
WAIT_RESET_COMPLETE == 19
WAIT_SOF == 20
GET_DEVICE_DESCRIPTOR_SIZE == 21
ADDRESSING == 32
CONFIGURING == 48
RUNNING == 64
ERROR == 255

Major(s) == s \div 16           \* USB_STATE_MASK
DETACHED == 0

Addresses == 1 .. USB_NUMDEVICES - 1
NoAddress == USB_NUMDEVICES     \* of a device that has not been reset yet

HID_K == 1                      \* device classes
HID_M == 2
NoClass == 255

VARIABLES
    pc,                 \* what the firmware does next
    usb_task_state,
    event,              \* the handler read HIRQ with BUSEVENTIRQ set
    settled,            \* the time in usb_delay is over
    epinfo, devclass,   \* the device table
    tmp_addr,           \* address given to the device
    hid_addr,           \* hid_device.addr
    runningdebugflag, errorflag, device,    \* variables of main
    led9,               \* LED 9 shows that the keyboard works
    condet, busevent, frame,    \* bits of HIRQ: CONDET, BUSEVENT, FRAME
    busrst,             \* bit of HCTL: the chip resets the bus
    sofkaenab,          \* bit of MODE: the chip sends start-of-frame packets
    plugged,            \* the device in the socket
    devAddr,            \* address that it answers to
    configured          \* it has been given a configuration

table == <<epinfo, devclass>>
mainVars == <<runningdebugflag, errorflag, device, led9>>
chip == <<condet, busevent, frame, busrst, sofkaenab>>
bus == <<plugged, devAddr, configured>>
vars == <<pc, usb_task_state, event, settled, table, tmp_addr, hid_addr,
          mainVars, chip, bus>>

TypeOK ==
    /\ pc \in {"init", "clear", "task", "probe", "ack", "usb", "main"}
    /\ usb_task_state \in 1 .. 5 \cup 16 .. 21
                          \cup {ADDRESSING, CONFIGURING, RUNNING, ERROR}
    /\ epinfo \in [Addresses -> {"NULL", "dev0ep", "hid_ep"}]
    /\ devclass \in [Addresses -> {0, HID_K, HID_M}]
    /\ tmp_addr \in Addresses \cup {0} /\ hid_addr \in Addresses \cup {0}
    /\ device \in {0, HID_K, HID_M, NoClass}
    /\ event \in BOOLEAN /\ settled \in BOOLEAN
    /\ runningdebugflag \in BOOLEAN /\ errorflag \in BOOLEAN /\ led9 \in BOOLEAN
    /\ condet \in BOOLEAN /\ busevent \in BOOLEAN /\ frame \in BOOLEAN
    /\ busrst \in BOOLEAN /\ sofkaenab \in BOOLEAN
    /\ plugged \in Kinds \cup {"none"}
    /\ devAddr \in 0 .. NoAddress /\ configured \in BOOLEAN

-----------------------------------------------------------------------------

\* Slips that the definitions of the same names below could contain.
BugProbed ==                        \* a running device is taken to stay
    CASE plugged = "none" ->
           IF Major(usb_task_state) = DETACHED THEN WAIT_FOR_DEVICE
           ELSE IF usb_task_state = RUNNING THEN RUNNING ELSE INITIALIZE
      [] plugged = "short" -> ILLEGAL
      [] OTHER -> IF usb_task_state = WAIT_RESET_COMPLETE
                  THEN WAIT_RESET_COMPLETE ELSE ATTACHED

BugProbe ==                         \* the state of before the probe advances
    /\ pc = "probe"
    /\ pc' = "ack"
    /\ usb_task_state' = (usb_task_state + 1) % 256
    /\ UNCHANGED <<event, settled, table, tmp_addr, hid_addr, mainVars, chip, bus>>

BugFirstFree(a) ==                  \* any free address
    epinfo[a] = "NULL"

BugUsbResetDevice ==                \* the old BUSEVENT is not cleared
    /\ pc = "usb" /\ usb_task_state = RESET_DEVICE
    /\ busrst' = TRUE
    /\ usb_task_state' = WAIT_RESET_COMPLETE /\ pc' = "main"
    /\ UNCHANGED <<event, settled, table, tmp_addr, hid_addr, mainVars, condet,
                   busevent, frame, sofkaenab, bus>>

BugLastClass ==                     \* the search ends at the first device
    devclass[1]

BugMainOther ==                     \* starts over in every loop
    /\ pc = "main" /\ usb_task_state \notin {RUNNING, ERROR}
    /\ runningdebugflag' = FALSE
    /\ pc' = "init"
    /\ UNCHANGED <<usb_task_state, event, settled, table, tmp_addr, hid_addr,
                   errorflag, led9, device, chip, bus>>

\* What the two status lines of the bus say.
BusLine == CASE plugged = "none" -> "SE0"
             [] plugged = "short" -> "SE1"
             [] OTHER -> "JK"

\* A device answers at its address, once it has been reset, between resets.
Responds(a) == plugged \notin {"none", "short"} /\ devAddr = a /\ ~busrst

\* MAX_busprobe: a device whose bus reset is under way is not new.
Probed ==
    CASE BusLine = "JK" -> IF usb_task_state = WAIT_RESET_COMPLETE
                           THEN WAIT_RESET_COMPLETE ELSE ATTACHED
      [] BusLine = "SE1" -> ILLEGAL
      [] BusLine = "SE0" -> IF Major(usb_task_state) = DETACHED
                            THEN WAIT_FOR_DEVICE ELSE INITIALIZE

\* Does it write MODE, which starts the start-of-frame packets?
StartsHost ==
    \/ BusLine = "JK" /\ usb_task_state # WAIT_RESET_COMPLETE
    \/ BusLine = "SE0" /\ Major(usb_task_state) = DETACHED

\* USB_init: no address is in use.
ClearTable ==
    /\ epinfo' = [a \in Addresses |-> "NULL"]
    /\ devclass' = [a \in Addresses |-> 0]

Free(a) == epinfo[a] = "NULL"

FirstFree(a) == Free(a) /\ \A b \in Addresses : b < a => ~Free(b)

Goto(s) == usb_task_state' = s /\ pc' = "main"

-----------------------------------------------------------------------------
\* The chip and the user.

\* Plugging a device in or out; only the change is signalled.
Plug(kind) ==
    /\ plugged = "none"
    /\ plugged' = kind /\ devAddr' = NoAddress /\ configured' = FALSE
    /\ condet' = TRUE
    /\ UNCHANGED <<pc, usb_task_state, event, settled, table, tmp_addr, hid_addr,
                   mainVars, busevent, frame, busrst, sofkaenab>>

Unplug ==
    /\ plugged # "none"
    /\ plugged' = "none" /\ devAddr' = NoAddress /\ configured' = FALSE
    /\ condet' = TRUE
    /\ UNCHANGED <<pc, usb_task_state, event, settled, table, tmp_addr, hid_addr,
                   mainVars, busevent, frame, busrst, sofkaenab>>

\* The chip ends a bus reset by itself.  "Bus reset causes connection detect
\* interrupt", says the handler; it may not.
ResetDone ==
    /\ busrst
    /\ busrst' = FALSE /\ busevent' = TRUE
    /\ condet' \in {condet, TRUE}
    /\ devAddr' = IF plugged = "none" THEN devAddr ELSE 0
    /\ configured' = FALSE
    /\ UNCHANGED <<pc, usb_task_state, event, settled, table, tmp_addr, hid_addr,
                   mainVars, frame, sofkaenab, plugged>>

StartOfFrame ==
    /\ sofkaenab /\ ~busrst /\ ~frame
    /\ frame' = TRUE
    /\ UNCHANGED <<pc, usb_task_state, event, settled, table, tmp_addr, hid_addr,
                   mainVars, condet, busevent, busrst, sofkaenab, bus>>

\* 200 ms have passed since usb_delay was set.
Settled ==
    /\ ~settled
    /\ settled' = TRUE
    /\ UNCHANGED <<pc, usb_task_state, event, table, tmp_addr, hid_addr, mainVars,
                   chip, bus>>

-----------------------------------------------------------------------------
\* The interrupt handler and the initialisation of the chip.

\* MAX3421E_Task: the interrupt pin is only driven by CONDETIRQ.
CheckPin ==
    /\ pc = "task"
    /\ pc' = IF condet THEN "probe" ELSE "usb"
    /\ event' = (condet /\ busevent)
    /\ UNCHANGED <<usb_task_state, settled, table, tmp_addr, hid_addr, mainVars,
                   chip, bus>>

\* MaxIntHandler from the read of HRSL on: usb_task_state++ comes after the
\* probe has set it.
Probe ==
    /\ pc = "probe"
    /\ pc' = "ack"
    /\ usb_task_state' = IF event THEN (Probed + 1) % 256 ELSE Probed
    /\ sofkaenab' = (sofkaenab \/ StartsHost)
    /\ UNCHANGED <<event, settled, table, tmp_addr, hid_addr, mainVars, condet,
                   busevent, frame, busrst, bus>>

\* The write of HIRQ clears what the handler has read, the frame bit too.
Ack ==
    /\ pc = "ack"
    /\ pc' = "usb"
    /\ condet' = FALSE
    /\ busevent' = (busevent /\ ~event)
    /\ frame' \in {frame, FALSE}
    /\ UNCHANGED <<usb_task_state, event, settled, table, tmp_addr, hid_addr,
                   mainVars, busrst, sofkaenab, bus>>

\* MAX3421E_init: reset the chip and probe the bus.
InitChip ==
    /\ pc = "init"
    /\ pc' = "clear"
    /\ usb_task_state' = Probed
    /\ condet' = FALSE /\ busevent' = FALSE /\ frame' = FALSE
    /\ busrst' = FALSE
    /\ sofkaenab' = StartsHost
    /\ UNCHANGED <<event, settled, table, tmp_addr, hid_addr, mainVars, bus>>

\* The rest of MAX3421E_init, USB_init, and what main does after them.
InitClear ==
    /\ pc = "clear"
    /\ pc' = "task"
    /\ condet' = FALSE
    /\ ClearTable
    /\ errorflag' = FALSE /\ led9' = FALSE
    /\ UNCHANGED <<usb_task_state, event, settled, tmp_addr, hid_addr,
                   runningdebugflag, device, busevent, frame, busrst, sofkaenab,
                   bus>>

-----------------------------------------------------------------------------
\* USB_Task: one action for each case of its switch.  ok says whether the
\* transfers that the step makes to a responding device succeed.

\* States that wait for a device, that have nothing left to do, and those that
\* no case matches: INITIALIZE + 1, ILLEGAL + 1 and, in spite of its case,
\* ERROR, which the mask turns into 0xf0.
UsbIdle ==
    /\ pc = "usb"
    /\ \/ Major(usb_task_state) = DETACHED /\ usb_task_state # INITIALIZE
       \/ usb_task_state \in {RUNNING, ERROR}
    /\ pc' = "main"
    /\ UNCHANGED <<usb_task_state, event, settled, table, tmp_addr, hid_addr,
                   mainVars, chip, bus>>

UsbInitialize ==
    /\ pc = "usb" /\ usb_task_state = INITIALIZE
    /\ ClearTable
    /\ Goto(WAIT_FOR_DEVICE)
    /\ UNCHANGED <<event, settled, tmp_addr, hid_addr, mainVars, chip, bus>>

UsbAttached ==
    /\ pc = "usb" /\ usb_task_state = ATTACHED
    /\ settled' = FALSE
    /\ Goto(SETTLE)
    /\ UNCHANGED <<event, table, tmp_addr, hid_addr, mainVars, chip, bus>>

UsbSettle ==
    /\ pc = "usb" /\ usb_task_state = SETTLE
    /\ Goto(IF settled THEN RESET_DEVICE ELSE SETTLE)
    /\ UNCHANGED <<event, settled, table, tmp_addr, hid_addr, mainVars, chip, bus>>

UsbResetDevice ==
    /\ pc = "usb" /\ usb_task_state = RESET_DEVICE
    /\ busevent' = FALSE
    /\ busrst' = TRUE
    /\ Goto(WAIT_RESET_COMPLETE)
    /\ UNCHANGED <<event, settled, table, tmp_addr, hid_addr, mainVars, condet,
                   frame, sofkaenab, bus>>

UsbWaitReset ==
    /\ pc = "usb" /\ usb_task_state = WAIT_RESET_COMPLETE
    /\ sofkaenab' = (sofkaenab \/ ~busrst)
    /\ Goto(IF busrst THEN WAIT_RESET_COMPLETE ELSE WAIT_SOF)
    /\ UNCHANGED <<event, settled, table, tmp_addr, hid_addr, mainVars, condet,
                   busevent, frame, busrst, bus>>

\* The condition "HIRQ | bmFRAMEIRQ" is always true.
UsbWaitSof ==
    /\ pc = "usb" /\ usb_task_state = WAIT_SOF
    /\ Goto(GET_DEVICE_DESCRIPTOR_SIZE)
    /\ UNCHANGED <<event, settled, table, tmp_addr, hid_addr, mainVars, chip, bus>>

\* Only the result of the first of its transfers counts.
UsbGetDescriptor(ok) ==
    /\ pc = "usb" /\ usb_task_state = GET_DEVICE_DESCRIPTOR_SIZE
    /\ Goto(IF ok /\ Responds(0) THEN ADDRESSING ELSE ERROR)
    /\ UNCHANGED <<event, settled, table, tmp_addr, hid_addr, mainVars, chip, bus>>

\* The table entry is taken before the transfer and kept if it fails; the
\* device may have taken the address although the transfer failed, and may not
\* have taken it although it succeeded (module Control).
UsbAddressing(ok) ==
    /\ pc = "usb" /\ usb_task_state = ADDRESSING
    /\ \/ \E a \in Addresses :
            /\ FirstFree(a)
            /\ epinfo' = [epinfo EXCEPT ![a] = "dev0ep"]
            /\ \/ /\ Responds(0)
                  /\ tmp_addr' = a /\ Goto(CONFIGURING)
                  /\ devAddr' = IF ok THEN a ELSE devAddr
               \/ /\ ~(ok /\ Responds(0))
                  /\ Goto(ERROR)
                  /\ devAddr' \in IF Responds(0) THEN {0, a} ELSE {devAddr}
                  /\ UNCHANGED tmp_addr
       \/ /\ \A a \in Addresses : ~Free(a)
          /\ Goto(ERROR)
          /\ UNCHANGED <<epinfo, tmp_addr, devAddr>>
    /\ UNCHANGED <<event, settled, devclass, hid_addr, mainVars, chip, plugged,
                   configured>>

\* A probe that has recognised its device fills in the table before it
\* configures it, and leaves it so if that fails.
Recognised ==
    /\ epinfo' = [epinfo EXCEPT ![tmp_addr] = "hid_ep"]
    /\ devclass' = [devclass EXCEPT ![tmp_addr] =
                        IF plugged = "mouse" THEN HID_M ELSE HID_K]
    /\ hid_addr' = tmp_addr

\* The probes of the four drivers, in turn.
UsbConfiguring(ok) ==
    /\ pc = "usb" /\ usb_task_state = CONFIGURING
    /\ LET hid == Responds(tmp_addr) /\ plugged \in {"keyboard", "mouse"}
       IN  \/ /\ ok /\ hid
              /\ Recognised
              /\ configured' = TRUE
              /\ Goto(RUNNING)
           \/ /\ ~ok /\ hid
              /\ Recognised
              /\ configured' \in BOOLEAN
              /\ Goto(ERROR)
           \/ /\ ~(ok /\ hid)
              /\ Goto(ERROR)
              /\ UNCHANGED <<table, hid_addr, configured>>
    /\ UNCHANGED <<event, settled, tmp_addr, mainVars, chip, plugged, devAddr>>

UsbTask(ok) ==
    \/ UsbIdle \/ UsbInitialize \/ UsbAttached \/ UsbSettle \/ UsbResetDevice
    \/ UsbWaitReset \/ UsbWaitSof
    \/ UsbGetDescriptor(ok) \/ UsbAddressing(ok) \/ UsbConfiguring(ok)

-----------------------------------------------------------------------------
\* The rest of the main loop.

\* GetDriverandReport: the class of the last device in the table.
LastClass ==
    IF \A a \in Addresses : Free(a) THEN NoClass
    ELSE devclass[CHOOSE a \in Addresses :
                     ~Free(a) /\ \A b \in Addresses : b > a => Free(b)]

MainReport ==
    /\ pc = "main" /\ usb_task_state = RUNNING /\ ~runningdebugflag
    /\ runningdebugflag' = TRUE /\ led9' = TRUE
    /\ device' = LastClass
    /\ pc' = "task"
    /\ UNCHANGED <<usb_task_state, event, settled, table, tmp_addr, hid_addr,
                   errorflag, chip, bus>>

\* kbdPoll, mousePoll, or nothing; what they read is in module KbdPoll.
MainPoll ==
    /\ pc = "main" /\ usb_task_state = RUNNING /\ runningdebugflag
    /\ pc' = "task"
    /\ UNCHANGED <<usb_task_state, event, settled, table, tmp_addr, hid_addr,
                   mainVars, chip, bus>>

MainError ==
    /\ pc = "main" /\ usb_task_state = ERROR
    /\ errorflag' = TRUE
    /\ led9' = (led9 /\ errorflag)
    /\ pc' = "task"
    /\ UNCHANGED <<usb_task_state, event, settled, table, tmp_addr, hid_addr,
                   runningdebugflag, device, chip, bus>>

\* Any other state after RUNNING starts the chip and the table over.
MainOther ==
    /\ pc = "main" /\ usb_task_state \notin {RUNNING, ERROR}
    /\ runningdebugflag' = FALSE
    /\ IF runningdebugflag
       THEN pc' = "init" /\ UNCHANGED <<errorflag, led9>>
       ELSE pc' = "task" /\ errorflag' = FALSE /\ led9' = FALSE
    /\ UNCHANGED <<usb_task_state, event, settled, table, tmp_addr, hid_addr,
                   device, chip, bus>>

Main == MainReport \/ MainPoll \/ MainError \/ MainOther

-----------------------------------------------------------------------------

Init ==
    /\ pc = "init" /\ usb_task_state = INITIALIZE
    /\ event = FALSE /\ settled = TRUE
    /\ epinfo = [a \in Addresses |-> "NULL"]
    /\ devclass = [a \in Addresses |-> 0]
    /\ tmp_addr = 0 /\ hid_addr = 0
    /\ runningdebugflag = FALSE /\ errorflag = FALSE /\ led9 = FALSE
    /\ device = NoClass
    /\ condet = FALSE /\ busevent = FALSE /\ frame = FALSE
    /\ busrst = FALSE /\ sofkaenab = FALSE
    /\ plugged \in Kinds \cup {"none"}
    /\ devAddr = NoAddress /\ configured = FALSE

Firmware(ok) ==
    CheckPin \/ Probe \/ Ack \/ InitChip \/ InitClear \/ UsbTask(ok) \/ Main

User == Unplug \/ \E kind \in Kinds : Plug(kind)

Next ==
    \/ \E ok \in BOOLEAN : Firmware(ok)
    \/ ResetDone \/ StartOfFrame \/ Settled
    \/ User

Spec == Init /\ [][Next]_vars

-----------------------------------------------------------------------------

\* The device is only spoken to after its bus reset has ended, on whichever of
\* the two ways the firmware notices the end: BUSRST in USB_Task, or a
\* BUSEVENT in the handler, which must not be an old one.
SpeaksAfterReset ==
    usb_task_state \in {WAIT_SOF, GET_DEVICE_DESCRIPTOR_SIZE, ADDRESSING,
                        CONFIGURING, RUNNING} => ~busrst

\* Every table entry that is used has endpoint records: the given address
\* while it is configured, and once the device runs the address that kbdPoll
\* uses and address 1, to which main sends its two queries, whatever address
\* the device has.
NoNullEpinfo ==
    /\ usb_task_state = CONFIGURING => tmp_addr # 0 /\ ~Free(tmp_addr)
    /\ usb_task_state = RUNNING =>
           hid_addr # 0 /\ epinfo[hid_addr] = "hid_ep" /\ ~Free(1)

\* While the firmware believes in its device, it is there, answers at its
\* address and is configured; or a change is waiting to be handled.
RunningDevice ==
    usb_task_state = RUNNING =>
        \/ condet
        \/ /\ plugged \in {"keyboard", "mouse"}
           /\ devAddr = tmp_addr /\ tmp_addr = hid_addr
           /\ configured

\* When main starts its loop again, its flags and the LED agree with the state
\* and, once the device runs, main polls it as the class of device it is.
LoopFlags ==
    pc = "task" =>
        /\ runningdebugflag = (usb_task_state = RUNNING)
        /\ led9 = (usb_task_state = RUNNING)
        /\ errorflag = (usb_task_state = ERROR)
        /\ runningdebugflag => device = devclass[hid_addr]

=============================================================================
