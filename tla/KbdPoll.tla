------------------------------ MODULE KbdPoll -------------------------------
(***************************************************************************)
(* A keyboard report on its way to the game: the keyboard, the transaction *)
(* on the bus, XferInTransfer on endpoint 1 (transfer.c), kbdPoll (HID.c)  *)
(* and the decoding in main (main.c).  Packets carry an alternating bit,   *)
(* the data toggle: a packet with the wrong one is a repetition, sent      *)
(* because the acknowledgement of the first was lost.                      *)
(*                                                                         *)
(* A report is the list of the keys that are down; the empty slots after   *)
(* them are left out.  The state machine that finds the keyboard is in     *)
(* UsbHost, the limits and deadline of a call in Dispatch.                 *)
(***************************************************************************)
EXTENDS Integers, Sequences, FiniteSetsExt

CONSTANT Reports

ASSUME ReportAssumption ==
    /\ Reports \subseteq Seq(Nat \ {0})
    /\ <<>> \in Reports

KeyW == 26  KeyS == 22  KeySpace == 44  KeyA == 4  KeyD == 7

VARIABLES
    pc,
    rcvToggle,                  \* hid_ep[1].rcvToggle
    kbdbuf,                     \* the report, a variable of main
    keycode_0, keycode_1,       \* PIOs that the game reads
    chipToggle,                 \* RCVTOGRD of the chip
    rcvdav, fifo,               \* bit RCVDAV of HIRQ; the packet received
    plugged,                    \* the keyboard that was enumerated is there
    keys,                       \* the keys that are down
    report, full,               \* its last report; it has not been acknowledged
    sndToggle                   \* toggle of its next packet

codes == <<keycode_0, keycode_1>>
chip == <<chipToggle, rcvdav, fifo>>
keyboard == <<plugged, keys, report, full, sndToggle>>
vars == <<pc, rcvToggle, kbdbuf, codes, chip, keyboard>>

TypeOK ==
    /\ pc \in {"idle", "in", "receive", "decode1", "decode0"}
    /\ rcvToggle \in {0, 1} /\ chipToggle \in {0, 1} /\ sndToggle \in {0, 1}
    /\ kbdbuf \in Reports /\ fifo \in Reports
    /\ keys \in Reports /\ report \in Reports
    /\ keycode_0 \in {0, KeyA, KeyD}
    /\ keycode_1 \in {0, KeyW, KeyS, KeySpace}
    /\ rcvdav \in BOOLEAN /\ plugged \in BOOLEAN /\ full \in BOOLEAN

-----------------------------------------------------------------------------

\* Slips that the definitions of the same names below could contain.
BugReceive ==                   \* the toggle of the chip is not saved
    /\ pc = "receive"
    /\ kbdbuf' = fifo /\ rcvdav' = FALSE /\ pc' = "decode1"
    /\ UNCHANGED <<rcvToggle, codes, chipToggle, fifo, keyboard>>

BugHIDInit == UNCHANGED rcvToggle   \* the toggle of before stays

-----------------------------------------------------------------------------

HIDInit == rcvToggle' = 0

\* The call sets the toggle that it expects.
Poll ==
    /\ pc = "idle"
    /\ chipToggle' = rcvToggle
    /\ pc' = "in"
    /\ UNCHANGED <<rcvToggle, kbdbuf, codes, rcvdav, fifo, keyboard>>

\* No data, no answer or a damaged packet: tried again, or the call is over.
Unsuccessful ==
    /\ pc = "in"
    /\ pc' \in {"in", "idle"}
    /\ UNCHANGED <<rcvToggle, kbdbuf, codes, chip, keyboard>>

\* The keyboard hears the acknowledgement of its packet, or not.
Acknowledge(heard) ==
    /\ full' = (full /\ ~heard)
    /\ sndToggle' = IF heard THEN 1 - sndToggle ELSE sndToggle
    /\ UNCHANGED <<plugged, keys, report>>

\* The packet that is expected.
Data(heard) ==
    /\ pc = "in" /\ plugged /\ full /\ sndToggle = chipToggle
    /\ fifo' = report /\ rcvdav' = TRUE
    /\ chipToggle' = 1 - chipToggle
    /\ Acknowledge(heard)
    /\ pc' = "receive"
    /\ UNCHANGED <<rcvToggle, kbdbuf, codes>>

\* A repetition is acknowledged and dropped by the chip: result hrTOGERR.
Repetition(heard) ==
    /\ pc = "in" /\ plugged /\ full /\ sndToggle # chipToggle
    /\ Acknowledge(heard)
    /\ pc' = "idle"
    /\ UNCHANGED <<rcvToggle, kbdbuf, codes, chip>>

\* The rest of XferInTransfer: a report is one packet.
Receive ==
    /\ pc = "receive"
    /\ IF rcvdav
       THEN /\ kbdbuf' = fifo /\ rcvdav' = FALSE
            /\ rcvToggle' = chipToggle
            /\ pc' = "decode1"
       ELSE /\ pc' = "idle"     \* 0xf0
            /\ UNCHANGED <<rcvToggle, kbdbuf, rcvdav>>
    /\ UNCHANGED <<codes, chipToggle, fifo, keyboard>>

\* The last slot with one of these keys counts.
LastOf(K) ==
    LET slots == {i \in DOMAIN kbdbuf : kbdbuf[i] \in K}
    IN  IF slots = {} THEN 0 ELSE kbdbuf[Max(slots)]

SetKeycode1 ==
    /\ pc = "decode1"
    /\ keycode_1' = LastOf({KeyW, KeyS, KeySpace})
    /\ pc' = "decode0"
    /\ UNCHANGED <<rcvToggle, kbdbuf, keycode_0, chip, keyboard>>

SetKeycode0 ==
    /\ pc = "decode0"
    /\ keycode_0' = LastOf({KeyA, KeyD})
    /\ pc' = "idle"
    /\ UNCHANGED <<rcvToggle, kbdbuf, keycode_1, chip, keyboard>>

-----------------------------------------------------------------------------

\* The user, and the keyboard: it has one packet for its endpoint.
Press ==
    /\ keys' \in Reports \ {keys}
    /\ UNCHANGED <<pc, rcvToggle, kbdbuf, codes, chip, plugged, report, full,
                   sndToggle>>

Make ==
    /\ plugged /\ ~full /\ report # keys
    /\ report' = keys /\ full' = TRUE
    /\ UNCHANGED <<pc, rcvToggle, kbdbuf, codes, chip, plugged, keys, sndToggle>>

Unplug ==
    /\ plugged
    /\ plugged' = FALSE /\ full' = FALSE
    /\ UNCHANGED <<pc, rcvToggle, kbdbuf, codes, chip, keys, report, sndToggle>>

\* Enumeration finds a keyboard and calls HID_init; the new configuration
\* resets the keyboard's toggle.  Its first report says what is down.
Enumerate ==
    /\ pc = "idle" /\ ~plugged
    /\ HIDInit
    /\ plugged' = TRUE /\ sndToggle' = 0
    /\ report' = keys /\ full' = TRUE
    /\ UNCHANGED <<pc, kbdbuf, codes, chip, keys>>

Init ==
    /\ pc = "idle"
    /\ rcvToggle = 0 /\ sndToggle = 0 /\ chipToggle = 0
    /\ kbdbuf = <<>> /\ fifo = <<>> /\ rcvdav = FALSE
    /\ keycode_0 = 0 /\ keycode_1 = 0
    /\ plugged = TRUE /\ keys = <<>> /\ report = <<>> /\ full = FALSE

Transaction(heard) == Data(heard) \/ Repetition(heard)

Firmware == Poll \/ Unsuccessful \/ Receive \/ SetKeycode1 \/ SetKeycode0

Next ==
    \/ Firmware \/ \E heard \in BOOLEAN : Transaction(heard)
    \/ Press \/ Make \/ Unplug \/ Enumerate

Spec == Init /\ [][Next]_vars

\* Nothing stops the firmware; the keyboard makes its reports; not every packet
\* and acknowledgement is lost.
FairSpec ==
    /\ Spec
    /\ WF_vars(Firmware) /\ WF_vars(Make)
    /\ SF_vars(Transaction(TRUE))

-----------------------------------------------------------------------------

\* The side of the firmware that has the toggle it expects next.
expected == IF rcvdav THEN chipToggle ELSE rcvToggle

Channel == INSTANCE KeyChannel WITH
    pending <- full /\ sndToggle = expected,
    got <- IF rcvdav THEN fifo ELSE kbdbuf

\* Lost packets and lost acknowledgements neither lose nor repeat a report.
ReportsArriveOnce == Channel!Spec

\* Keys that are held (or let go) for good get to the game.
KeysCatchUp ==
    \A held \in Reports :
        <>[](plugged /\ keys = held) =>
        <>[](/\ kbdbuf = held
             /\ keycode_0 = LastOf({KeyA, KeyD})
             /\ keycode_1 = LastOf({KeyW, KeyS, KeySpace}))
=============================================================================
