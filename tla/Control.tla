------------------------------ MODULE Control ------------------------------
(***************************************************************************)
(* Control transfers (XferCtrlReq, XferCtrlData, XferCtrlND, and           *)
(* XferInTransfer of transfer.c) and the enumeration that USB_Task and the *)
(* probes of the HID drivers (HID.c) make of them: the device descriptor,  *)
(* the strings, the address, the configuration, the boot protocol.         *)
(*                                                                         *)
(* The bus loses packets on either way.  XferDispatchPkt launches a packet *)
(* without an answer again, up to USB_RETRY_LIMIT times (its deadline and  *)
(* its NAKs are in Dispatch); so the device may see a packet twice, and a  *)
(* transfer may fail of which the device has done its part.  A byte of a   *)
(* descriptor is the pair of the descriptor's name and its place in it.    *)
(***************************************************************************)
EXTENDS UsbLimits, Sequences

CONSTANTS
    MinPacket,          \* the smallest packet size, and what the first
                        \* request asks for             (8)
    Sizes,              \* packet sizes of devices      (8, 16, 32, 64)
    StringHead,         \* bytes read to learn the length of a string (2),
    ConfHead,           \* and of a configuration       (CONF_DESCR_LEN, 9)
    BigBuf,             \* size of bigbuf               (256)
    Devices,            \* what the user may plug in
    Garbage             \* what uninitialised lengths may be

Named == {"device", "string", "config"}

ASSUME SizeAssumption ==
    /\ MinPacket \in Nat \ {0} /\ StringHead \in Nat /\ ConfHead \in Nat
    /\ BigBuf \in Nat
    /\ Sizes \subseteq Nat /\ \A n \in Sizes : n >= MinPacket
    /\ Garbage \subseteq Nat

ASSUME DeviceAssumption ==
    Devices \subseteq
        [mps : Sizes, len : [Named -> Nat \ {0}],
         strings : SUBSET {"mfg", "product"},
         boot : {"keyboard", "mouse", "none"}]

VARIABLES
    phase,          \* the packet that XferDispatchPkt handles, or "receive"
    step,           \* the request under way, or the outcome
    wanted,         \* nbytes of the request
    tries,          \* retry_count
    data,           \* what XferInTransfer has put in the buffer of the request
    strings,        \* strings that buf, the device descriptor, mentions
    MaxPktSize,     \* of dev0ep
    hidPktSize,     \* of hid_ep[0]
    epinfo,         \* devtable[tmp_addr].epinfo
    devclass,       \* devtable[tmp_addr].devclass
    rcvtog, RCVDAVIRQ, RCVFIFO,     \* the chip: toggle it expects, packet received
    dev,            \* the device
    devAddr,        \* it answers to this address: 0, or 1 for tmp_addr
    stage,          \* of its control endpoint
    asked, limit,   \* the last request that it has seen, and its wLength
    sent, sndtog,   \* bytes it knows to be received; its toggle
    configured, bootProtocol

firmware == <<phase, step, wanted, tries, data, strings>>
table == <<MaxPktSize, hidPktSize, epinfo, devclass>>
receiver == <<rcvtog, RCVDAVIRQ, RCVFIFO>>
endpoint == <<stage, asked, limit, sent, sndtog>>
device == <<dev, devAddr, endpoint, configured, bootProtocol>>
ctrlVars == <<firmware, table, receiver, device>>

-----------------------------------------------------------------------------

\* What each request is about.  The configuration is read by the probes of the
\* mouse and of the keyboard, in this order.
What == [size |-> "device", device |-> "device",
         mfgSize |-> "string", mfg |-> "string",
         productSize |-> "string", product |-> "string",
         address |-> "address",
         mouseSize |-> "config", mouse |-> "config",
         mouseConf |-> "configuration", mouseProto |-> "protocol",
         kbdSize |-> "config", kbd |-> "config",
         kbdConf |-> "configuration", kbdProto |-> "protocol"]

Outcomes == {"RUNNING", "ERROR"}
BeforeAddress == {"size", "device", "mfgSize", "mfg", "productSize", "product",
                  "address"}

\* With a dataptr there is a data stage.
Reading == What[step] \in Named
Addr == IF step \in BeforeAddress THEN 0 ELSE 1

Least(m, n) == IF m <= n THEN m ELSE n
Bytes(what, m, n) == [i \in 1 .. n - m |-> <<what, m + i>>]

\* All that the device has to say in answer to its last request.
Answer == Least(limit, dev.len[asked])

CtrlTypes ==
    /\ phase \in {"setup", "in", "receive", "status", "end"}
    /\ step \in DOMAIN What \cup Outcomes
    /\ wanted \in Nat /\ tries \in 0 .. USB_RETRY_LIMIT - 1
    /\ strings \subseteq {"mfg", "product"}
    /\ MaxPktSize \in {MinPacket} \cup Sizes
    /\ hidPktSize \in {0} \cup Sizes
    /\ epinfo \in {"dev0ep", "hid_ep"}
    /\ devclass \in {"none", "keyboard", "mouse"}
    /\ rcvtog \in {0, 1} /\ RCVDAVIRQ \in BOOLEAN
    /\ dev \in Devices /\ devAddr \in {0, 1}
    /\ stage \in {"idle", "data", "status"}
    /\ asked \in Named /\ limit \in Nat /\ sent \in Nat /\ sndtog \in {0, 1}
    /\ configured \in BOOLEAN /\ bootProtocol \in BOOLEAN

-----------------------------------------------------------------------------

\* nbytes of the requests, as the firmware knows it from the answer before.
Nbytes(s) ==
    CASE s = "size" -> MinPacket
      [] s = "device" -> dev.len.device
      [] s \in {"mfgSize", "productSize"} -> StringHead
      [] s \in {"mfg", "product"} -> dev.len.string
      [] s \in {"mouseSize", "kbdSize"} -> ConfHead
      [] s \in {"mouse", "kbd"} -> Least(dev.len.config, BigBuf)
      [] OTHER -> 0

\* The request after a request that succeeded (ok), or failed.  When the whole
\* device descriptor could not be read, buf is not initialised where it
\* mentions the strings.
AfterDevice(known) ==
    IF "mfg" \in known THEN "mfgSize"
    ELSE IF "product" \in known THEN "productSize" ELSE "address"

\* A slip: the result of Set Configuration is not looked at.
BugAfterProbe(s, ok) ==
    CASE s \in {"mouseSize", "mouseProto"} /\ ~ok -> "kbdSize"
      [] s = "mouseSize" -> "mouse"
      [] s = "mouse" -> IF ok /\ dev.boot = "mouse" THEN "mouseConf" ELSE "kbdSize"
      [] s = "mouseConf" -> "mouseProto"
      [] s = "kbdSize" -> IF ok THEN "kbd" ELSE "ERROR"
      [] s = "kbd" -> IF ok /\ dev.boot = "keyboard" THEN "kbdConf" ELSE "ERROR"
      [] s = "kbdConf" -> "kbdProto"
      [] OTHER -> IF ok THEN "RUNNING" ELSE "ERROR"

AfterProbe(s, ok) ==
    CASE s = "mouseSize" -> IF ok THEN "mouse" ELSE "kbdSize"
      [] s = "mouse" -> IF ok /\ dev.boot = "mouse" THEN "mouseConf" ELSE "kbdSize"
      [] s = "mouseConf" -> IF ok THEN "mouseProto" ELSE "kbdSize"
      [] s = "mouseProto" -> IF ok THEN "RUNNING" ELSE "kbdSize"
      [] s = "kbdSize" -> IF ok THEN "kbd" ELSE "ERROR"
      [] s = "kbd" -> IF ok /\ dev.boot = "keyboard" THEN "kbdConf" ELSE "ERROR"
      [] s = "kbdConf" -> IF ok THEN "kbdProto" ELSE "ERROR"
      [] s = "kbdProto" -> IF ok THEN "RUNNING" ELSE "ERROR"

After(ok) ==
    CASE step = "size" -> IF ok THEN "device" ELSE "ERROR"
      [] step = "device" -> AfterDevice(strings')
      [] step = "mfgSize" -> "mfg"
      [] step = "mfg" -> AfterDevice(strings \ {"mfg"})
      [] step = "productSize" -> "product"
      [] step = "product" -> "address"
      [] step = "address" -> IF ok THEN "mouseSize" ELSE "ERROR"
      [] OTHER -> AfterProbe(step, ok)

\* The probe recognises its interface in the configuration.
Recognised(ok) ==
    ok /\ step \in {"mouse", "kbd"} /\ After(ok) \in {"mouseConf", "kbdConf"}

PktSize == IF Addr = 0 \/ epinfo = "dev0ep" THEN MaxPktSize ELSE hidPktSize

\* The return of XferCtrlReq and what is done until the next one.
Finish(ok) ==
    /\ strings' \in IF step # "device" THEN {strings}
                    ELSE IF ok THEN {dev.strings}
                    ELSE SUBSET {"mfg", "product"}
    /\ step' = After(ok)
    /\ phase' = IF step' \in Outcomes THEN "end" ELSE "setup"
    /\ wanted' \in IF step \in {"mfgSize", "productSize"} /\ ~ok
                   THEN Garbage ELSE {Nbytes(step')}
    /\ tries' = 0 /\ data' = <<>>
    /\ MaxPktSize' = IF step = "size" /\ ok THEN dev.mps ELSE MaxPktSize
    /\ IF Recognised(ok)
       THEN epinfo' = "hid_ep" /\ devclass' = dev.boot /\ hidPktSize' = PktSize
       ELSE UNCHANGED <<epinfo, devclass, hidPktSize>>

-----------------------------------------------------------------------------
\* One attempt of XferDispatchPkt.  What becomes of it on the bus: it never gets
\* to the device; the device takes it, but the device's answer to it (or the
\* chip's acknowledgement of the device's data) is lost, or arrives garbled; or
\* all is well.
Fate == {"lost", "unheard", "garbled", "heard"}

\* Slips that the definitions below could contain: no first toggle; a full
\* packet ends a transfer.
BugFirstToggle == rcvtog' = rcvtog

BugComplete(bytes) == Len(RCVFIFO) <= PktSize \/ Len(bytes) >= wanted

\* hrTIMEOUT: launched again, as often as the limit allows.
NoAnswer ==
    IF tries + 1 < USB_RETRY_LIMIT
    THEN /\ tries' = tries + 1
         /\ UNCHANGED <<phase, step, wanted, data, strings, table>>
    ELSE Finish(FALSE)

\* The device always takes a SETUP packet, and forgets the request before.
TakeSetup ==
    /\ IF Reading
       THEN stage' = "data" /\ asked' = What[step] /\ limit' = wanted
       ELSE stage' = "status" /\ UNCHANGED <<asked, limit>>
    /\ sent' = 0 /\ sndtog' = 1

\* Data begins with toggle 1.
FirstToggle == rcvtog' = IF Reading THEN 1 ELSE rcvtog

\* XferCtrlReq, and the start of XferCtrlData and XferInTransfer.
Setup(fate) ==
    /\ phase = "setup"
    /\ LET taken == fate # "lost" /\ devAddr = Addr
       IN  /\ IF taken THEN TakeSetup ELSE UNCHANGED endpoint
           /\ \/ /\ taken /\ fate = "heard"
                 /\ phase' = IF Reading THEN "in" ELSE "status"
                 /\ FirstToggle
                 /\ tries' = 0
                 /\ UNCHANGED <<step, wanted, data, strings, table>>
              \/ /\ taken /\ fate = "garbled"
                 /\ Finish(FALSE) /\ UNCHANGED rcvtog
              \/ /\ ~(taken /\ fate \in {"heard", "garbled"})
                 /\ NoAnswer /\ UNCHANGED rcvtog
    /\ UNCHANGED <<RCVDAVIRQ, RCVFIFO, dev, devAddr, configured, bootProtocol>>

\* The device sends what it does not know to be received.
Packet == Bytes(asked, sent, Least(sent + dev.mps, Answer))

\* It hears the acknowledgement of its packet.
Acknowledged == sent' = sent + Len(Packet) /\ sndtog' = 1 - sndtog

\* One IN of XferInTransfer.  A packet with the wrong toggle is acknowledged
\* and dropped: hrTOGERR, which is not tried again.
In(fate) ==
    /\ phase = "in"
    /\ LET arrives == /\ fate \in {"unheard", "heard"}
                      /\ devAddr = Addr /\ stage = "data"
       IN  /\ IF arrives /\ fate = "heard"
              THEN Acknowledged /\ UNCHANGED <<stage, asked, limit>>
              ELSE UNCHANGED endpoint
           /\ \/ /\ arrives /\ rcvtog = sndtog
                 /\ RCVFIFO' = Packet
                 /\ RCVDAVIRQ' \in {TRUE, Len(Packet) > 0}
                 /\ rcvtog' = 1 - rcvtog
                 /\ phase' = "receive"
                 /\ UNCHANGED <<step, wanted, tries, data, strings, table>>
              \/ /\ arrives /\ rcvtog # sndtog
                 /\ Finish(FALSE) /\ UNCHANGED receiver
              \/ /\ ~arrives /\ fate = "garbled"
                 /\ Finish(FALSE) /\ UNCHANGED receiver
              \/ /\ ~arrives /\ fate # "garbled"
                 /\ NoAnswer /\ UNCHANGED receiver
    /\ UNCHANGED <<dev, devAddr, configured, bootProtocol>>

\* A short packet or the number of bytes ends the transfer.
Complete(bytes) == Len(RCVFIFO) < PktSize \/ Len(bytes) >= wanted

\* The rest of XferInTransfer; without a packet it returns 0xf0.
ReceivePacket ==
    /\ phase = "receive"
    /\ IF RCVDAVIRQ
       THEN /\ data' = data \o RCVFIFO /\ RCVDAVIRQ' = FALSE
            /\ phase' = IF Complete(data') THEN "status" ELSE "in"
            /\ tries' = 0
            /\ UNCHANGED <<step, wanted, strings, table>>
       ELSE Finish(FALSE) /\ UNCHANGED RCVDAVIRQ
    /\ UNCHANGED <<rcvtog, RCVFIFO, device>>

\* The device carries a request out when it says so in the status stage, but
\* keeps its address until it knows that this was heard.
CarryOut(fate) ==
    /\ configured' = (configured \/ What[step] = "configuration")
    /\ bootProtocol' = (bootProtocol \/ What[step] = "protocol")
    /\ devAddr' = IF What[step] = "address" /\ fate = "heard" THEN 1 ELSE devAddr
    /\ stage' = IF fate = "heard" THEN "idle" ELSE stage

\* The status stage of a request without data: an IN that the device answers
\* with an empty packet, which the chip takes even if its acknowledgement is
\* lost.
StatusIn(fate) ==
    /\ phase = "status" /\ ~Reading
    /\ LET answers == fate # "lost" /\ devAddr = Addr /\ stage = "status"
       IN  /\ IF answers THEN CarryOut(fate)
              ELSE UNCHANGED <<configured, bootProtocol, devAddr, stage>>
           /\ \/ answers /\ Finish(fate # "garbled")
              \/ ~answers /\ NoAnswer
    /\ UNCHANGED <<receiver, dev, asked, limit, sent, sndtog>>

\* The status stage of a read: an empty OUT.  The device that has already had
\* one acknowledges the next one too.
StatusOut(fate) ==
    /\ phase = "status" /\ Reading
    /\ LET taken == fate # "lost" /\ devAddr = Addr
       IN  /\ stage' = IF taken THEN "idle" ELSE stage
           /\ \/ taken /\ fate \in {"heard", "garbled"} /\ Finish(fate = "heard")
              \/ ~(taken /\ fate \in {"heard", "garbled"}) /\ NoAnswer
    /\ UNCHANGED <<receiver, dev, devAddr, asked, limit, sent, sndtog, configured,
                   bootProtocol>>

Attempt(fate) ==
    Setup(fate) \/ In(fate) \/ StatusIn(fate) \/ StatusOut(fate)

\* Another device after the one before: UsbHost has cleared the table and reset
\* the bus.  The chip and hid_ep are as they were left.
Attach(d) ==
    /\ phase = "end"
    /\ phase' = "setup" /\ step' = "size" /\ wanted' = MinPacket
    /\ tries' = 0 /\ data' = <<>> /\ strings' = {}
    /\ MaxPktSize' = MinPacket /\ epinfo' = "dev0ep" /\ devclass' = "none"
    /\ dev' = d /\ devAddr' = 0
    /\ stage' = "idle" /\ sent' = 0 /\ sndtog' = 0
    /\ configured' = FALSE /\ bootProtocol' = FALSE
    /\ UNCHANGED <<hidPktSize, receiver, asked, limit>>

CtrlInit ==
    /\ phase = "setup" /\ step = "size" /\ wanted = MinPacket
    /\ tries = 0 /\ data = <<>> /\ strings = {}
    /\ MaxPktSize = MinPacket /\ hidPktSize = 0
    /\ epinfo = "dev0ep" /\ devclass = "none"
    /\ rcvtog = 0 /\ RCVDAVIRQ = FALSE /\ RCVFIFO = <<>>
    /\ dev \in Devices /\ devAddr = 0
    /\ stage = "idle" /\ asked = "device" /\ limit = 0
    /\ sent = 0 /\ sndtog = 0
    /\ configured = FALSE /\ bootProtocol = FALSE

CtrlNext ==
    \/ \E fate \in Fate : Attempt(fate)
    \/ ReceivePacket
    \/ \E d \in Devices : Attach(d)

CtrlSpec == CtrlInit /\ [][CtrlNext]_ctrlVars

-----------------------------------------------------------------------------

\* Whatever is lost, repeated or given up, what a read puts into its buffer is
\* the beginning of the descriptor that was asked for, in this request and not
\* in one before, never more than nbytes; and a read that goes on to its status
\* stage has all of it.
ReadsArePrefixes ==
    /\ data = Bytes(What[step], 0, Len(data))
    /\ Len(data) <= wanted
    /\ phase = "status" /\ Reading =>
           Len(data) = Least(wanted, dev.len[What[step]])

\* When the firmware believes that the device runs, the device has the address
\* that the firmware uses, a configuration and the boot protocol, and the table
\* describes it.
RunningIsReady ==
    step = "RUNNING" =>
        /\ devAddr = 1 /\ configured /\ bootProtocol
        /\ epinfo = "hid_ep" /\ devclass = dev.boot /\ hidPktSize = dev.mps

=============================================================================
