-------------------------- MODULE TransferProofs ---------------------------
(***************************************************************************)
(* Facts about transfers on the bus.  The keyboard channel of KbdPoll      *)
(* implements KeyChannel: reports arrive once and in order, whatever is    *)
(* lost on the bus; the registers that the game reads hold nothing but     *)
(* codes of its keys.  Packets (Dispatch) are answered in time and by      *)
(* their own answer, a device that runs is set up, and what is read from   *)
(* it is what was asked for (Control).                                     *)
(***************************************************************************)
EXTENDS KbdPoll, Dispatch, Control, TLAPS, SequenceTheorems,
        WellFoundedInduction

\* The typing that the argument needs (all of TypeOK but the keycodes).
Types ==
    /\ pc \in {"idle", "in", "receive", "decode1", "decode0"}
    /\ rcvToggle \in {0, 1} /\ chipToggle \in {0, 1} /\ sndToggle \in {0, 1}
    /\ kbdbuf \in Reports /\ fifo \in Reports
    /\ keys \in Reports /\ report \in Reports
    /\ rcvdav \in BOOLEAN /\ plugged \in BOOLEAN /\ full \in BOOLEAN

\* The chip holds a packet exactly while the firmware is about to fetch it, and
\* then it is one toggle ahead of the firmware's copy.
ChipInv ==
    /\ rcvdav <=> pc = "receive"
    /\ rcvdav => chipToggle = 1 - rcvToggle
    /\ pc = "in" => chipToggle = rcvToggle

\* A keyboard without a packet agrees with the firmware about the next toggle.
ToggleInv ==
    /\ plugged /\ ~full => sndToggle = expected
    /\ ~plugged => ~full

IInv == Types /\ ChipInv /\ ToggleInv

LEMMA InitInv == Init => IInv
BY ReportAssumption DEF Init, IInv, Types, ChipInv, ToggleInv, expected

LEMMA StepInv == IInv /\ [Next]_vars => IInv'
<1> SUFFICES ASSUME IInv, [Next]_vars PROVE IInv'
    OBVIOUS
<1> USE DEF IInv, Types, ChipInv, ToggleInv, expected
<1>1. CASE Poll
    BY <1>1 DEF Poll, codes, keyboard
<1>2. CASE Unsuccessful
    BY <1>2 DEF Unsuccessful, codes, chip, keyboard
<1>3. ASSUME NEW heard \in BOOLEAN, Data(heard) PROVE IInv'
  <2>1. CASE heard
      BY <1>3, <2>1 DEF Data, Acknowledge, codes
  <2>2. CASE ~heard
    <3>1. full' = TRUE /\ sndToggle' = sndToggle
        BY <1>3, <2>2 DEF Data, Acknowledge
    <3> QED BY <1>3, <3>1 DEF Data, Acknowledge, codes
  <2> QED BY <2>1, <2>2
<1>4. ASSUME NEW heard \in BOOLEAN, Repetition(heard) PROVE IInv'
  <2>1. CASE heard
      BY <1>4, <2>1 DEF Repetition, Acknowledge, codes, chip
  <2>2. CASE ~heard
      BY <1>4, <2>2 DEF Repetition, Acknowledge, codes, chip
  <2> QED BY <2>1, <2>2
<1>5. CASE Receive
    BY <1>5 DEF Receive, codes, keyboard
<1>6. CASE SetKeycode1
    BY <1>6 DEF SetKeycode1, chip, keyboard
<1>7. CASE SetKeycode0
    BY <1>7 DEF SetKeycode0, chip, keyboard
<1>8. CASE Press
    BY <1>8 DEF Press, codes, chip
<1>9. CASE Make
    BY <1>9 DEF Make, codes, chip
<1>10. CASE Unplug
    BY <1>10 DEF Unplug, codes, chip
<1>11. CASE Enumerate
    BY <1>11 DEF Enumerate, HIDInit, codes, chip
<1>12. CASE UNCHANGED vars
    BY <1>12 DEF vars, codes, chip, keyboard
<1> QED
    BY <1>1, <1>2, <1>3, <1>4, <1>5, <1>6, <1>7, <1>8, <1>9, <1>10, <1>11, <1>12
    DEF Next, Firmware, Transaction

LEMMA InitChannel == Init => Channel!Init
BY ReportAssumption DEF Init, Channel!Init

LEMMA StepChannel ==
    IInv /\ [Next]_vars =>
    [Channel!Make \/ Channel!Deliver \/ Channel!Drop]_(Channel!vars)
<1> DEFINE pending == full /\ sndToggle = expected
           got == IF rcvdav THEN fifo ELSE kbdbuf
           Same == report' = report /\ pending' = pending /\ got' = got
<1> SUFFICES ASSUME IInv, [Next]_vars
             PROVE  \/ Channel!Make \/ Channel!Deliver \/ Channel!Drop
                    \/ Same
    BY DEF Channel!vars
<1> USE DEF IInv, Types, ChipInv, ToggleInv, expected
<1>1. CASE Poll
    BY <1>1 DEF Poll, codes, keyboard
<1>2. CASE Unsuccessful
    BY <1>2 DEF Unsuccessful, codes, chip, keyboard
<1>3. ASSUME NEW heard \in BOOLEAN, Data(heard) PROVE Channel!Deliver
  <2>1. pending /\ got' = report /\ report' = report
      BY <1>3 DEF Data, Acknowledge, codes
  <2>2. CASE heard
      BY <1>3, <2>1, <2>2 DEF Data, Acknowledge, Channel!Deliver
  <2>3. CASE ~heard
      BY <1>3, <2>1, <2>3 DEF Data, Acknowledge, Channel!Deliver
  <2> QED BY <2>2, <2>3
<1>4. ASSUME NEW heard \in BOOLEAN, Repetition(heard) PROVE Same
  <2>1. CASE heard
      BY <1>4, <2>1 DEF Repetition, Acknowledge, codes, chip
  <2>2. CASE ~heard
      BY <1>4, <2>2 DEF Repetition, Acknowledge, codes, chip
  <2> QED BY <2>1, <2>2
<1>5. CASE Receive
    BY <1>5 DEF Receive, codes, keyboard
<1>6. CASE SetKeycode1
    BY <1>6 DEF SetKeycode1, chip, keyboard
<1>7. CASE SetKeycode0
    BY <1>7 DEF SetKeycode0, chip, keyboard
<1>8. CASE Press
    BY <1>8 DEF Press, codes, chip
<1>9. CASE Make
    BY <1>9 DEF Make, codes, chip, Channel!Make
<1>10. CASE Unplug
    BY <1>10 DEF Unplug, codes, chip, Channel!Drop
<1>11. CASE Enumerate
    BY <1>11 DEF Enumerate, HIDInit, codes, chip, Channel!Make
<1>12. CASE UNCHANGED vars
    BY <1>12 DEF vars, codes, chip, keyboard
<1> QED
    BY <1>1, <1>2, <1>3, <1>4, <1>5, <1>6, <1>7, <1>8, <1>9, <1>10, <1>11, <1>12
    DEF Next, Firmware, Transaction

(***************************************************************************)
(* Every report of the keyboard gets to main once, in order and unchanged, *)
(* however many packets and acknowledgements are lost (XferInTransfer and  *)
(* HID_init).                                                              *)
(***************************************************************************)
THEOREM ReportsImplemented == Spec => ReportsArriveOnce
<1>1. Spec => []IInv
    BY InitInv, StepInv, PTL DEF Spec
<1> QED
    BY <1>1, InitChannel, StepChannel, PTL
    DEF Spec, ReportsArriveOnce, Channel!Spec

-----------------------------------------------------------------------------
\* The key registers: the search of main ends at a slot of the report.

LEMMA LastSlot ==
    ASSUME NEW n \in Nat, NEW S, S \subseteq 1 .. n, S # {}
    PROVE  Max(S) \in S
<1> DEFINE T == {n - i : i \in S}
           less == OpToRel(<, Nat)
<1>1. T \subseteq Nat /\ T # {}
  <2>1. ASSUME NEW i \in S PROVE n - i \in Nat
    <3>1. i \in 1 .. n
      OBVIOUS
    <3> QED
      BY <3>1, SMT
  <2>2. PICK i \in S : TRUE
    OBVIOUS
  <2>3. n - i \in T
    BY <2>2
  <2> QED
    BY <2>1, <2>3
<1>2. PICK x \in T : \A y \in T : ~(<<y, x>> \in less)
  <2> HIDE DEF T, less
  <2>1. IsWellFoundedOn(less, Nat)
    BY NatLessThanWellFounded DEF less
  <2> QED
    BY <1>1, <2>1, WFMin
<1>3. ASSUME NEW y \in T PROVE x <= y
  <2>1. x \in Nat /\ y \in Nat
    BY <1>1, <1>2
  <2>2. ~(y < x)
    <3> HIDE DEF T
    <3> QED
      BY <1>2, <2>1 DEF OpToRel
  <2> QED
    BY <2>1, <2>2, SMT
<1>4. PICK i \in S : x = n - i
  OBVIOUS
<1>5. \A j \in S : i >= j
  BY <1>3, <1>4
<1> QED
  BY <1>4, <1>5 DEF Max

LEMMA LastOfKeys ==
    ASSUME NEW K, kbdbuf \in Reports
    PROVE  LastOf(K) \in K \cup {0}
<1> DEFINE slots == {i \in DOMAIN kbdbuf : kbdbuf[i] \in K}
<1>1. kbdbuf \in Seq(Nat \ {0})
  BY ReportAssumption
<1>2. slots \subseteq 1 .. Len(kbdbuf) /\ Len(kbdbuf) \in Nat
  BY <1>1
<1>3. slots # {} => Max(slots) \in slots
  <2> HIDE DEF slots
  <2> QED
    BY <1>2, LastSlot
<1> QED
  BY <1>3, Zenon DEF LastOf

KeycodesOK ==
    /\ keycode_0 \in {0, KeyA, KeyD}
    /\ keycode_1 \in {0, KeyW, KeyS, KeySpace}

LEMMA StepKeycodes == ASSUME Types, KeycodesOK, [Next]_vars PROVE KeycodesOK'
<1>1. CASE SetKeycode1
  <2>1. LastOf({KeyW, KeyS, KeySpace}) \in {0, KeyW, KeyS, KeySpace}
    BY LastOfKeys DEF Types
  <2> QED
    BY <1>1, <2>1 DEF SetKeycode1, KeycodesOK
<1>2. CASE SetKeycode0
  <2>1. LastOf({KeyA, KeyD}) \in {0, KeyA, KeyD}
    BY LastOfKeys DEF Types
  <2> QED
    BY <1>2, <2>1 DEF SetKeycode0, KeycodesOK
<1>3. CASE UNCHANGED codes
  BY <1>3 DEF codes, KeycodesOK
<1> QED
  BY <1>1, <1>2, <1>3
  DEF Next, Firmware, Transaction, Poll, Unsuccessful, Data, Repetition, Receive, Press,
      Make, Unplug, Enumerate, vars

\* The registers that the game reads hold codes of keys that it knows, or 0, for
\* every set of reports.
THEOREM PollTypes == Spec => []TypeOK
<1>1. Init => KeycodesOK
  BY DEF Init, KeycodesOK
<1>2. IInv /\ KeycodesOK /\ [Next]_vars => KeycodesOK'
  BY StepKeycodes DEF IInv
<1>3. IInv /\ KeycodesOK => TypeOK
  BY Zenon DEF IInv, Types, KeycodesOK, TypeOK
<1> QED
  BY InitInv, StepInv, <1>1, <1>2, <1>3, PTL DEF Spec

-----------------------------------------------------------------------------
(***************************************************************************)
(* The packets that transfers are made of: Dispatch, for all limits.       *)
(***************************************************************************)

\* All attempts that the limits allow fit into the time of the call.
AllFit ==
    (USB_NAK_LIMIT + USB_RETRY_LIMIT) * AttemptTime < USB_XFER_TIMEOUT

\* The longest time that k attempts take.
Span(k) == k * AttemptTime

LEMMA Spans ==
    ASSUME NEW k \in Nat
    PROVE  /\ Span(k) \in Nat
           /\ Span(k + 1) = Span(k) + AttemptTime
<1>1. AttemptTime \in Nat
  BY LimitAssumption, RetryAssumption
<1> QED
  BY <1>1 DEF Span

LEMMA SpanGrows ==
    ASSUME NEW k \in Nat, NEW m \in Nat, k <= m
    PROVE  Span(k) <= Span(m)
<1>1. AttemptTime \in Nat
  BY LimitAssumption, RetryAssumption
<1>2. PICK d \in Nat : m = k + d
  <2>1. m - k \in Nat /\ m = k + (m - k)
    OBVIOUS
  <2> QED
    BY <2>1
<1>3. Span(m) = Span(k) + d * AttemptTime /\ d * AttemptTime \in Nat /\ Span(k) \in Nat
  BY <1>1, <1>2 DEF Span
<1> QED
  BY <1>2, <1>3, Spans

attempts == nak_count + retry_count

\* A call that goes on has not used up either limit.
LimitInv == at # "idle" => nak_count < USB_NAK_LIMIT /\ retry_count < USB_RETRY_LIMIT

\* What has passed is no more than the attempts so far, and before the packet
\* is on the bus one less.
TimeInv ==
    ~hung /\ at # "idle" =>
        elapsed <= age + Span(IF at = "launch" THEN attempts ELSE attempts + 1)

\* With no call late, the chip is at rest between two attempts, and its done
\* bit is of the packet launched last.
AnswerInv ==
    ~hung =>
        /\ rcode # "ff" /\ own
        /\ at \in {"idle", "launch"} => ~busy /\ ~hxfrdn
        /\ hxfrdn => fresh /\ ~busy
        /\ at = "result" => fresh /\ ~busy /\ ~hxfrdn

PacketInv == PacketTypes /\ LimitInv /\ TimeInv /\ AnswerInv

\* The deadline is not reached while the firmware waits.
LEMMA InTime ==
    ASSUME AllFit, PacketInv, ~hung, at # "idle" PROVE elapsed < USB_XFER_TIMEOUT
<1>1. attempts \in Nat /\ attempts + 2 <= USB_NAK_LIMIT + USB_RETRY_LIMIT
  BY LimitAssumption, RetryAssumption DEF PacketInv, LimitInv, attempts, PacketTypes
<1>2. /\ elapsed \in Nat /\ age \in Nat /\ age <= AttemptTime
      /\ AttemptTime \in Nat /\ USB_XFER_TIMEOUT \in Nat
      /\ USB_NAK_LIMIT + USB_RETRY_LIMIT \in Nat
  BY LimitAssumption, RetryAssumption DEF PacketInv, PacketTypes
<1>3. elapsed <= age + Span(attempts + 1)
  <2>1. Span(attempts) <= Span(attempts + 1)
    BY <1>1, SpanGrows
  <2>2. Span(attempts) \in Nat /\ Span(attempts + 1) \in Nat
    BY <1>1, Spans
  <2> QED
    BY <1>2, <2>1, <2>2 DEF PacketInv, TimeInv
<1>4. Span(attempts + 1) + AttemptTime = Span(attempts + 2)
  BY <1>1, Spans
<1>5. Span(attempts + 2) <= Span(USB_NAK_LIMIT + USB_RETRY_LIMIT)
  BY <1>1, <1>2, SpanGrows
<1>6. Span(USB_NAK_LIMIT + USB_RETRY_LIMIT) < USB_XFER_TIMEOUT
  BY DEF Span, AllFit
<1>7. Span(attempts + 1) \in Nat /\ Span(attempts + 2) \in Nat
      /\ Span(USB_NAK_LIMIT + USB_RETRY_LIMIT) \in Nat
  BY <1>1, <1>2, Spans
<1> QED
  BY <1>2, <1>3, <1>4, <1>5, <1>6, <1>7

LEMMA InitPacket == ASSUME PacketInit PROVE PacketInv
<1>1. PacketTypes
  <2>1. "success" \in Result
    BY DEF Result
  <2>2. /\ at \in {"idle", "launch", "wait", "read", "result"}
        /\ elapsed \in 0 .. USB_XFER_TIMEOUT /\ jump \in 1 .. NoJump
        /\ nak_count \in 0 .. USB_NAK_LIMIT /\ retry_count \in 0 .. USB_RETRY_LIMIT
        /\ age \in 0 .. AttemptTime
    BY LimitAssumption, RetryAssumption DEF PacketInit, NoJump
  <2>3. /\ hung \in BOOLEAN /\ own \in BOOLEAN /\ busy \in BOOLEAN
        /\ hxfrdn \in BOOLEAN /\ fresh \in BOOLEAN
    BY DEF PacketInit
  <2> QED
    BY <2>1, <2>2, <2>3, Zenon DEF PacketInit, PacketTypes
<1>2. LimitInv /\ TimeInv
  BY DEF PacketInit, LimitInv, TimeInv
<1>3. AnswerInv
  BY DEF PacketInit, AnswerInv
<1> QED
  BY <1>1, <1>2, <1>3 DEF PacketInv

LEMMA StepTypes ==
    ASSUME PacketTypes, LimitInv, [PacketNext]_dispatchVars
    PROVE  PacketTypes' /\ LimitInv'
<1> USE LimitAssumption, RetryAssumption
        DEF PacketTypes, LimitInv, NoJump, counts, verdict, engine
<1>1. CASE Call
  BY <1>1 DEF Call
<1>2. CASE Launch
  <2>1. /\ at' = "wait" /\ at # "idle" /\ age' = 0
        /\ UNCHANGED <<hung, elapsed, jump, nak_count, retry_count, rcode, own,
                       hxfrdn, rslt>>
    BY <1>2 DEF Launch
  <2>2. busy' \in BOOLEAN /\ fresh' \in BOOLEAN
    BY <1>2 DEF Launch
  <2> QED
    BY <2>1, <2>2
<1>3. CASE Wait
  <2>1. /\ at' \in {"idle", "read"} /\ at # "idle"
        /\ rcode' \in {rcode, "ff"} /\ own' \in {own, FALSE}
        /\ UNCHANGED <<hung, elapsed, jump, nak_count, retry_count, age,
                       busy, hxfrdn, rslt, fresh>>
    BY <1>3 DEF Wait
  <2>2. own' \in BOOLEAN
    BY <2>1
  <2> QED
    BY <2>1, <2>2
<1>4. CASE ReadDone
  BY <1>4 DEF ReadDone
<1>5. CASE ReadNotDone
  BY <1>5 DEF ReadNotDone
<1>6. CASE ReadResult
  <2>1. /\ nak_count' \in 0 .. USB_NAK_LIMIT /\ retry_count' \in 0 .. USB_RETRY_LIMIT
        /\ Again(rslt) =>
              nak_count' < USB_NAK_LIMIT /\ retry_count' < USB_RETRY_LIMIT
    BY <1>6 DEF ReadResult, Again, Naks, Retries
  <2>2. CASE Again(rslt)
    BY <1>6, <2>1, <2>2 DEF ReadResult
  <2>3. CASE ~Again(rslt)
    <3>1. /\ at' = "idle" /\ rcode' = rslt /\ own' = fresh
          /\ UNCHANGED <<hung, elapsed, jump, age, busy, hxfrdn, rslt, fresh>>
      BY <1>6, <2>3 DEF ReadResult
    <3>2. own' \in BOOLEAN
      BY <3>1
    <3> QED
      BY <2>1, <3>1, <3>2
  <2> QED
    BY <2>2, <2>3
<1>7. CASE ChipDone
  BY <1>7 DEF ChipDone
<1>8. CASE Tick
  BY <1>8 DEF Tick
<1>9. CASE UNCHANGED dispatchVars
  BY <1>9 DEF dispatchVars
<1> QED
  BY <1>1, <1>2, <1>3, <1>4, <1>5, <1>6, <1>7, <1>8, <1>9 DEF PacketNext, XferDispatchPkt

LEMMA StepTime ==
    ASSUME PacketInv, [PacketNext]_dispatchVars, PacketTypes' PROVE TimeInv'
<1> SUFFICES ASSUME ~hung, ~hung', at' # "idle" 
             PROVE  elapsed' <= age' + Span(IF at' = "launch" THEN attempts'
                                                             ELSE attempts' + 1)
  <2>1. hung' = hung
    BY DEF PacketNext, XferDispatchPkt, Call, Launch, Wait,
           ReadDone, ReadNotDone, ReadResult, ChipDone,
           Tick, dispatchVars
  <2> QED
    BY <2>1 DEF TimeInv, attempts, Span
<1>a. /\ attempts \in Nat /\ elapsed \in Nat /\ age \in Nat /\ age <= AttemptTime
      /\ AttemptTime \in Nat
  BY LimitAssumption, RetryAssumption DEF PacketInv, PacketTypes, attempts
<1>b. /\ Span(attempts) \in Nat /\ Span(attempts + 1) = Span(attempts) + AttemptTime
      /\ Span(0) = 0
  BY <1>a, Spans DEF Span
<1>c. at # "idle" =>
        elapsed <= age + Span(IF at = "launch" THEN attempts ELSE attempts + 1)
  BY DEF PacketInv, TimeInv
<1> HIDE DEF attempts, Span
<1>1. CASE Call
  <2>1. attempts' = 0 /\ elapsed' = 0 /\ age' = 0 /\ at' = "launch"
    BY <1>1 DEF Call, attempts
  <2> QED
    BY <2>1, <1>b
<1>2. CASE Launch
  <2>1. /\ at = "launch" /\ at' = "wait" /\ age' = 0
        /\ attempts' = attempts /\ elapsed' = elapsed
    BY <1>2 DEF Launch, counts, attempts
  <2> QED
    BY <2>1, <1>a, <1>b, <1>c
<1>3. CASE Wait \/ ReadDone \/ ReadNotDone
  <2>1. /\ at \notin {"idle", "launch"} /\ at' # "launch" /\ age' = age
        /\ attempts' = attempts /\ elapsed' = elapsed
    BY <1>3 DEF Wait, ReadDone, ReadNotDone, counts, attempts
  <2> QED
    BY <2>1, <1>a, <1>b, <1>c
<1>4. CASE ReadResult
  <2>1. /\ at = "result" /\ at' = "launch" /\ age' = age
        /\ attempts' = attempts + 1 /\ elapsed' = elapsed
    BY <1>4 DEF ReadResult, Again, Naks, Retries, attempts,
                PacketInv, PacketTypes
  <2> QED
    BY <2>1, <1>a, <1>b, <1>c
<1>5. CASE ChipDone \/ UNCHANGED dispatchVars
  <2>1. at' = at /\ age' = age /\ attempts' = attempts /\ elapsed' = elapsed
    BY <1>5 DEF ChipDone, counts, dispatchVars, attempts
  <2> QED
    BY <2>1, <1>c
<1>6. CASE Tick
  <2>1. /\ at # "idle" /\ at' = at /\ age' = age + 1
        /\ attempts' = attempts /\ elapsed' = elapsed + 1
    BY <1>6 DEF Tick, counts, attempts
  <2> QED
    BY <2>1, <1>a, <1>b, <1>c
<1> QED
  BY <1>1, <1>2, <1>3, <1>4, <1>5, <1>6 DEF PacketNext, XferDispatchPkt

LEMMA StepAnswer ==
    ASSUME AllFit, PacketInv, [PacketNext]_dispatchVars PROVE AnswerInv'
<1> USE DEF PacketInv, AnswerInv, counts, verdict, engine
<1>1. CASE Call
  BY <1>1 DEF Call
<1>2. CASE Launch
  BY <1>2 DEF Launch
<1>3. CASE Wait
  <2>1. ~hung => ~Over
    <3>1. at # "idle"
      BY <1>3 DEF Wait
    <3>2. elapsed \in Nat /\ USB_XFER_TIMEOUT \in Nat
      BY LimitAssumption, RetryAssumption DEF PacketTypes
    <3> QED
      BY <3>1, <3>2, InTime DEF Over
  <2> QED
    BY <1>3, <2>1 DEF Wait
<1>4. CASE ReadDone
  BY <1>4 DEF ReadDone
<1>5. CASE ReadNotDone
  BY <1>5 DEF ReadNotDone
<1>6. CASE ReadResult
  BY <1>6 DEF ReadResult, PacketTypes, Result
<1>7. CASE ChipDone
  BY <1>7 DEF ChipDone, PacketTypes
<1>8. CASE Tick
  BY <1>8 DEF Tick
<1>9. CASE UNCHANGED dispatchVars
  BY <1>9 DEF dispatchVars
<1> QED
  BY <1>1, <1>2, <1>3, <1>4, <1>5, <1>6, <1>7, <1>8, <1>9 DEF PacketNext, XferDispatchPkt

LEMMA PacketInvariant == ASSUME AllFit PROVE PacketSpec => []PacketInv
<1>1. PacketInit => PacketInv
  BY InitPacket
<1>2. PacketInv /\ [PacketNext]_dispatchVars => PacketInv'
  <2> SUFFICES ASSUME PacketInv, [PacketNext]_dispatchVars PROVE PacketInv'
    OBVIOUS
  <2>1. PacketTypes' /\ LimitInv'
    BY StepTypes DEF PacketInv
  <2> QED
    BY <2>1, StepTime, StepAnswer DEF PacketInv
<1> QED
  BY <1>1, <1>2, PTL DEF PacketSpec

\* Whatever the chip and the clock do, hung or jumping included, the counters of
\* a call stop at their limits, and below them while it goes on.
THEOREM LimitsHold == PacketSpec => [](PacketTypes /\ LimitInv)
<1>1. PacketInit => PacketTypes /\ LimitInv
  BY InitPacket DEF PacketInv
<1>2. PacketTypes /\ LimitInv /\ [PacketNext]_dispatchVars => (PacketTypes /\ LimitInv)'
  BY StepTypes
<1> QED
  BY <1>1, <1>2, PTL DEF PacketSpec

\* If the call's time is more than all attempts can take, then for every limit
\* and every order of results no call runs out of time before its limits are
\* used up (XferDispatchPkt).
THEOREM CallsAreInTime == ASSUME AllFit PROVE PacketSpec => []NeverLate
<1>1. PacketInv => NeverLate
  BY DEF PacketInv, AnswerInv, NeverLate
<1> QED
  BY <1>1, PacketInvariant, PTL

\* And no call takes a late answer to another packet for its own.
THEOREM AnswersAreOwn == ASSUME AllFit PROVE PacketSpec => []OwnAnswer
<1>1. PacketInv => OwnAnswer
  BY DEF PacketInv, AnswerInv, OwnAnswer
<1> QED
  BY <1>1, PacketInvariant, PTL

-----------------------------------------------------------------------------
(***************************************************************************)
(* The enumeration that control transfers make up: module Control, for     *)
(* all devices, packet sizes and limits.                                   *)
(***************************************************************************)

Steps ==
    {"size", "device", "mfgSize", "mfg", "productSize", "product", "address",
     "mouseSize", "mouse", "mouseConf", "mouseProto",
     "kbdSize", "kbd", "kbdConf", "kbdProto"}

Setting == {"mouseConf", "mouseProto", "kbdConf", "kbdProto"}
Last == {"mouseProto", "kbdProto"}

\* What is known of a device at each step of its enumeration.
EnumInv ==
    /\ step \in Steps \cup Outcomes /\ (phase = "end" <=> step \in Outcomes)
    /\ epinfo \in {"dev0ep", "hid_ep"}
    /\ step \notin {"size", "ERROR"} => MaxPktSize = dev.mps
    /\ epinfo = "hid_ep" => hidPktSize = dev.mps
    /\ step \in Setting => epinfo = "hid_ep" /\ devclass = dev.boot
    /\ step \in Last => configured
    /\ RunningIsReady

LEMMA Settings ==
    /\ ~(step \in Setting /\ Reading)
    /\ step \in {"mouseConf", "kbdConf"} => What[step] = "configuration"
    /\ step \in Last => What[step] = "protocol"
    /\ step \in Setting => Addr = 1
BY DEF Reading, What, Named, Setting, Last, Addr, BeforeAddress

\* Where each of these steps comes from.
LEMMA Before ==
    ASSUME step \in Steps, NEW ok \in BOOLEAN
    PROVE  /\ After(ok) \in Steps \cup Outcomes /\ After(ok) # "size"
           /\ step = "size" /\ ~ok => After(ok) = "ERROR"
           /\ After(ok) = "mouseConf" => step = "mouse" /\ ok
           /\ After(ok) = "kbdConf" => step = "kbd" /\ ok
           /\ After(ok) = "mouseProto" => step = "mouseConf" /\ ok
           /\ After(ok) = "kbdProto" => step = "kbdConf" /\ ok
           /\ After(ok) = "RUNNING" => step \in Last /\ ok
<1>1. AfterDevice(strings') \in {"mfgSize", "productSize", "address"}
  BY DEF AfterDevice
<1>2. AfterDevice(strings \ {"mfg"}) \in {"mfgSize", "productSize", "address"}
  BY DEF AfterDevice
<1>3. CASE step \in BeforeAddress
  BY <1>1, <1>2, <1>3 DEF After, BeforeAddress, Steps, Outcomes
<1>4. CASE step \notin BeforeAddress
  <2>1. After(ok) = AfterProbe(step, ok)
    BY <1>4 DEF After, BeforeAddress
  <2> QED
    BY <1>4, <2>1 DEF AfterProbe, BeforeAddress, Steps, Last, Outcomes
<1> QED
  BY <1>3, <1>4

\* The end of a request keeps the invariant, if a request that succeeded was
\* carried out.
LEMMA FinishInv ==
    ASSUME EnumInv, step \in Steps, NEW ok \in BOOLEAN, Finish(ok),
           dev' = dev, configured => configured',
           ok /\ step \in {"mouseConf", "kbdConf"} => configured',
           ok /\ step \in Last => devAddr' = 1 /\ bootProtocol'
    PROVE  EnumInv'
<1>1. step' = After(ok) /\ phase' = IF step' \in Outcomes THEN "end" ELSE "setup"
  BY DEF Finish
<1>2. MaxPktSize' = IF step = "size" /\ ok THEN dev.mps ELSE MaxPktSize
  BY DEF Finish
<1>3. step' \in Steps \cup Outcomes /\ (phase' = "end" <=> step' \in Outcomes)
  BY <1>1, Before
<1>4. step' \notin {"size", "ERROR"} => MaxPktSize' = dev'.mps
  BY <1>1, <1>2, Before DEF EnumInv, Steps
<1>5. CASE Recognised(ok)
  <2>1. /\ step \in {"mouse", "kbd"} /\ step' \in {"mouseConf", "kbdConf"}
        /\ epinfo' = "hid_ep" /\ devclass' = dev.boot /\ hidPktSize' = PktSize
    BY <1>1, <1>5 DEF Recognised, Finish
  <2>2. PktSize = dev.mps
    BY <2>1 DEF EnumInv, PktSize
  <2> QED
    BY <1>3, <1>4, <2>1, <2>2 DEF EnumInv, Last, RunningIsReady
<1>6. CASE ~Recognised(ok)
  <2>1. UNCHANGED <<epinfo, devclass, hidPktSize>>
    BY <1>6 DEF Finish
  <2>2. step' \notin {"mouseConf", "kbdConf"}
    BY <1>1, <1>6, Before DEF Recognised
  <2>3. step' \in Setting => step \in Setting /\ ok /\ step \in {"mouseConf", "kbdConf"}
    BY <1>1, <2>2, Before DEF Setting
  <2>4. step' = "RUNNING" => step \in Last /\ ok
    BY <1>1, Before
  <2>5. RunningIsReady'
    BY <2>1, <2>4 DEF EnumInv, Last, Setting, RunningIsReady
  <2> QED
    BY <1>3, <1>4, <2>1, <2>3, <2>5 DEF EnumInv, Last, Setting
<1> QED
  BY <1>5, <1>6

\* Giving up, and going on with the same request, keep it too.
SameStep == UNCHANGED <<step, table, dev, devAddr, configured, bootProtocol>>

LEMMA SameInv == ASSUME EnumInv, step \in Steps, SameStep, phase' # "end" PROVE EnumInv'
BY DEF EnumInv, SameStep, table, Steps, Outcomes, RunningIsReady

LEMMA FailInv ==
    ASSUME EnumInv, step \in Steps, Finish(FALSE), dev' = dev, configured => configured'
    PROVE  EnumInv'
BY FinishInv

LEMMA NoAnswerInv ==
    ASSUME EnumInv, step \in Steps, phase # "end", NoAnswer,
           UNCHANGED <<dev, devAddr, configured, bootProtocol>>
    PROVE  EnumInv'
<1>1. CASE Finish(FALSE)
  BY <1>1, FailInv
<1>2. CASE UNCHANGED <<phase, step, wanted, data, strings, table>>
  BY <1>2, SameInv DEF SameStep
<1> QED
  BY <1>1, <1>2 DEF NoAnswer

LEMMA TransactionInv ==
    ASSUME EnumInv, NEW fate \in Fate, Attempt(fate) PROVE EnumInv'
<1>a. phase # "end" /\ step \in Steps
  BY DEF Attempt, Setup, In, StatusIn, StatusOut, EnumInv
<1>1. CASE Setup(fate)
  <2>1. UNCHANGED <<dev, devAddr, configured, bootProtocol>>
    BY <1>1 DEF Setup
  <2>2. \/ phase' \in {"in", "status"} /\ UNCHANGED <<step, table>>
        \/ Finish(FALSE) \/ NoAnswer
    BY <1>1 DEF Setup
  <2> QED
    BY <1>a, <2>1, <2>2, SameInv, FailInv, NoAnswerInv DEF SameStep
<1>2. CASE In(fate)
  <2>1. UNCHANGED <<dev, devAddr, configured, bootProtocol>>
    BY <1>2 DEF In
  <2>2. \/ phase' = "receive" /\ UNCHANGED <<step, table>>
        \/ Finish(FALSE) \/ NoAnswer
    BY <1>2 DEF In
  <2> QED
    BY <1>a, <2>1, <2>2, SameInv, FailInv, NoAnswerInv DEF SameStep
<1>3. CASE StatusIn(fate)
  <2>1. CASE devAddr = Addr /\ CarryOut(fate) /\ Finish(fate # "garbled")
    <3>1. dev' = dev /\ (configured => configured')
      BY <1>3, <2>1 DEF StatusIn, CarryOut
    <3>2. step \in {"mouseConf", "kbdConf"} => configured'
      BY <2>1, Settings DEF CarryOut
    <3>3. step \in Last => devAddr' = 1 /\ bootProtocol'
      BY <2>1, Settings DEF CarryOut, Last, Setting
    <3> QED
      BY <1>a, <2>1, <3>1, <3>2, <3>3, FinishInv
  <2>2. CASE NoAnswer /\ UNCHANGED <<dev, devAddr, configured, bootProtocol>>
    BY <1>a, <2>2, NoAnswerInv
  <2> QED
    BY <1>3, <2>1, <2>2 DEF StatusIn
<1>4. CASE StatusOut(fate)
  <2>1. UNCHANGED <<dev, devAddr, configured, bootProtocol>>
    BY <1>4 DEF StatusOut
  <2>2. CASE Finish(fate = "heard")
    <3>1. step \notin Setting
      BY <1>4, Settings DEF StatusOut
    <3> QED
      BY <1>a, <2>1, <2>2, <3>1, FinishInv DEF Setting, Last
  <2>3. CASE NoAnswer
    BY <1>a, <2>1, <2>3, NoAnswerInv
  <2> QED
    BY <1>4, <2>2, <2>3 DEF StatusOut
<1> QED
  BY <1>1, <1>2, <1>3, <1>4 DEF Attempt

LEMMA ControlInv == EnumInv /\ [CtrlNext]_ctrlVars => EnumInv'
<1> SUFFICES ASSUME EnumInv, [CtrlNext]_ctrlVars PROVE EnumInv'
  OBVIOUS
<1>1. ASSUME NEW fate \in Fate, Attempt(fate) PROVE EnumInv'
  BY <1>1, TransactionInv
<1>2. CASE ReceivePacket
  <2>1. phase = "receive" /\ step \in Steps
    BY <1>2 DEF ReceivePacket, EnumInv
  <2>2. UNCHANGED <<dev, devAddr, configured, bootProtocol>>
    BY <1>2 DEF ReceivePacket, device
  <2>3. \/ phase' \in {"status", "in"} /\ UNCHANGED <<step, table>>
        \/ Finish(FALSE)
    BY <1>2 DEF ReceivePacket
  <2> QED
    BY <2>1, <2>2, <2>3, SameInv, FailInv DEF SameStep
<1>3. ASSUME NEW d \in Devices, Attach(d) PROVE EnumInv'
  BY <1>3 DEF Attach, EnumInv, Steps, Outcomes, Setting, Last, RunningIsReady
<1>4. CASE UNCHANGED ctrlVars
  BY <1>4 DEF ctrlVars, firmware, table, device, EnumInv, RunningIsReady
<1> QED
  BY <1>1, <1>2, <1>3, <1>4 DEF CtrlNext

\* Whatever the bus loses, repeats or spoils, a device that the firmware believes
\* to run has the address that the firmware uses, a configuration and the boot
\* protocol, and the device table describes it.
THEOREM DeviceIsReady == CtrlSpec => []RunningIsReady
<1>1. CtrlInit => EnumInv
  BY DEF CtrlInit, EnumInv, Steps, Outcomes, Setting, Last, RunningIsReady
<1>2. EnumInv => RunningIsReady
  BY DEF EnumInv
<1> QED
  BY <1>1, <1>2, ControlInv, PTL DEF CtrlSpec

-----------------------------------------------------------------------------
(***************************************************************************)
(* The reads that the enumeration makes: what they put into their buffers. *)
(***************************************************************************)

\* Bytes m + 1 to n of a descriptor are a sequence, and two stretches of bytes
\* of which one begins where the other ends make one.
LEMMA BytesSeq ==
    ASSUME NEW what, NEW m \in Nat, NEW n \in Nat, m <= n
    PROVE  /\ Bytes(what, m, n) \in Seq({what} \X Nat)
           /\ Len(Bytes(what, m, n)) = n - m
           /\ \A i \in 1 .. n - m : Bytes(what, m, n)[i] = <<what, m + i>>
<1> DEFINE k == n - m
<1>1. k \in Nat
  OBVIOUS
<1>2. \A i \in 1 .. k : <<what, m + i>> \in {what} \X Nat
  OBVIOUS
<1>3. Bytes(what, m, n) \in [1 .. k -> {what} \X Nat]
  BY <1>2, Zenon DEF Bytes
<1>4. \A i \in 1 .. n - m : Bytes(what, m, n)[i] = <<what, m + i>>
  BY Zenon DEF Bytes
<1>5. Bytes(what, m, n) \in Seq({what} \X Nat)
  BY <1>1, <1>2 DEF Bytes
<1> HIDE DEF k
<1>6. DOMAIN Bytes(what, m, n) = 1 .. k
  BY <1>3, Zenon
<1>7. 1 .. Len(Bytes(what, m, n)) = 1 .. k /\ Len(Bytes(what, m, n)) \in Nat
  BY <1>5, <1>6, LenProperties, Zenon
<1>8. Len(Bytes(what, m, n)) = k
  BY <1>1, <1>7
<1> QED
  BY <1>4, <1>5, <1>8 DEF k

LEMMA BytesJoin ==
    ASSUME NEW what, NEW m \in Nat, NEW n \in Nat, m <= n
    PROVE  Bytes(what, 0, m) \o Bytes(what, m, n) = Bytes(what, 0, n)
<1> DEFINE S == {what} \X Nat
           a == Bytes(what, 0, m)
           b == Bytes(what, m, n)
           c == Bytes(what, 0, n)
<1>0. ASSUME NEW k \in Nat
      PROVE  /\ Bytes(what, 0, k) \in Seq(S) /\ Len(Bytes(what, 0, k)) = k
             /\ \A i \in 1 .. k : Bytes(what, 0, k)[i] = <<what, i>>
  <2>1. 0 \in Nat /\ 0 <= k /\ k - 0 = k /\ \A i \in 1 .. k : 0 + i = i
    OBVIOUS
  <2>2. /\ Bytes(what, 0, k) \in Seq(S) /\ Len(Bytes(what, 0, k)) = k - 0
        /\ \A i \in 1 .. k - 0 : Bytes(what, 0, k)[i] = <<what, 0 + i>>
    BY <2>1, BytesSeq, Zenon
  <2> QED
    BY <2>1, <2>2
<1>1. a \in Seq(S) /\ Len(a) = m /\ \A i \in 1 .. m : a[i] = <<what, i>>
  BY <1>0
<1>2. b \in Seq(S) /\ Len(b) = n - m /\ \A i \in 1 .. n - m : b[i] = <<what, m + i>>
  BY BytesSeq
<1>3. c \in Seq(S) /\ Len(c) = n /\ \A i \in 1 .. n : c[i] = <<what, i>>
  BY <1>0
<1> HIDE DEF S, a, b, c
<1>4. /\ a \o b \in Seq(S) /\ Len(a \o b) = n
      /\ \A i \in 1 .. n : (a \o b)[i] = IF i <= m THEN a[i] ELSE b[i - m]
  <2>1. /\ a \o b \in Seq(S) /\ Len(a \o b) = Len(a) + Len(b)
        /\ \A i \in 1 .. Len(a) + Len(b) :
              (a \o b)[i] = IF i <= Len(a) THEN a[i] ELSE b[i - Len(a)]
    BY <1>1, <1>2, ConcatProperties, Zenon
  <2>2. Len(a) + Len(b) = n /\ Len(a) = m
    BY <1>1, <1>2
  <2> QED
    BY <2>1, <2>2
<1>5. ASSUME NEW i \in 1 .. n PROVE (a \o b)[i] = c[i]
  <2>1. CASE i <= m
    <3>1. i \in 1 .. m
      BY <2>1
    <3>2. (a \o b)[i] = a[i]
      BY <1>4, <2>1
    <3> QED
      BY <1>1, <1>3, <3>1, <3>2
  <2>2. CASE ~(i <= m)
    <3>1. i - m \in 1 .. n - m /\ m + (i - m) = i
      BY <2>2
    <3>2. (a \o b)[i] = b[i - m]
      BY <1>4, <2>2
    <3>3. b[i - m] = <<what, m + (i - m)>>
      BY <1>2, <3>1
    <3> QED
      BY <1>3, <3>1, <3>2, <3>3
  <2> QED
    BY <2>1, <2>2
<1>6. a \o b = c
  BY <1>3, <1>4, <1>5, SeqEqual
<1> QED
  BY <1>6 DEF a, b, c

\* No bytes.
LEMMA NoBytes == \A what : Bytes(what, 0, 0) = <<>> /\ Len(<<>>) = 0
<1>1. 0 \in Nat /\ 0 <= 0 /\ 0 - 0 = 0
  OBVIOUS
<1> TAKE what
<1>2. /\ Bytes(what, 0, 0) \in Seq({what} \X Nat)
      /\ Len(Bytes(what, 0, 0)) = 0 - 0
  BY <1>1, BytesSeq, Zenon
<1> QED
  BY <1>1, <1>2, EmptySeq

\* All that a read is to get, and how much of it has been sent when the packet
\* that is about to be received is counted.
Whole == Least(wanted, dev.len[What[step]])
Reached == Least(Len(data) + dev.mps, Whole)

\* What a read has got, and what the device knows of it.
ReadInv ==
    /\ dev \in Devices /\ wanted \in Nat
    /\ rcvtog \in {0, 1} /\ sndtog \in {0, 1}
    /\ step = "size" => MaxPktSize = MinPacket
    /\ phase \in {"setup", "in", "receive", "status", "end"}
    /\ phase \in {"setup", "end"} => data = <<>>
    /\ phase = "status" /\ ~Reading => data = <<>>
    /\ phase \in {"in", "receive"} => Reading /\ asked = What[step] /\ limit = wanted
    /\ phase \in {"in", "receive", "status"} /\ Reading =>
           /\ Len(data) \in Nat /\ Len(data) <= Whole
           /\ data = Bytes(What[step], 0, Len(data))
    /\ phase = "in" /\ sndtog = rcvtog => sent = Len(data)
    /\ phase = "receive" =>
           /\ RCVFIFO = Bytes(What[step], Len(data), Reached)
           /\ sndtog = rcvtog => sent = Reached
    /\ phase = "status" /\ Reading => Len(data) = Whole

\* Sizes and lengths are numbers, and no packet is longer than those of the device.
LEMMA DeviceFacts ==
    ASSUME ReadInv
    PROVE  /\ dev.mps \in Nat \ {0} /\ dev.mps >= MinPacket
           /\ \A name \in Named : dev.len[name] \in Nat \ {0}
           /\ Reading => Whole \in Nat /\ Whole <= wanted
<1>1. /\ dev.mps \in Sizes /\ dev.len \in [Named -> Nat \ {0}]
  BY DeviceAssumption DEF ReadInv
<1>2. dev.mps \in Nat \ {0} /\ dev.mps >= MinPacket
  BY <1>1, SizeAssumption
<1>3. \A name \in Named : dev.len[name] \in Nat \ {0}
  BY <1>1
<1>4. Reading => Whole \in Nat /\ Whole <= wanted
  BY <1>3 DEF Reading, Whole, Least, ReadInv
<1> QED
  BY <1>2, <1>3, <1>4

LEMMA PacketFits ==
    ASSUME EnumInv, ReadInv, step \in Steps
    PROVE  PktSize <= dev.mps
<1>1. dev.mps \in Nat /\ MinPacket <= dev.mps
  BY DeviceFacts
<1>2. step = "size" => Addr = 0 /\ MaxPktSize = MinPacket
  BY DEF Addr, BeforeAddress, ReadInv
<1>3. step # "size" => MaxPktSize = dev.mps
  BY DEF EnumInv, Steps
<1>4. epinfo = "hid_ep" => hidPktSize = dev.mps
  BY DEF EnumInv
<1>5. epinfo \in {"dev0ep", "hid_ep"}
  BY DEF EnumInv
<1> QED
  BY <1>1, <1>2, <1>3, <1>4, <1>5 DEF PktSize

\* The invariant says all that is wanted.
LEMMA ReadsFollow == ReadInv => ReadsArePrefixes
<1> SUFFICES ASSUME ReadInv PROVE ReadsArePrefixes
  OBVIOUS
<1>1. CASE phase \in {"in", "receive", "status"} /\ Reading
  <2>1. /\ Len(data) \in Nat /\ Len(data) <= Whole
        /\ data = Bytes(What[step], 0, Len(data))
        /\ phase = "status" => Len(data) = Whole
    BY <1>1 DEF ReadInv
  <2>2. Whole \in Nat /\ Whole <= wanted /\ wanted \in Nat
    BY <1>1, DeviceFacts DEF ReadInv
  <2> QED
    BY <2>1, <2>2 DEF ReadsArePrefixes, Whole
<1>2. CASE ~(phase \in {"in", "receive", "status"} /\ Reading)
  <2>1. data = <<>> /\ ~(phase = "status" /\ Reading) /\ wanted \in Nat
    BY <1>2 DEF ReadInv
  <2>2. Len(data) = 0 /\ data = Bytes(What[step], 0, Len(data))
    BY <2>1, NoBytes
  <2> QED
    BY <2>1, <2>2 DEF ReadsArePrefixes
<1> QED
  BY <1>1, <1>2

\* After the end of a request nothing is in the buffer of the next.
LEMMA FinishRead ==
    ASSUME EnumInv, ReadInv, step \in Steps, NEW ok \in BOOLEAN, Finish(ok),
           dev' = dev, rcvtog' \in {0, 1}, sndtog' \in {0, 1}
    PROVE  ReadInv'
<1>1. data' = <<>> /\ phase' \in {"setup", "end"} /\ step' = After(ok)
  BY DEF Finish
<1>2. step' # "size"
  BY <1>1, Before
<1>3. wanted' \in Nat
  <2>1. /\ \A name \in Named : dev.len[name] \in Nat
        /\ dev.len.device = dev.len["device"] /\ dev.len.string = dev.len["string"]
        /\ dev.len.config = dev.len["config"]
    BY DeviceFacts
  <2>2. Nbytes(step') \in Nat
    BY <2>1, SizeAssumption DEF Nbytes, Least, Named
  <2>3. wanted' \in Garbage \cup {Nbytes(step')}
    BY DEF Finish
  <2> QED
    BY <2>2, <2>3, SizeAssumption
<1>4. dev' \in Devices
  BY DEF ReadInv
<1> QED
  BY <1>1, <1>2, <1>3, <1>4 DEF ReadInv

\* A repetition changes nothing that the invariant speaks of but the device's
\* side of a request that has not begun yet.
LEMMA AgainRead ==
    ASSUME EnumInv, ReadInv, step \in Steps, NoAnswer, dev' = dev,
           UNCHANGED <<rcvtog, RCVFIFO>>, sndtog' \in {0, 1},
           phase = "in" => UNCHANGED <<asked, limit, sent, sndtog>>,
           phase # "receive"
    PROVE  ReadInv'
<1>1. CASE Finish(FALSE)
  BY <1>1, FinishRead DEF ReadInv
<1>2. CASE UNCHANGED <<phase, step, wanted, data, strings, table>>
  <2>1. UNCHANGED <<phase, step, wanted, data, dev, rcvtog, MaxPktSize>>
    BY <1>2 DEF table
  <2>2. Reading' = Reading /\ Whole' = Whole /\ What[step]' = What[step]
    BY <2>1 DEF Reading, Whole, What
  <2> QED
    BY <2>1, <2>2 DEF ReadInv
<1> QED
  BY <1>1, <1>2 DEF NoAnswer

\* One lemma for every action.
LEMMA SetupRead ==
    ASSUME EnumInv, ReadInv, step \in Steps, NEW fate \in Fate, Setup(fate)
    PROVE  ReadInv'
<1>1. phase = "setup" /\ dev' = dev /\ RCVFIFO' = RCVFIFO
  BY DEF Setup
<1>2. sndtog' \in {0, 1}
  BY DEF Setup, TakeSetup, endpoint, ReadInv
<1>3. CASE Finish(FALSE) /\ UNCHANGED rcvtog
  BY <1>1, <1>2, <1>3, FinishRead DEF ReadInv
<1>4. CASE NoAnswer /\ UNCHANGED rcvtog
  BY <1>1, <1>2, <1>4, AgainRead
<1>5. CASE /\ TakeSetup /\ phase' = (IF Reading THEN "in" ELSE "status")
           /\ FirstToggle /\ UNCHANGED <<step, wanted, data, strings, table>>
  <2>1. /\ UNCHANGED <<step, wanted, data, dev, MaxPktSize>> /\ data = <<>>
        /\ rcvtog' \in {0, 1} /\ sndtog' = 1 /\ sent' = 0
    BY <1>1, <1>5 DEF table, ReadInv, FirstToggle, TakeSetup
  <2>2. Reading' = Reading /\ Whole' = Whole /\ What[step]' = What[step]
    BY <2>1 DEF Reading, Whole, What
  <2>3. CASE Reading
    <3>1. /\ phase' = "in" /\ asked' = What[step]' /\ limit' = wanted'
      BY <1>5, <2>1, <2>2, <2>3 DEF TakeSetup
    <3>2. Len(data') = 0 /\ data' = Bytes(What[step]', 0, Len(data'))
      BY <2>1, NoBytes
    <3>3. 0 <= Whole' /\ 0 \in Nat
      BY <2>2, <2>3, DeviceFacts
    <3> QED
      BY <2>1, <2>2, <2>3, <3>1, <3>2, <3>3 DEF ReadInv
  <2>4. CASE ~Reading
    BY <1>5, <2>1, <2>2, <2>4 DEF ReadInv
  <2> QED
    BY <2>3, <2>4
<1> QED
  BY <1>3, <1>4, <1>5 DEF Setup

LEMMA InRead ==
    ASSUME EnumInv, ReadInv, step \in Steps, NEW fate \in Fate, In(fate)
    PROVE  ReadInv'
<1>1. phase = "in" /\ dev' = dev /\ Reading /\ asked = What[step] /\ limit = wanted
  BY DEF In, ReadInv
<1>2. sndtog' \in {0, 1}
  BY DEF In, Acknowledged, endpoint, ReadInv
<1>3. CASE Finish(FALSE) /\ UNCHANGED receiver
  BY <1>1, <1>2, <1>3, FinishRead DEF ReadInv, receiver
<1>4. CASE NoAnswer /\ UNCHANGED receiver /\ UNCHANGED endpoint
  BY <1>1, <1>2, <1>4, AgainRead DEF receiver, endpoint
<1>5. CASE /\ rcvtog = sndtog /\ RCVFIFO' = Packet /\ rcvtog' = 1 - rcvtog
           /\ phase' = "receive" /\ UNCHANGED <<step, wanted, tries, data, strings, table>>
           /\ \/ Acknowledged /\ UNCHANGED <<stage, asked, limit>>
              \/ UNCHANGED endpoint
  <2>1. UNCHANGED <<step, wanted, data, dev, MaxPktSize, asked, limit>>
    BY <1>1, <1>5 DEF table, endpoint
  <2>2. /\ Reading' = Reading /\ Whole' = Whole /\ What[step]' = What[step]
        /\ Reached' = Reached
    BY <2>1 DEF Reading, Whole, What, Reached
  <2>3. /\ sent = Len(data) /\ Len(data) \in Nat /\ Len(data) <= Whole
        /\ data = Bytes(What[step], 0, Len(data))
    BY <1>1, <1>5 DEF ReadInv
  <2>4. Packet = Bytes(What[step], Len(data), Reached)
    BY <1>1, <2>3 DEF Packet, Answer, Reached, Whole
  <2>5. Reached \in Nat /\ Len(data) <= Reached
    BY <1>1, <2>3, DeviceFacts DEF Reached, Least
  <2>6. Len(Packet) = Reached - Len(data)
    BY <2>3, <2>4, <2>5, BytesSeq
  <2>7. sndtog' = rcvtog' => sent' = Reached
    <3>1. CASE Acknowledged
      BY <2>3, <2>5, <2>6, <3>1 DEF Acknowledged
    <3>2. CASE UNCHANGED endpoint
      BY <1>5, <3>2 DEF endpoint, ReadInv
    <3> QED
      BY <1>5, <3>1, <3>2
  <2>8. rcvtog' \in {0, 1}
    BY <1>5 DEF ReadInv
  <2> QED
    BY <1>1, <1>2, <1>5, <2>1, <2>2, <2>3, <2>4, <2>7, <2>8 DEF ReadInv
<1> QED
  BY <1>3, <1>4, <1>5 DEF In

LEMMA ReceiveRead ==
    ASSUME EnumInv, ReadInv, step \in Steps, ReceivePacket
    PROVE  ReadInv'
<1>1. /\ phase = "receive" /\ UNCHANGED <<rcvtog, RCVFIFO, dev, asked, limit, sent, sndtog>>
      /\ Reading /\ asked = What[step] /\ limit = wanted
  BY DEF ReceivePacket, ReadInv, device, endpoint
<1>2. CASE Finish(FALSE)
  BY <1>1, <1>2, FinishRead DEF ReadInv
<1>3. CASE /\ data' = data \o RCVFIFO /\ phase' = (IF Complete(data') THEN "status" ELSE "in")
           /\ UNCHANGED <<step, wanted, strings, table>>
  <2>1. UNCHANGED <<step, wanted, dev, MaxPktSize>>
    BY <1>1, <1>3 DEF table
  <2>2. /\ Reading' = Reading /\ Whole' = Whole /\ What[step]' = What[step]
    BY <2>1 DEF Reading, Whole, What
  <2>3. /\ Len(data) \in Nat /\ Len(data) <= Whole
        /\ data = Bytes(What[step], 0, Len(data))
        /\ RCVFIFO = Bytes(What[step], Len(data), Reached)
        /\ sndtog = rcvtog => sent = Reached
    BY <1>1 DEF ReadInv
  <2>4. Reached \in Nat /\ Len(data) <= Reached /\ Reached <= Whole
    BY <1>1, <2>3, DeviceFacts DEF Reached, Least
  <2>5. data' = Bytes(What[step], 0, Reached)
    BY <1>3, <2>3, <2>4, BytesJoin
  <2>6. Len(data') = Reached
    <3>1. 0 \in Nat /\ 0 <= Reached /\ Reached - 0 = Reached
      BY <2>4
    <3> QED
      BY <2>4, <2>5, <3>1, BytesSeq
  <2>7. Len(RCVFIFO) = Reached - Len(data)
    BY <2>3, <2>4, BytesSeq
  <2>8. Complete(data') => Reached = Whole
    <3>1. PktSize <= dev.mps /\ PktSize \in Nat /\ dev.mps \in Nat
      BY PacketFits, DeviceFacts, SizeAssumption DEF PktSize, EnumInv, ReadInv, Steps
    <3>2. Whole \in Nat /\ Whole <= wanted /\ wanted \in Nat
      BY <1>1, DeviceFacts DEF ReadInv
    <3> QED
      BY <2>3, <2>4, <2>6, <2>7, <3>1, <3>2 DEF Complete, Reached, Least
  <2> QED
    BY <1>1, <1>3, <2>1, <2>2, <2>4, <2>5, <2>6, <2>3, <2>8 DEF ReadInv
<1> QED
  BY <1>2, <1>3 DEF ReceivePacket

LEMMA StatusRead ==
    ASSUME EnumInv, ReadInv, step \in Steps, NEW fate \in Fate,
           StatusIn(fate) \/ StatusOut(fate)
    PROVE  ReadInv'
<1>1. /\ phase = "status"
      /\ UNCHANGED <<rcvtog, RCVFIFO, dev, asked, limit, sent, sndtog>>
  BY DEF StatusIn, StatusOut, receiver
<1>2. \/ \E ok \in BOOLEAN : Finish(ok)
      \/ NoAnswer
  BY DEF StatusIn, StatusOut
<1>3. rcvtog' \in {0, 1} /\ sndtog' \in {0, 1}
  BY <1>1 DEF ReadInv
<1> QED
  BY <1>1, <1>2, <1>3, FinishRead, AgainRead

LEMMA ReadStep == EnumInv /\ ReadInv /\ [CtrlNext]_ctrlVars => ReadInv'
<1> SUFFICES ASSUME EnumInv, ReadInv, [CtrlNext]_ctrlVars PROVE ReadInv'
  OBVIOUS
<1>1. ASSUME NEW fate \in Fate, Attempt(fate) PROVE ReadInv'
  <2>1. step \in Steps
    BY <1>1 DEF Attempt, Setup, In, StatusIn, StatusOut, EnumInv
  <2> QED
    BY <1>1, <2>1, SetupRead, InRead, StatusRead DEF Attempt
<1>2. CASE ReceivePacket
  <2>1. step \in Steps
    BY <1>2 DEF ReceivePacket, EnumInv
  <2> QED
    BY <1>2, <2>1, ReceiveRead
<1>3. ASSUME NEW d \in Devices, Attach(d) PROVE ReadInv'
  <2>1. /\ phase' = "setup" /\ step' = "size" /\ wanted' = MinPacket /\ data' = <<>>
        /\ MaxPktSize' = MinPacket /\ dev' = d /\ sndtog' = 0 /\ rcvtog' = rcvtog
    BY <1>3 DEF Attach, receiver
  <2> QED
    BY <2>1, SizeAssumption DEF ReadInv
<1>4. CASE UNCHANGED ctrlVars
  <2>1. UNCHANGED <<phase, step, wanted, data, dev, MaxPktSize, asked, limit,
                    rcvtog, sndtog, sent, RCVFIFO>>
    BY <1>4 DEF ctrlVars, firmware, table, receiver, device, endpoint
  <2>2. /\ Reading' = Reading /\ Whole' = Whole /\ What[step]' = What[step]
        /\ Reached' = Reached
    BY <2>1 DEF Reading, Whole, What, Reached
  <2> QED
    BY <2>1, <2>2 DEF ReadInv
<1> QED
  BY <1>1, <1>2, <1>3, <1>4 DEF CtrlNext

\* For all devices, lengths and packet sizes, whatever is lost, repeated or given
\* up on the bus and whatever a length that was never read says: a read puts
\* nothing into its buffer but the beginning of the descriptor that it asked for,
\* never more than nbytes, and when it goes on to its status stage, all of it.
THEOREM ReadsAreDescriptors == CtrlSpec => []ReadsArePrefixes
<1>1. CtrlInit => EnumInv /\ ReadInv
  <2> SUFFICES ASSUME CtrlInit PROVE EnumInv /\ ReadInv
    OBVIOUS
  <2>1. EnumInv
    BY DEF CtrlInit, EnumInv, Steps, Outcomes, Setting, Last, RunningIsReady
  <2>2. ReadInv
    BY SizeAssumption DEF CtrlInit, ReadInv
  <2> QED
    BY <2>1, <2>2
<1>2. EnumInv /\ ReadInv /\ [CtrlNext]_ctrlVars => (EnumInv /\ ReadInv)'
  BY ControlInv, ReadStep
<1> QED
  BY <1>1, <1>2, ReadsFollow, PTL DEF CtrlSpec

-----------------------------------------------------------------------------
(***************************************************************************)
(* What the variables of the enumeration may hold.                         *)
(***************************************************************************)

\* The firmware's, beyond what EnumInv and ReadInv say.
FirmwareTypes ==
    /\ tries \in 0 .. USB_RETRY_LIMIT - 1
    /\ strings \subseteq {"mfg", "product"}
    /\ MaxPktSize \in {MinPacket} \cup Sizes /\ hidPktSize \in {0} \cup Sizes
    /\ devclass \in {"none", "keyboard", "mouse"}

\* The chip's and the device's: it never has more received than it has to say.
DeviceTypes ==
    /\ RCVDAVIRQ \in BOOLEAN /\ devAddr \in {0, 1}
    /\ stage \in {"idle", "data", "status"}
    /\ asked \in Named /\ limit \in Nat /\ sent \in Nat /\ sent <= Answer
    /\ configured \in BOOLEAN /\ bootProtocol \in BOOLEAN

EnumTypes == EnumInv /\ ReadInv /\ FirmwareTypes /\ DeviceTypes

LEMMA FinishTypes ==
    ASSUME EnumTypes, step \in Steps, NEW ok \in BOOLEAN, Finish(ok)
    PROVE  FirmwareTypes'
<1>1. /\ dev.mps \in Sizes /\ dev.strings \subseteq {"mfg", "product"}
  BY DeviceAssumption DEF EnumTypes, ReadInv
<1>2. tries' = 0 /\ 0 \in 0 .. USB_RETRY_LIMIT - 1
  BY RetryAssumption DEF Finish
<1>3. strings' \subseteq {"mfg", "product"}
  BY <1>1 DEF Finish, EnumTypes, FirmwareTypes
<1>4. MaxPktSize' \in {MinPacket} \cup Sizes
  BY <1>1 DEF Finish, EnumTypes, FirmwareTypes
<1>5. CASE Recognised(ok)
  <2>1. /\ step \in {"mouse", "kbd"} /\ After(ok) \in {"mouseConf", "kbdConf"}
        /\ devclass' = dev.boot /\ hidPktSize' = PktSize
    BY <1>5 DEF Recognised, Finish
  <2>2. PktSize = dev.mps
    BY <2>1 DEF EnumTypes, EnumInv, PktSize
  <2>3. dev.boot \in {"keyboard", "mouse"}
    BY <2>1 DEF After, AfterProbe
  <2> QED
    BY <1>1, <1>2, <1>3, <1>4, <2>1, <2>2, <2>3 DEF FirmwareTypes
<1>6. CASE ~Recognised(ok)
  BY <1>2, <1>3, <1>4, <1>6 DEF Finish, EnumTypes, FirmwareTypes
<1> QED
  BY <1>5, <1>6

LEMMA SameFirmware ==
    ASSUME FirmwareTypes, tries' \in {tries, 0}, UNCHANGED <<strings, table>>
    PROVE  FirmwareTypes'
BY RetryAssumption DEF FirmwareTypes, table

LEMMA AgainTypes ==
    ASSUME EnumTypes, step \in Steps, NoAnswer PROVE FirmwareTypes'
<1>1. CASE Finish(FALSE)
  BY <1>1, FinishTypes
<1>2. CASE /\ tries + 1 < USB_RETRY_LIMIT /\ tries' = tries + 1
           /\ UNCHANGED <<strings, table>>
  BY <1>2, RetryAssumption DEF EnumTypes, FirmwareTypes, table
<1> QED
  BY <1>1, <1>2 DEF NoAnswer

\* One lemma for each side of an attempt.
LEMMA AttemptFirmware ==
    ASSUME EnumTypes, step \in Steps, NEW fate \in Fate, Attempt(fate)
    PROVE  FirmwareTypes'
<1>1. \/ \E ok \in BOOLEAN : Finish(ok)
      \/ NoAnswer
      \/ tries' \in {tries, 0} /\ UNCHANGED <<strings, table>>
  BY DEF Attempt, Setup, In, StatusIn, StatusOut
<1> QED
  BY <1>1, FinishTypes, AgainTypes, SameFirmware DEF EnumTypes

LEMMA AnswerType ==
    ASSUME EnumTypes PROVE Answer \in Nat
BY DeviceFacts DEF EnumTypes, DeviceTypes, Answer, Least

LEMMA AckTypes ==
    ASSUME EnumTypes, Acknowledged, UNCHANGED <<dev, asked, limit>>
    PROVE  sent' \in Nat /\ sent' <= Answer'
<1> DEFINE end == Least(sent + dev.mps, Answer)
<1>1. Answer \in Nat /\ sent \in Nat /\ sent <= Answer /\ dev.mps \in Nat
  BY AnswerType, DeviceFacts DEF EnumTypes, DeviceTypes
<1>2. end \in Nat /\ sent <= end /\ end <= Answer
  BY <1>1 DEF Least
<1> HIDE DEF end
<1>3. Len(Packet) = end - sent
  BY <1>1, <1>2, BytesSeq DEF Packet, end
<1>4. sent' = end
  BY <1>1, <1>2, <1>3 DEF Acknowledged
<1>5. Answer' = Answer
  BY DEF Answer
<1> QED
  BY <1>2, <1>4, <1>5

LEMMA AttemptDevice ==
    ASSUME EnumTypes, step \in Steps, NEW fate \in Fate, Attempt(fate)
    PROVE  DeviceTypes'
<1>1. dev' = dev
  BY DEF Attempt, Setup, In, StatusIn, StatusOut
<1>2. UNCHANGED <<asked, limit, sent>> => sent' \in Nat /\ sent' <= Answer'
  BY <1>1 DEF Answer, EnumTypes, DeviceTypes
<1>3. CASE Setup(fate)
  <2>1. UNCHANGED <<RCVDAVIRQ, devAddr, configured, bootProtocol>>
    BY <1>3 DEF Setup
  <2>2. CASE UNCHANGED endpoint
    BY <1>2, <2>1, <2>2 DEF endpoint, EnumTypes, DeviceTypes
  <2>3. CASE TakeSetup
    <3>1. asked' \in Named /\ limit' \in Nat /\ stage' \in {"data", "status"} /\ sent' = 0
      BY <2>3 DEF TakeSetup, Reading, EnumTypes, DeviceTypes, ReadInv
    <3>2. \A name \in Named : dev'.len[name] \in Nat
      BY <1>1, DeviceFacts DEF EnumTypes
    <3>3. Answer' \in Nat
      BY <3>1, <3>2 DEF Answer, Least
    <3> QED
      BY <2>1, <3>1, <3>3 DEF EnumTypes, DeviceTypes
  <2> QED
    BY <1>3, <2>2, <2>3 DEF Setup
<1>4. CASE In(fate)
  <2>1. UNCHANGED <<devAddr, configured, bootProtocol>>
    BY <1>4 DEF In
  <2>2. RCVDAVIRQ' \in BOOLEAN
    <3>1. RCVDAVIRQ' = RCVDAVIRQ \/ RCVDAVIRQ' \in {TRUE, Len(Packet) > 0}
      BY <1>4 DEF In, receiver
    <3>2. RCVDAVIRQ \in BOOLEAN
      BY DEF EnumTypes, DeviceTypes
    <3>3. (Len(Packet) > 0) \in BOOLEAN
      OBVIOUS
    <3> QED
      BY <3>1, <3>2, <3>3, Zenon
  <2>3. CASE UNCHANGED endpoint
    BY <1>2, <2>1, <2>2, <2>3 DEF endpoint, EnumTypes, DeviceTypes
  <2>4. CASE Acknowledged /\ UNCHANGED <<stage, asked, limit>>
    <3>1. sent' \in Nat /\ sent' <= Answer'
      BY <1>1, <2>4, AckTypes
    <3> QED
      BY <2>1, <2>2, <2>4, <3>1 DEF EnumTypes, DeviceTypes
  <2> QED
    BY <1>4, <2>3, <2>4 DEF In
<1>5. CASE StatusIn(fate)
  <2>1. UNCHANGED <<RCVDAVIRQ, asked, limit, sent>>
    BY <1>5 DEF StatusIn, receiver
  <2>2. /\ configured' \in BOOLEAN /\ bootProtocol' \in BOOLEAN
        /\ devAddr' \in {0, 1} /\ stage' \in {"idle", "data", "status"}
    BY <1>5 DEF StatusIn, CarryOut, EnumTypes, DeviceTypes
  <2> QED
    BY <1>2, <2>1, <2>2 DEF EnumTypes, DeviceTypes
<1>6. CASE StatusOut(fate)
  <2>1. UNCHANGED <<RCVDAVIRQ, asked, limit, sent, devAddr, configured, bootProtocol>>
    BY <1>6 DEF StatusOut, receiver
  <2>2. stage' \in {"idle", stage}
    BY <1>6 DEF StatusOut
  <2> QED
    BY <1>2, <2>1, <2>2 DEF EnumTypes, DeviceTypes
<1> QED
  BY <1>3, <1>4, <1>5, <1>6 DEF Attempt

LEMMA StepEnumTypes == EnumTypes /\ [CtrlNext]_ctrlVars => EnumTypes'
<1> SUFFICES ASSUME EnumTypes, [CtrlNext]_ctrlVars PROVE FirmwareTypes' /\ DeviceTypes'
  BY ControlInv, ReadStep DEF EnumTypes
<1>1. ASSUME NEW fate \in Fate, Attempt(fate) PROVE FirmwareTypes' /\ DeviceTypes'
  <2>1. step \in Steps
    BY <1>1 DEF Attempt, Setup, In, StatusIn, StatusOut, EnumTypes, EnumInv
  <2> QED
    BY <1>1, <2>1, AttemptFirmware, AttemptDevice
<1>2. CASE ReceivePacket
  <2>1. step \in Steps
    BY <1>2 DEF ReceivePacket, EnumTypes, EnumInv
  <2>2. FirmwareTypes'
    <3>1. \/ Finish(FALSE)
          \/ tries' = 0 /\ UNCHANGED <<strings, table>>
      BY <1>2 DEF ReceivePacket
    <3> QED
      BY <2>1, <3>1, FinishTypes, SameFirmware DEF EnumTypes
  <2>3. DeviceTypes'
    <3>1. /\ UNCHANGED <<dev, devAddr, stage, asked, limit, sent, configured, bootProtocol>>
          /\ RCVDAVIRQ' \in {FALSE, RCVDAVIRQ}
      BY <1>2 DEF ReceivePacket, device, endpoint
    <3>2. Answer' = Answer
      BY <3>1 DEF Answer
    <3> QED
      BY <3>1, <3>2 DEF EnumTypes, DeviceTypes
  <2> QED
    BY <2>2, <2>3
<1>3. ASSUME NEW d \in Devices, Attach(d) PROVE FirmwareTypes' /\ DeviceTypes'
  <2>1. FirmwareTypes'
    BY <1>3, RetryAssumption DEF Attach, EnumTypes, FirmwareTypes
  <2>2. /\ UNCHANGED <<RCVDAVIRQ, asked, limit>> /\ dev' = d /\ devAddr' = 0 /\ sent' = 0
        /\ stage' = "idle" /\ configured' = FALSE /\ bootProtocol' = FALSE
    BY <1>3 DEF Attach, receiver
  <2>3. d.len[asked] \in Nat
    BY DeviceAssumption DEF EnumTypes, DeviceTypes
  <2>4. Answer' \in Nat
    <3>1. Answer' = Least(limit, d.len[asked])
      BY <2>2 DEF Answer
    <3>2. limit \in Nat
      BY DEF EnumTypes, DeviceTypes
    <3> QED
      BY <2>3, <3>1, <3>2 DEF Least
  <2>5. sent' \in Nat /\ sent' <= Answer'
    BY <2>2, <2>4
  <2>6. /\ RCVDAVIRQ' \in BOOLEAN /\ asked' \in Named /\ limit' \in Nat
        /\ configured' \in BOOLEAN /\ bootProtocol' \in BOOLEAN
        /\ devAddr' \in {0, 1} /\ stage' \in {"idle", "data", "status"}
    BY <2>2 DEF EnumTypes, DeviceTypes
  <2> QED
    BY <2>1, <2>5, <2>6 DEF DeviceTypes
<1>4. CASE UNCHANGED ctrlVars
  <2>1. FirmwareTypes'
    BY <1>4, SameFirmware DEF ctrlVars, firmware, EnumTypes
  <2>2. UNCHANGED <<dev, devAddr, stage, asked, limit, sent, configured, bootProtocol,
                    RCVDAVIRQ>>
    BY <1>4 DEF ctrlVars, receiver, device, endpoint
  <2>3. Answer' = Answer
    BY <2>2 DEF Answer
  <2> QED
    BY <2>1, <2>2, <2>3 DEF EnumTypes, DeviceTypes
<1> QED
  BY <1>1, <1>2, <1>3, <1>4 DEF CtrlNext

\* For all devices, packet sizes and limits, every variable of the enumeration has
\* its type; the device never counts more bytes as received than it has to say,
\* although the acknowledgements of its packets may be lost (transfer.c).
THEOREM ControlTypes == CtrlSpec => [](CtrlTypes /\ sent <= Answer)
<1>1. CtrlInit => EnumTypes
  <2> SUFFICES ASSUME CtrlInit PROVE EnumTypes
    OBVIOUS
  <2>1. EnumInv
    BY DEF CtrlInit, EnumInv, Steps, Outcomes, Setting, Last, RunningIsReady
  <2>2. ReadInv
    BY SizeAssumption DEF CtrlInit, ReadInv
  <2>3. FirmwareTypes
    BY RetryAssumption DEF CtrlInit, FirmwareTypes
  <2>4. Answer \in Nat
    <3>1. dev.len["device"] \in Nat
      BY <2>2, DeviceFacts DEF Named
    <3>2. Answer = Least(0, dev.len["device"])
      BY DEF CtrlInit, Answer
    <3> QED
      BY <3>1, <3>2 DEF Least
  <2>5. DeviceTypes
    <3>1. sent = 0 /\ sent \in Nat /\ limit \in Nat /\ sent <= Answer
      BY <2>4 DEF CtrlInit
    <3>2. /\ RCVDAVIRQ \in BOOLEAN /\ configured \in BOOLEAN /\ bootProtocol \in BOOLEAN
          /\ devAddr \in {0, 1} /\ stage \in {"idle", "data", "status"} /\ asked \in Named
      BY DEF CtrlInit, Named
    <3> QED
      BY <3>1, <3>2 DEF DeviceTypes
  <2> QED
    BY <2>1, <2>2, <2>3, <2>5 DEF EnumTypes
<1>2. EnumTypes => CtrlTypes /\ sent <= Answer
  <2> SUFFICES ASSUME EnumTypes PROVE CtrlTypes /\ sent <= Answer
    OBVIOUS
  <2>1. step \in DOMAIN What \cup Outcomes
    BY DEF EnumTypes, EnumInv, Steps, What
  <2> QED
    BY <2>1 DEF CtrlTypes, EnumTypes, EnumInv, ReadInv, FirmwareTypes, DeviceTypes
<1> QED
  BY <1>1, <1>2, StepEnumTypes, PTL DEF CtrlSpec

=============================================================================
