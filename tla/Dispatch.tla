------------------------------ MODULE Dispatch ------------------------------
(***************************************************************************)
(* XferDispatchPkt of transfer.c: one packet is launched and its result    *)
(* awaited; a NAK or a bus timeout launches it again.  All attempts share  *)
(* one deadline, and the done bit HXFRDN of the chip carries nothing that  *)
(* says which packet it belongs to: an answer that comes after the         *)
(* deadline is taken for the answer to the next packet.                    *)
(*                                                                         *)
(* The clock is alt_nticks() * 1000 / alt_ticks_per_second(): the product  *)
(* overflows its 32 bits, so the clock jumps back to 0 every 4294967 ms.   *)
(* The deadline, the clock plus USB_XFER_TIMEOUT, does not: one beyond the *)
(* jump is never reached.                                                  *)
(***************************************************************************)
EXTENDS UsbLimits

CONSTANTS
    USB_XFER_TIMEOUT,   \* for all attempts of a call     (5000 ms)
    USB_NAK_LIMIT,      \* attempts that may be NAKed     (200)
    AttemptTime,        \* longest time of one attempt: of the chip, with the
                        \* firmware's loop around it, until the next launch
    Jumps               \* how long after a call the clock may jump

\* The clock does not jump before the deadline of the call.
NoJump == USB_XFER_TIMEOUT + 1

ASSUME LimitAssumption ==
    /\ USB_XFER_TIMEOUT \in Nat \ {0} /\ AttemptTime \in Nat \ {0}
    /\ USB_NAK_LIMIT \in Nat \ {0}
    /\ Jumps \subseteq 1 .. NoJump

\* HRSLT of an attempt; any other error is "error".
Result == {"success", "NAK", "TIMEOUT", "error"}

VARIABLES
    at,                         \* "idle" between two calls
    hung,                       \* the chip may stop, or be slow
    elapsed,                    \* since the call, up to USB_XFER_TIMEOUT
    jump,                       \* when the clock jumps
    nak_count, retry_count,
    rcode,                      \* of the last call; "ff" when its time is over
    own,                        \* rcode is of the packet launched last
    age,                        \* time since the last launch
    busy,                       \* the chip works on a packet
    hxfrdn, rslt,               \* it is done, with this result
    fresh                       \* rslt is of the packet launched last

counts == <<nak_count, retry_count>>
verdict == <<rcode, own>>
engine == <<busy, hxfrdn, rslt, fresh>>
dispatchVars == <<at, hung, elapsed, jump, counts, verdict, age, engine>>

PacketTypes ==
    /\ at \in {"idle", "launch", "wait", "read", "result"}
    /\ elapsed \in 0 .. USB_XFER_TIMEOUT /\ jump \in 1 .. NoJump
    /\ nak_count \in 0 .. USB_NAK_LIMIT /\ retry_count \in 0 .. USB_RETRY_LIMIT
    /\ rcode \in Result \cup {"ff"} /\ rslt \in Result
    /\ age \in 0 .. AttemptTime
    /\ hung \in BOOLEAN /\ own \in BOOLEAN /\ busy \in BOOLEAN
    /\ hxfrdn \in BOOLEAN /\ fresh \in BOOLEAN

-----------------------------------------------------------------------------

\* Slips that the definitions of the same names below could contain.
BugWait ==                      \* waits for the chip without a deadline
    /\ at = "wait"
    /\ at' = "read"
    /\ UNCHANGED <<hung, elapsed, jump, counts, verdict, age, engine>>

BugNaks(r) == nak_count         \* NAKs are not counted

BugRetries(r) ==                  \* NAKs and errors count as timeouts
    IF r = "success" THEN retry_count ELSE retry_count + 1

BugReadDone ==                  \* the done bit is not cleared
    /\ at = "read" /\ hxfrdn
    /\ at' = "result"
    /\ UNCHANGED <<hung, elapsed, jump, counts, verdict, age, engine>>

-----------------------------------------------------------------------------

\* The time that the firmware reads has reached the deadline.
Over == elapsed = USB_XFER_TIMEOUT /\ jump > elapsed

Naks(r) == IF r = "NAK" THEN nak_count + 1 ELSE nak_count
Retries(r) == IF r = "TIMEOUT" THEN retry_count + 1 ELSE retry_count

\* After this result the packet is launched again.
Again(r) ==
    \/ r = "NAK" /\ Naks(r) # USB_NAK_LIMIT
    \/ r = "TIMEOUT" /\ Retries(r) # USB_RETRY_LIMIT

Call ==
    /\ at = "idle"
    /\ at' = "launch"
    /\ elapsed' = 0 /\ jump' \in Jumps
    /\ nak_count' = 0 /\ retry_count' = 0
    /\ age' = 0
    /\ UNCHANGED <<hung, verdict, engine>>

\* Write of HXFR.  HXFRDN stays as it is.
Launch ==
    /\ at = "launch"
    /\ at' = "wait"
    /\ busy' = TRUE /\ fresh' = FALSE
    /\ age' = 0
    /\ UNCHANGED <<hung, elapsed, jump, counts, verdict, hxfrdn, rslt>>

\* The condition of the inner loop, read before HIRQ.
Wait ==
    /\ at = "wait"
    /\ IF Over
       THEN at' = "idle" /\ rcode' = "ff" /\ own' = FALSE
       ELSE at' = "read" /\ UNCHANGED verdict
    /\ UNCHANGED <<hung, elapsed, jump, counts, age, engine>>

ReadDone ==
    /\ at = "read" /\ hxfrdn
    /\ at' = "result"
    /\ hxfrdn' = FALSE
    /\ UNCHANGED <<hung, elapsed, jump, counts, verdict, age, busy, rslt, fresh>>

ReadNotDone ==
    /\ at = "read" /\ ~hxfrdn
    /\ at' = "wait"
    /\ UNCHANGED <<hung, elapsed, jump, counts, verdict, age, engine>>

\* Read of HRSL.
ReadResult ==
    /\ at = "result"
    /\ nak_count' = Naks(rslt) /\ retry_count' = Retries(rslt)
    /\ IF Again(rslt)
       THEN at' = "launch" /\ UNCHANGED verdict
       ELSE at' = "idle" /\ rcode' = rslt /\ own' = fresh
    /\ UNCHANGED <<hung, elapsed, jump, age, engine>>

\* The chip finishes the packet, however late.
ChipDone ==
    /\ busy
    /\ busy' = FALSE /\ hxfrdn' = TRUE /\ rslt' \in Result /\ fresh' = TRUE
    /\ UNCHANGED <<at, hung, elapsed, jump, counts, verdict, age>>

\* A millisecond; an attempt takes at most AttemptTime of them.  Time before the
\* call and after its deadline does not matter.
Tick ==
    /\ at # "idle"
    /\ elapsed < USB_XFER_TIMEOUT
    /\ hung \/ age < AttemptTime
    /\ elapsed' = elapsed + 1
    /\ age' = IF age < AttemptTime THEN age + 1 ELSE age
    /\ UNCHANGED <<at, hung, jump, counts, verdict, engine>>

PacketInit ==
    /\ at = "idle" /\ hung \in BOOLEAN
    /\ elapsed = 0 /\ jump = NoJump /\ age = 0
    /\ nak_count = 0 /\ retry_count = 0
    /\ rcode = "success" /\ own = TRUE
    /\ busy = FALSE /\ hxfrdn = FALSE /\ rslt = "success" /\ fresh = TRUE

XferDispatchPkt == Launch \/ Wait \/ ReadDone \/ ReadNotDone \/ ReadResult
PacketNext == Call \/ XferDispatchPkt \/ ChipDone \/ Tick

PacketSpec == PacketInit /\ [][PacketNext]_dispatchVars

\* The firmware is one thread that nothing stops, and the timer runs; the chip
\* answers, unless it is hung.
PacketFairSpec ==
    /\ PacketSpec
    /\ WF_dispatchVars(XferDispatchPkt) /\ WF_dispatchVars(Tick)
    /\ WF_dispatchVars(~hung /\ ChipDone)

-----------------------------------------------------------------------------

\* If every attempt is short enough for all those that the limits allow, no
\* call runs out of time before its limits are used up.
NeverLate == at = "idle" /\ ~hung => rcode # "ff"

\* Then the result of a call is that of its own packet, never a late answer to
\* an earlier one (HXFRDN is the same bit for all).
OwnAnswer == at = "idle" /\ ~hung => own

\* Every call returns, even if the chip never does anything again: the purpose
\* of the deadline.  So it is as long as the clock does not jump before it.
Returns == at # "idle" /\ jump = NoJump ~> at = "idle"

\* The comment on XferDispatchPkt promises it of all calls: "0xff means
\* timeout".
TimesOut == at # "idle" ~> at = "idle"
=============================================================================
