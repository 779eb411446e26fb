------------------------------ MODULE JtagUart ------------------------------
(***************************************************************************)
(* The interrupt driven JTAG UART driver behind stdin, stdout and stderr:  *)
(* the calls of the main program, the interrupt routine that moves bytes   *)
(* between two ring buffers and the FIFOs of the core, and the alarm that  *)
(* watches every second whether a host is there.  There is no operating    *)
(* system, so the calls wait by spinning; the interrupt routine runs to    *)
(* its end, between any two steps of a call.                               *)
(*                                                                         *)
(* The program's output and the host's input are streams of bytes numbered *)
(* modulo Stamps; a caller goes on after the bytes a call says it took.    *)
(***************************************************************************)
EXTENDS Integers, Sequences

CONSTANTS
    BufLen,           \* ALTERA_AVALON_JTAG_UART_BUF_LEN
    DefaultTimeout,   \* ALTERA_AVALON_JTAG_UART_DEFAULT_TIMEOUT
    IntMax,           \* INT_MAX
    FifoLen,          \* depth of the FIFOs of the core
    Threshold,        \* WI is raised when no more bytes are left in its FIFO
    Counts,           \* numbers of bytes in a call
    Timeouts,         \* arguments of TIOCSTIMEOUT
    Stamps

ASSUME BufferAssumption == BufLen \in Nat /\ BufLen > 1
ASSUME FifoAssumption ==
    FifoLen \in Nat /\ Threshold \in Nat /\ Threshold < FifoLen
ASSUME TimeoutAssumption ==
    /\ IntMax \in Nat /\ DefaultTimeout \in 2 .. IntMax - 2
    /\ Timeouts \subseteq Int
ASSUME CallAssumption == Counts \subseteq Nat /\ Stamps \in Nat \ {0}

VARIABLES
    tx, rx,           \* the two rings: in, out and buf
    irq_enable,       \* interrupts enabled in the control register
    host_inactive,    \* seconds since the host was last seen
    timeout,          \* host_inactive from which the host counts as gone
    pc, op,           \* where the main program is, and in which call
    nonblock,         \* O_NONBLOCK of that call
    left, done,       \* bytes still to move, bytes moved (ptr - start)
    seen,             \* the local copy of the pointer the interrupt moves
    txFifo, rxFifo,   \* the FIFOs of the core
    attached,         \* a host is connected
    sent, typed,      \* the last byte a call took, the last byte typed
    took, got         \* the last bytes the host and a reader received

rings == <<tx, rx, irq_enable>>
presence == <<host_inactive, timeout>>
call == <<op, nonblock, left, done, seen, sent>>
main == <<pc, call>>
core == <<txFifo, rxFifo, attached, typed, took>>
vars == <<rings, presence, main, core, got>>

(***************************************************************************)
(* Rings.  in = out is empty, so a full ring holds BufLen - 1 bytes.       *)
(***************************************************************************)
\* i % ALTERA_AVALON_JTAG_UART_BUF_LEN, for the sums that occur.
Wrap(i) == IF i >= BufLen THEN i - BufLen ELSE i

Used(r) == IF r.in >= r.out THEN r.in - r.out ELSE BufLen - r.out + r.in
Slice(r, n) == [i \in 1..n |-> r.buf[Wrap(r.out + i - 1)]]
Contents(r) == Slice(r, Used(r))

Fill(r, s) ==
    [in  |-> Wrap(r.in + Len(s)),
     out |-> r.out,
     buf |-> [i \in 0 .. BufLen - 1 |->
                LET k == (IF i >= r.in THEN i - r.in ELSE BufLen - r.in + i) + 1
                IN  IF k <= Len(s) THEN s[k] ELSE r.buf[i]]]

Drain(r, n) == [r EXCEPT !.out = Wrap(r.out + n)]

BugRoom(in, out) == IF in < out THEN out - 1 - in ELSE BufLen - in

\* How far a call may copy without wrapping, given the interrupt's pointer.
Room(in, out) ==
    IF in < out THEN out - 1 - in
    ELSE IF out > 0 THEN BufLen - in ELSE BufLen - 1 - in
Available(in, out) == IF in >= out THEN in - out ELSE BufLen - out

Least(a, b) == IF a < b THEN a ELSE b


(***************************************************************************)
(* altera_avalon_jtag_uart_write                                           *)
(***************************************************************************)
WriteCopy ==      \* a stable value of tx_out
    /\ pc = "copy"
    /\ IF left = 0
       THEN pc' = "kick" /\ UNCHANGED seen
       ELSE /\ seen' = tx.out
            /\ pc' = IF Room(tx.in, tx.out) = 0 THEN "kick" ELSE "commit"
    /\ UNCHANGED <<rings, presence, core, got, op, nonblock, left, done, sent>>

BugCommit ==
    /\ pc = "commit"
    /\ LET n == Least(Room(tx.in, seen), left)
       IN  /\ tx' = Fill(tx, [i \in 1..n |-> (sent + i) % Stamps])
           /\ left' = left - n /\ done' = done + n
    /\ pc' = "copy"
    /\ UNCHANGED <<rx, irq_enable, presence, core, got, op, nonblock, seen, sent>>

WriteCommit ==    \* memcpy, then tx_in
    /\ pc = "commit"
    /\ LET n == Least(Room(tx.in, seen), left)
       IN  /\ tx' = Fill(tx, [i \in 1..n |-> (sent + done + i) % Stamps])
           /\ left' = left - n /\ done' = done + n
    /\ pc' = "copy"
    /\ UNCHANGED <<rx, irq_enable, presence, core, got, op, nonblock, seen, sent>>

BugKick ==
    /\ pc = "kick"
    /\ irq_enable' = IF left > 0 THEN irq_enable \cup {"WE"} ELSE irq_enable
    /\ pc' = IF left > 0 /\ ~nonblock THEN "wait" ELSE "return"
    /\ UNCHANGED <<tx, rx, presence, call, core, got>>

WriteKick ==
    /\ pc = "kick"
    /\ irq_enable' = irq_enable \cup {"WE"}
    /\ pc' = IF left > 0 /\ ~nonblock THEN "wait" ELSE "return"
    /\ UNCHANGED <<tx, rx, presence, call, core, got>>

BugWait ==
    /\ pc = "wait" /\ tx.out # seen
    /\ pc' = "check"
    /\ UNCHANGED <<rings, presence, call, core, got>>

WriteWait ==
    /\ pc = "wait" /\ ~(tx.out = seen /\ host_inactive < timeout)
    /\ pc' = "check"
    /\ UNCHANGED <<rings, presence, call, core, got>>

WriteCheck ==
    /\ pc = "check"
    /\ pc' = IF host_inactive # 0 THEN "return" ELSE "copy"
    /\ UNCHANGED <<rings, presence, call, core, got>>

(***************************************************************************)
(* altera_avalon_jtag_uart_read                                            *)
(***************************************************************************)
ReadFetch ==
    /\ pc = "fetch"
    /\ seen' = rx.in
    /\ pc' = IF Available(rx.in, rx.out) > 0 THEN "take"
             ELSE IF done > 0 THEN "rearm"
             ELSE IF nonblock THEN "return" ELSE "rwait"
    /\ UNCHANGED <<rings, presence, core, got, op, nonblock, left, done, sent>>

ReadTake ==
    /\ pc = "take"
    /\ LET n == Least(Available(seen, rx.out), left)
       IN  /\ got' = Slice(rx, n)
           /\ rx' = Drain(rx, n)
           /\ left' = left - n /\ done' = done + n
           /\ pc' = IF left = n THEN "rearm" ELSE "fetch"
    /\ UNCHANGED <<tx, irq_enable, presence, core, op, nonblock, seen, sent>>

BugReadWait ==
    /\ pc = "rwait" /\ host_inactive >= timeout
    /\ pc' = "rcheck"
    /\ UNCHANGED <<rings, presence, call, core, got>>

ReadWait ==
    /\ pc = "rwait" /\ ~(rx.in = seen /\ host_inactive < timeout)
    /\ pc' = "rcheck"
    /\ UNCHANGED <<rings, presence, call, core, got>>

ReadCheck ==
    /\ pc = "rcheck"
    /\ pc' = IF rx.in = seen THEN "return" ELSE "fetch"
    /\ UNCHANGED <<rings, presence, call, core, got>>

BugRearm ==
    /\ pc = "rearm"
    /\ irq_enable' = IF left = 0 THEN irq_enable \cup {"RE"} ELSE irq_enable
    /\ pc' = "return"
    /\ UNCHANGED <<tx, rx, presence, call, core, got>>

ReadRearm ==
    /\ pc = "rearm"
    /\ irq_enable' = irq_enable \cup {"RE"}
    /\ pc' = "return"
    /\ UNCHANGED <<tx, rx, presence, call, core, got>>

(***************************************************************************)
(* Close, ioctl, and the calls and returns of the main program.            *)
(***************************************************************************)
Close ==
    /\ pc = "close"
    /\ tx.out = tx.in \/ host_inactive >= timeout \/ nonblock
    /\ pc' = "return"
    /\ UNCHANGED <<rings, presence, call, core, got>>

\* TIOCSTIMEOUT.
NewTimeout(arg) == IF arg >= 2 /\ arg < IntMax THEN arg ELSE IntMax - 1

SetTimeout ==
    /\ pc = "idle" /\ timeout # IntMax
    /\ \E arg \in Timeouts : timeout' = NewTimeout(arg)
    /\ UNCHANGED <<rings, host_inactive, main, core, got>>

Call ==
    /\ pc = "idle"
    /\ nonblock' \in BOOLEAN
    /\ \/ op' = "write" /\ left' \in Counts /\ pc' = "copy"
       \/ /\ op' = "read" /\ left' \in Counts
          /\ pc' = IF left' = 0 THEN "return" ELSE "fetch"
       \/ op' = "close" /\ left' = 0 /\ pc' = "close"
    /\ done' = 0 /\ seen' = 0
    /\ UNCHANGED <<rings, presence, core, got, sent>>

\* The caller learns done, or that the call would block or failed.
Return ==
    /\ pc = "return" /\ pc' = "idle"
    /\ sent' = IF op = "write" THEN (sent + done) % Stamps ELSE sent
    /\ op' = "none" /\ nonblock' = FALSE /\ left' = 0 /\ done' = 0 /\ seen' = 0
    /\ UNCHANGED <<rings, presence, core, got>>

Step ==
    \/ WriteCopy \/ WriteCommit \/ WriteKick \/ WriteWait \/ WriteCheck
    \/ ReadFetch \/ ReadTake \/ ReadWait \/ ReadCheck \/ ReadRearm
    \/ Close \/ Return

(***************************************************************************)
(* altera_avalon_jtag_uart_irq: one pass for each condition it finds in    *)
(* the control register.                                                   *)
(***************************************************************************)
BugReadIrq ==
    /\ "RE" \in irq_enable /\ rxFifo # <<>>
    /\ rx' = Fill(rx, rxFifo) /\ rxFifo' = <<>>
    /\ UNCHANGED <<tx, irq_enable, presence, main, txFifo, attached, typed, took, got>>

ReadIrq ==
    /\ "RE" \in irq_enable /\ rxFifo # <<>>
    /\ LET n == Least(BufLen - 1 - Used(rx), Len(rxFifo))
       IN  /\ rx' = Fill(rx, SubSeq(rxFifo, 1, n))
           /\ rxFifo' = SubSeq(rxFifo, n + 1, Len(rxFifo))
           /\ irq_enable' = IF n < Len(rxFifo) THEN irq_enable \ {"RE"}
                            ELSE irq_enable
    /\ UNCHANGED <<tx, presence, main, txFifo, attached, typed, took, got>>

WriteIrq ==
    /\ "WE" \in irq_enable /\ Len(txFifo) <= Threshold
    /\ LET space == FifoLen - Len(txFifo)
           n == Least(space, Used(tx))
       IN  /\ tx' = Drain(tx, n)
           /\ txFifo' = txFifo \o Slice(tx, n)
           /\ irq_enable' = IF n < space THEN irq_enable \ {"WE"} ELSE irq_enable
    /\ UNCHANGED <<rx, presence, main, rxFifo, attached, typed, took, got>>

(***************************************************************************)
(* altera_avalon_jtag_uart_timeout, once a second.  The core's activity    *)
(* bit is set again by the polls of an attached host.                      *)
(***************************************************************************)
Alarm ==
    /\ host_inactive' = IF attached THEN 0
                        ELSE IF host_inactive < IntMax - 2 THEN host_inactive + 1
                        ELSE host_inactive
    /\ UNCHANGED <<rings, timeout, main, core, got>>

(***************************************************************************)
(* The host.                                                               *)
(***************************************************************************)
HostTake ==
    /\ attached /\ txFifo # <<>>
    /\ took' = SubSeq(txFifo, 1, 1)
    /\ txFifo' = Tail(txFifo)
    /\ UNCHANGED <<rings, presence, main, rxFifo, attached, typed, got>>

HostType ==
    /\ attached /\ Len(rxFifo) < FifoLen
    /\ typed' = (typed + 1) % Stamps
    /\ rxFifo' = Append(rxFifo, typed')
    /\ UNCHANGED <<rings, presence, main, txFifo, attached, took, got>>

HostComesAndGoes ==
    /\ attached' = ~attached
    /\ UNCHANGED <<rings, presence, main, txFifo, rxFifo, typed, took, got>>

(***************************************************************************)
(* altera_avalon_jtag_uart_init, on state that starts out as zero.         *)
(***************************************************************************)
EmptyRing == [in |-> 0, out |-> 0, buf |-> [i \in 0 .. BufLen - 1 |-> 0]]

Init ==
    /\ tx = EmptyRing /\ rx = EmptyRing
    /\ irq_enable = {"RE"}
    /\ host_inactive = 0 /\ timeout = DefaultTimeout
    /\ pc = "idle" /\ op = "none" /\ nonblock = FALSE
    /\ left = 0 /\ done = 0 /\ seen = 0
    /\ txFifo = <<>> /\ rxFifo = <<>> /\ attached \in BOOLEAN
    /\ sent = 0 /\ typed = 0 /\ took = <<>> /\ got = <<>>

Next ==
    \/ Step \/ Call \/ SetTimeout \/ ReadIrq \/ WriteIrq \/ Alarm
    \/ HostTake \/ HostType \/ HostComesAndGoes

Spec == Init /\ [][Next]_vars

Ring ==
    [in : 0 .. BufLen - 1, out : 0 .. BufLen - 1,
     buf : [0 .. BufLen - 1 -> 0 .. Stamps - 1]]

RingsOK == tx \in Ring /\ rx \in Ring /\ irq_enable \subseteq {"RE", "WE"}

PresenceOK == host_inactive \in 0 .. IntMax - 2 /\ timeout \in 2 .. IntMax - 1

MainOK ==
    /\ pc \in {"idle", "copy", "commit", "kick", "wait", "check", "fetch",
               "take", "rwait", "rcheck", "rearm", "close", "return"}
    /\ op \in {"none", "write", "read", "close"} /\ nonblock \in BOOLEAN
    /\ left \in Nat /\ done \in Nat
    /\ seen \in 0 .. BufLen - 1 /\ sent \in 0 .. Stamps - 1

CoreOK ==
    /\ txFifo \in Seq(0 .. Stamps - 1) /\ Len(txFifo) <= FifoLen
    /\ rxFifo \in Seq(0 .. Stamps - 1) /\ Len(rxFifo) <= FifoLen
    /\ attached \in BOOLEAN /\ typed \in 0 .. Stamps - 1

\* The pointers stay inside their rings, the FIFOs hold no more than they can,
\* and host_inactive stops short of the timeout that stands for "for ever".
TypeOK == RingsOK /\ PresenceOK /\ MainOK /\ CoreOK

\* What a call is about to copy, worked out from a pointer that the interrupt
\* may have moved since, is room that is free and bytes that are there.
StaleIsSafe ==
    /\ pc = "commit" => Room(tx.in, seen) \in 1 .. BufLen - 1 - Used(tx)
    /\ pc = "take" => Available(seen, rx.out) \in 1 .. Used(rx)

\* Bytes wait in the output ring only while their interrupt is enabled, or the
\* call that put them there is about to enable it: no output is stranded.
TxArmed ==
    tx.in # tx.out => "WE" \in irq_enable \/ pc \in {"copy", "commit", "kick"}

\* The input interrupt is off only while the ring holds bytes for a reader, or
\* a reader has emptied it and is about to enable the interrupt again: typed
\* input cannot lock itself out.
RxArmed ==
    \/ "RE" \in irq_enable \/ rx.in # rx.out
    \/ pc \in {"fetch", "take", "rearm"} /\ done > 0

\* The interrupt routine switches both of its interrupts off by itself, and only
\* the calls switch them on: neither direction is ever left waiting for them.
Armed == TxArmed /\ RxArmed

(***************************************************************************)
(* What the driver promises: two pipes, from the calls to the host and     *)
(* from the host to the calls.                                             *)
(***************************************************************************)
OutPipe ==
    INSTANCE Pipe WITH
        Capacity <- BufLen - 1 + FifoLen,
        q <- txFifo \o Contents(tx), given <- took,
        sent <- IF op = "write" THEN (sent + done) % Stamps ELSE sent

InPipe ==
    INSTANCE Pipe WITH
        Capacity <- BufLen - 1 + FifoLen,
        q <- Contents(rx) \o rxFifo, given <- got, sent <- typed

\* What the program writes gets to the host, once and in order, through the
\* ring and the FIFO, for calls that block and calls that do not, and although a
\* call copies on the strength of a pointer that the interrupt routine moves.
OutputInOrder == OutPipe!Spec

\* The same for what the host types: a full ring stops the interrupt, no byte is
\* taken from the FIFO that has no room.
InputInOrder == InPipe!Spec

\* Neither direction loses, repeats or reorders a byte, whichever step of a call
\* the interrupts of both directions fall between.
BytesInOrder == OutputInOrder /\ InputInOrder

=============================================================================
