------------------------------ MODULE HalProofs ------------------------------
(***************************************************************************)
(* Facts about the board support package.  The driver of the JTAG UART,    *)
(* for rings, FIFOs and calls of every size: a pointer that has gone stale *)
(* never makes a call overrun or underrun its ring, neither interrupt is   *)
(* left disabled with bytes to move, and the driver implements two pipes.  *)
(* The clock, for a counter of every width and every delay and period that *)
(* fits it: alarms are called back on the tick they asked for, and the     *)
(* time of day follows the wall clock until the counter wraps.             *)
(***************************************************************************)
EXTENDS JtagUart, MCHalClock, SequenceTheorems, TLAPS

Byte == 0 .. Stamps - 1

USE BufferAssumption, FifoAssumption, TimeoutAssumption, CallAssumption

LEMMA StampType == \A i \in Int : i % Stamps \in Byte
  BY SMT DEF Byte

LEMMA UsedType == \A r \in Ring : Used(r) \in 0 .. BufLen - 1
  <1> TAKE r \in Ring
  <1>1. r.in \in 0 .. BufLen - 1 /\ r.out \in 0 .. BufLen - 1
    BY DEF Ring
  <1> QED BY <1>1, SMT DEF Used

\* The places in use between two pointers, and what moving the first one adds,
\* if it does not pass the other.
Span(i, o) == IF i >= o THEN i - o ELSE BufLen - o + i

LEMMA MoveOn ==
    \A i, o \in 0 .. BufLen - 1, n \in Nat :
        n <= BufLen - 1 - Span(i, o) =>
            /\ Wrap(i + n) \in 0 .. BufLen - 1
            /\ Span(Wrap(i + n), o) = Span(i, o) + n
            /\ Wrap(i + n) = o => n = 0 /\ i = o
BY BufferAssumption, SMT DEF Wrap, Span

\* Filling a ring adds what was put in, and moves only its in pointer.
LEMMA FillRing ==
    ASSUME NEW r \in Ring, NEW s \in Seq(Byte), Len(s) <= BufLen - 1 - Used(r)
    PROVE  /\ Fill(r, s) \in Ring
           /\ Fill(r, s).out = r.out
           /\ Used(Fill(r, s)) = Used(r) + Len(s)
           /\ Fill(r, s).in = r.out => Len(s) = 0 /\ r.in = r.out
  <1>0. r.in \in 0 .. BufLen - 1 /\ r.out \in 0 .. BufLen - 1 /\ BufLen \in Nat
    BY BufferAssumption DEF Ring
  <1>1. Len(s) \in Nat
    OBVIOUS
  <1>2. Used(r) = Span(r.in, r.out)
    BY Zenon DEF Used, Span
  <1>a. /\ Wrap(r.in + Len(s)) \in 0 .. BufLen - 1
        /\ Span(Wrap(r.in + Len(s)), r.out) = Used(r) + Len(s)
        /\ Wrap(r.in + Len(s)) = r.out => Len(s) = 0 /\ r.in = r.out
    <2>1. Len(s) <= BufLen - 1 - Span(r.in, r.out)
      BY <1>2, Zenon
    <2>2. /\ Wrap(r.in + Len(s)) \in 0 .. BufLen - 1
          /\ Span(Wrap(r.in + Len(s)), r.out) = Span(r.in, r.out) + Len(s)
          /\ Wrap(r.in + Len(s)) = r.out => Len(s) = 0 /\ r.in = r.out
      BY <1>0, <1>1, <2>1, MoveOn, SMT
    <2> QED
      BY <1>2, <2>2, Zenon
  <1>3. ASSUME NEW i \in 0 .. BufLen - 1,
               NEW k, k = (IF i >= r.in THEN i - r.in ELSE BufLen - r.in + i) + 1
        PROVE  (IF k <= Len(s) THEN s[k] ELSE r.buf[i]) \in Byte
    <2>1. k \in 1 .. BufLen
      BY <1>0, <1>3, SMT
    <2>2. r.buf[i] \in Byte
      BY DEF Ring, Byte
    <2> QED BY <1>1, <2>1, <2>2, SMT
  <1>4. [i \in 0 .. BufLen - 1 |->
           LET k == (IF i >= r.in THEN i - r.in ELSE BufLen - r.in + i) + 1
           IN  IF k <= Len(s) THEN s[k] ELSE r.buf[i]]
          \in [0 .. BufLen - 1 -> 0 .. Stamps - 1]
    BY <1>3 DEF Byte
  <1>5. Fill(r, s) \in Ring
    BY <1>a, <1>4 DEF Fill, Ring
  <1>6. Fill(r, s).out = r.out /\ Fill(r, s).in = Wrap(r.in + Len(s))
    BY DEF Fill
  <1>7. Used(Fill(r, s)) = Span(Fill(r, s).in, Fill(r, s).out)
    BY Zenon DEF Used, Span
  <1> HIDE DEF Fill
  <1> QED BY <1>a, <1>5, <1>6, <1>7, Zenon

\* Draining a ring takes away what was taken, and moves only its out pointer.
LEMMA DrainRing ==
    ASSUME NEW r \in Ring, NEW n \in 0 .. Used(r)
    PROVE  /\ Drain(r, n) \in Ring
           /\ Drain(r, n).in = r.in
           /\ Used(Drain(r, n)) = Used(r) - n
           /\ n = Used(r) <=> Drain(r, n).in = Drain(r, n).out
  <1>0. r.in \in 0 .. BufLen - 1 /\ r.out \in 0 .. BufLen - 1 /\ BufLen \in Nat
    BY BufferAssumption DEF Ring
  <1>1. n \in Nat /\ Used(r) \in 0 .. BufLen - 1
    BY <1>0, SMT DEF Used
  <1>2. Wrap(r.out + n) \in 0 .. BufLen - 1
    BY <1>0, <1>1, SMT DEF Wrap
  <1>3. Drain(r, n).in = r.in /\ Drain(r, n).out = Wrap(r.out + n)
    BY DEF Drain, Ring
  <1>4. Drain(r, n) \in Ring
    BY <1>2 DEF Drain, Ring
  <1> QED BY <1>0, <1>1, <1>3, <1>4, SMT DEF Wrap, Used

\* A slice of a ring is a sequence of bytes of the length asked for.
LEMMA SliceType ==
    ASSUME NEW r \in Ring, NEW n \in 0 .. Used(r)
    PROVE  Slice(r, n) \in Seq(Byte) /\ Len(Slice(r, n)) = n
  <1>0. r.in \in 0 .. BufLen - 1 /\ r.out \in 0 .. BufLen - 1 /\ BufLen \in Nat
    BY BufferAssumption DEF Ring
  <1>1. Used(r) \in 0 .. BufLen - 1
    BY <1>0, SMT DEF Used
  <1>2. \A i \in 1 .. n : Wrap(r.out + i - 1) \in 0 .. BufLen - 1
    BY <1>0, <1>1, SMT DEF Wrap
  <1>3. \A i \in 1 .. n : r.buf[Wrap(r.out + i - 1)] \in Byte
    BY <1>2 DEF Ring, Byte
  <1>4. Slice(r, n) = [i \in 1 .. n |-> r.buf[Wrap(r.out + i - 1)]]
    BY DEF Slice
  <1>5. n \in Nat
    BY <1>1
  <1> QED BY <1>3, <1>4, <1>5, SMT

\* A call that is to move bytes has some left to move.
Moving == pc \in {"commit", "fetch", "take", "rwait", "rcheck"} => left > 0

IInv == TypeOK /\ Moving /\ StaleIsSafe /\ TxArmed /\ RxArmed

LEMMA InitIInv == Init => IInv
  <1> SUFFICES ASSUME Init PROVE IInv
    OBVIOUS
  <1>1. EmptyRing \in Ring
    BY SMT DEF EmptyRing, Ring
  <1>2. RingsOK
    BY <1>1 DEF Init, RingsOK
  <1>3. PresenceOK
    BY SMT DEF Init, PresenceOK
  <1>4. MainOK
    <2>1. 0 \in 0 .. BufLen - 1 /\ 0 \in 0 .. Stamps - 1 /\ 0 \in Nat
      BY SMT
    <2> QED BY <2>1 DEF Init, MainOK
  <1>5. CoreOK
    BY SMT DEF Init, CoreOK
  <1> QED BY <1>2, <1>3, <1>4, <1>5
         DEF Init, IInv, TypeOK, Moving, StaleIsSafe, TxArmed, RxArmed, EmptyRing

\* The calls of the main program.
LEMMA WriteKeepsIInv ==
    ASSUME IInv, WriteCopy \/ WriteCommit \/ WriteKick \/ WriteWait \/ WriteCheck
    PROVE  IInv'
  <1> USE DEF IInv, TypeOK
  <1>a. PresenceOK' /\ CoreOK'
    BY DEF WriteCopy, WriteCommit, WriteKick, WriteWait, WriteCheck,
           PresenceOK, CoreOK, presence, core
  <1>1. CASE WriteCopy
    <2>1. RingsOK'
      BY <1>1 DEF WriteCopy, RingsOK, rings
    <2>2. tx.in \in 0 .. BufLen - 1 /\ tx.out \in 0 .. BufLen - 1
      BY DEF RingsOK, Ring
    <2>3. MainOK'
      BY <1>1, <2>2, SMT DEF WriteCopy, MainOK
    <2>4. pc' = "commit" => seen' = tx.out /\ Room(tx.in, tx.out) # 0 /\ left # 0
      BY <1>1 DEF WriteCopy
    <2>5. pc' = "commit" => Room(tx.in, seen') \in 1 .. BufLen - 1 - Used(tx)
      BY <2>2, <2>4, SMT DEF Room, Used
    <2> QED BY <1>1, <1>a, <2>1, <2>3, <2>4, <2>5
           DEF WriteCopy, Moving, StaleIsSafe, TxArmed, RxArmed, MainOK, rings
  <1>2. CASE WriteCommit
    <2> DEFINE n == Least(Room(tx.in, seen), left)
               s == [i \in 1..n |-> (sent + done + i) % Stamps]
    <2>1. /\ Room(tx.in, seen) \in 1 .. BufLen - 1 - Used(tx)
          /\ left \in Nat /\ left > 0 /\ done \in Nat /\ sent \in Nat
      BY <1>2 DEF WriteCommit, StaleIsSafe, Moving, MainOK
    <2>2. n \in 1 .. BufLen - 1 - Used(tx) /\ left - n \in Nat /\ done + n \in Nat
      <3>1. Used(tx) \in 0 .. BufLen - 1
        BY UsedType DEF RingsOK
      <3>2. n = left \/ n = Room(tx.in, seen)
        BY DEF Least
      <3>3. n <= left /\ n <= Room(tx.in, seen)
        BY <2>1, SMT DEF Least
      <3> QED BY <2>1, <3>1, <3>2, <3>3, SMT
    <2>3. \A i \in 1 .. n : (sent + done + i) % Stamps \in Byte
      <3> TAKE i \in 1 .. n
      <3>1. sent + done + i \in Int
        BY <2>1, <2>2
      <3> QED BY <3>1, StampType
    <2>4. s \in Seq(Byte) /\ Len(s) = n
      <3>1. n \in Nat
        BY <2>2
      <3> QED BY <2>3, <3>1, SMT
    <2>5. tx' = Fill(tx, s) /\ left' = left - n /\ done' = done + n
      BY <1>2 DEF WriteCommit
    <2>6. RingsOK'
      BY <1>2, <2>2, <2>4, <2>5, FillRing DEF WriteCommit, RingsOK
    <2>7. MainOK'
      BY <1>2, <2>2, <2>5 DEF WriteCommit, MainOK
    <2> QED BY <1>2, <1>a, <2>6, <2>7
           DEF WriteCommit, Moving, StaleIsSafe, TxArmed, RxArmed
  <1>3. CASE WriteKick
    <2>1. RingsOK' /\ MainOK'
      BY <1>3 DEF WriteKick, RingsOK, MainOK, call
    <2> QED BY <1>3, <1>a, <2>1
           DEF WriteKick, Moving, StaleIsSafe, TxArmed, RxArmed, call
  <1>4. CASE WriteWait \/ WriteCheck
    <2>1. RingsOK' /\ MainOK'
      BY <1>4 DEF WriteWait, WriteCheck, RingsOK, MainOK, rings, call
    <2>2. pc' \in {"check", "return", "copy"} /\ pc \in {"wait", "check"}
      BY <1>4 DEF WriteWait, WriteCheck
    <2>3. UNCHANGED <<rings, call>>
      BY <1>4 DEF WriteWait, WriteCheck
    <2> QED BY <1>a, <2>1, <2>2, <2>3
           DEF Moving, StaleIsSafe, TxArmed, RxArmed, call, rings
  <1> QED BY <1>1, <1>2, <1>3, <1>4

LEMMA ReadKeepsIInv ==
    ASSUME IInv, ReadFetch \/ ReadTake \/ ReadWait \/ ReadCheck \/ ReadRearm
    PROVE  IInv'
  <1> USE DEF IInv, TypeOK
  <1>a. PresenceOK' /\ CoreOK'
    BY DEF ReadFetch, ReadTake, ReadWait, ReadCheck, ReadRearm,
           PresenceOK, CoreOK, presence, core
  <1>1. CASE ReadFetch
    <2>1. RingsOK'
      BY <1>1 DEF ReadFetch, RingsOK, rings
    <2>2. rx.in \in 0 .. BufLen - 1 /\ rx.out \in 0 .. BufLen - 1
      BY DEF RingsOK, Ring
    <2>3. MainOK'
      BY <1>1, <2>2, SMT DEF ReadFetch, MainOK
    <2>4. Available(rx.in, rx.out) > 0 =>
            Available(rx.in, rx.out) \in 1 .. Used(rx)
      BY <2>2, SMT DEF Available, Used
    <2>5. rx.in = rx.out => ~(Available(rx.in, rx.out) > 0)
      BY <2>2, SMT DEF Available
    <2>6. /\ seen' = rx.in /\ UNCHANGED <<tx, rx, irq_enable, left, done>>
          /\ pc = "fetch" /\ pc' \in {"take", "rearm", "return", "rwait"}
          /\ pc' = "take" => Available(rx.in, rx.out) > 0
          /\ done > 0 => pc' \in {"take", "rearm"}
      BY <1>1 DEF ReadFetch, rings
    <2>7. StaleIsSafe' /\ Moving'
      BY <2>4, <2>6 DEF StaleIsSafe, Moving
    <2> QED BY <1>a, <2>1, <2>3, <2>6, <2>7 DEF TxArmed, RxArmed
  <1>2. CASE ReadTake
    <2> DEFINE n == Least(Available(seen, rx.out), left)
    <2>1. /\ Available(seen, rx.out) \in 1 .. Used(rx)
          /\ left \in Nat /\ left > 0 /\ done \in Nat
      BY <1>2 DEF ReadTake, StaleIsSafe, Moving, MainOK
    <2>2. n \in 1 .. Used(rx) /\ left - n \in Nat /\ done + n \in Nat
          /\ done + n > 0 /\ (left # n => left - n > 0)
      <3>1. Used(rx) \in 0 .. BufLen - 1
        BY UsedType DEF RingsOK
      <3>2. n = left \/ n = Available(seen, rx.out)
        BY DEF Least
      <3>3. n <= left /\ n <= Available(seen, rx.out)
        BY <2>1, SMT DEF Least
      <3> QED BY <2>1, <3>1, <3>2, <3>3, SMT
    <2>3. /\ rx' = Drain(rx, n) /\ left' = left - n /\ done' = done + n
          /\ pc' = IF left = n THEN "rearm" ELSE "fetch"
      BY <1>2 DEF ReadTake
    <2>4. n \in 0 .. Used(rx)
      BY <2>2, UsedType, SMT DEF RingsOK
    <2>5. RingsOK'
      BY <1>2, <2>3, <2>4, DrainRing DEF ReadTake, RingsOK
    <2>6. MainOK'
      BY <1>2, <2>2, <2>3 DEF ReadTake, MainOK
    <2> QED BY <1>2, <1>a, <2>2, <2>3, <2>5, <2>6
           DEF ReadTake, Moving, StaleIsSafe, TxArmed, RxArmed
  <1>3. CASE ReadRearm
    <2>1. RingsOK' /\ MainOK'
      BY <1>3 DEF ReadRearm, RingsOK, MainOK, call
    <2> QED BY <1>3, <1>a, <2>1
           DEF ReadRearm, Moving, StaleIsSafe, TxArmed, RxArmed, call
  <1>4. CASE ReadWait \/ ReadCheck
    <2>1. RingsOK' /\ MainOK'
      BY <1>4 DEF ReadWait, ReadCheck, RingsOK, MainOK, rings, call
    <2>2. pc' \in {"rcheck", "return", "fetch"} /\ pc \in {"rwait", "rcheck"}
      BY <1>4 DEF ReadWait, ReadCheck
    <2>3. UNCHANGED <<rings, call>>
      BY <1>4 DEF ReadWait, ReadCheck
    <2> QED BY <1>a, <2>1, <2>2, <2>3
           DEF Moving, StaleIsSafe, TxArmed, RxArmed, call, rings
  <1> QED BY <1>1, <1>2, <1>3, <1>4

LEMMA CallKeepsIInv ==
    ASSUME IInv, Close \/ SetTimeout \/ Call \/ Return
    PROVE  IInv'
  <1> USE DEF IInv, TypeOK
  <1>a. RingsOK' /\ CoreOK' /\ UNCHANGED rings
    BY DEF Close, SetTimeout, Call, Return, RingsOK, CoreOK, rings, core
  <1>b. 0 \in 0 .. BufLen - 1 /\ (\A i \in Int : i % Stamps \in 0 .. Stamps - 1)
    BY StampType, SMT DEF Byte
  <1>1. CASE Close
    <2>1. PresenceOK' /\ MainOK'
      BY <1>1 DEF Close, PresenceOK, MainOK, presence, call
    <2> QED BY <1>1, <1>a, <2>1
           DEF Close, Moving, StaleIsSafe, TxArmed, RxArmed, rings, call
  <1>2. CASE SetTimeout
    <2>1. \A arg \in Int : NewTimeout(arg) \in 2 .. IntMax - 1
      BY SMT DEF NewTimeout
    <2>2. PresenceOK'
      BY <1>2, <2>1 DEF SetTimeout, PresenceOK
    <2>3. MainOK'
      BY <1>2 DEF SetTimeout, MainOK, main, call
    <2> QED BY <1>2, <1>a, <2>2, <2>3
           DEF SetTimeout, Moving, StaleIsSafe, TxArmed, RxArmed, rings, main, call
  <1>3. CASE Call
    <2>1. PresenceOK'
      BY <1>3 DEF Call, PresenceOK, presence
    <2>2. /\ pc = "idle" /\ left' \in Nat /\ done' = 0 /\ seen' = 0
          /\ op' \in {"write", "read", "close"} /\ nonblock' \in BOOLEAN
          /\ pc' \in {"copy", "return", "fetch", "close"} /\ sent' = sent
          /\ pc' = "fetch" => left' # 0
      <3>1. \/ op' = "write" /\ left' \in Counts /\ pc' = "copy"
            \/ /\ op' = "read" /\ left' \in Counts
               /\ pc' = IF left' = 0 THEN "return" ELSE "fetch"
            \/ op' = "close" /\ left' = 0 /\ pc' = "close"
        BY <1>3 DEF Call
      <3>2. left' \in Nat
        <4>1. left' \in Counts \/ left' = 0
          BY <3>1
        <4>2. Counts \subseteq Nat /\ 0 \in Nat
          BY CallAssumption, SMT
        <4> QED BY <4>1, <4>2
      <3>3. /\ op' \in {"write", "read", "close"}
            /\ pc' \in {"copy", "return", "fetch", "close"}
            /\ pc' = "fetch" => left' # 0
        BY <3>1
      <3> QED BY <1>3, <3>2, <3>3 DEF Call
    <2>3. MainOK'
      BY <1>b, <2>2 DEF MainOK
    <2>4. Moving'
      BY <2>2, SMT DEF Moving
    <2> QED BY <1>a, <2>1, <2>2, <2>3, <2>4
           DEF StaleIsSafe, TxArmed, RxArmed, rings
  <1>4. CASE Return
    <2>1. PresenceOK'
      BY <1>4 DEF Return, PresenceOK, presence
    <2>2. sent + done \in Int
      BY DEF MainOK
    <2>3. MainOK'
      BY <1>4, <1>b, <2>2 DEF Return, MainOK
    <2> QED BY <1>4, <1>a, <2>1, <2>3
           DEF Return, Moving, StaleIsSafe, TxArmed, RxArmed, rings
  <1> QED BY <1>1, <1>2, <1>3, <1>4

\* The interrupt routine, between any two steps of a call.
LEMMA IrqKeepsIInv ==
    ASSUME IInv, ReadIrq \/ WriteIrq
    PROVE  IInv'
  <1> USE DEF IInv, TypeOK
  <1>a. PresenceOK' /\ MainOK' /\ UNCHANGED main
    BY DEF ReadIrq, WriteIrq, PresenceOK, MainOK, presence, main, call
  <1>1. CASE ReadIrq
    <2> DEFINE n == Least(BufLen - 1 - Used(rx), Len(rxFifo))
               s == SubSeq(rxFifo, 1, n)
    <2>1. /\ rx' = Fill(rx, s) /\ rxFifo' = SubSeq(rxFifo, n + 1, Len(rxFifo))
          /\ irq_enable' = IF n < Len(rxFifo) THEN irq_enable \ {"RE"}
                           ELSE irq_enable
          /\ UNCHANGED <<tx, txFifo, attached, typed>> /\ Len(rxFifo) > 0
      BY <1>1 DEF ReadIrq, CoreOK
    <2>2. /\ n \in 0 .. Len(rxFifo) /\ n <= BufLen - 1 - Used(rx)
          /\ n < Len(rxFifo) => n = BufLen - 1 - Used(rx)
      <3>1. Used(rx) \in 0 .. BufLen - 1 /\ Len(rxFifo) \in Nat
        BY UsedType DEF RingsOK, CoreOK
      <3> QED BY <3>1, SMT DEF Least
    <2>3. s \in Seq(Byte) /\ Len(s) = n
      BY <2>2, SMT DEF CoreOK, Byte
    <2>4. /\ rx' \in Ring /\ rx'.out = rx.out /\ Used(rx') = Used(rx) + n
          /\ rx'.in = rx.out => n = 0 /\ rx.in = rx.out
      BY <2>1, <2>2, <2>3, FillRing DEF RingsOK
    <2>5. RingsOK'
      BY <2>1, <2>4 DEF RingsOK
    <2>6. rxFifo' \in Seq(0 .. Stamps - 1) /\ Len(rxFifo') <= FifoLen
      <3>1. rxFifo \in Seq(0 .. Stamps - 1) /\ Len(rxFifo) <= FifoLen
        BY DEF CoreOK
      <3>2. Len(rxFifo) \in Nat /\ n \in 0 .. Len(rxFifo)
        BY <2>2, <3>1
      <3>3. \A i \in 1 .. Len(rxFifo) : rxFifo[i] \in 0 .. Stamps - 1
        BY <3>1
      <3>4. SubSeq(rxFifo, n + 1, Len(rxFifo)) \in Seq(0 .. Stamps - 1)
        BY <3>1, <3>2, <3>3, SMT
      <3>5. Len(SubSeq(rxFifo, n + 1, Len(rxFifo))) = Len(rxFifo) - n
        BY <3>1, <3>2, SMT
      <3> QED BY <2>1, <3>1, <3>2, <3>4, <3>5, SMT
    <2>7. CoreOK'
      BY <2>1, <2>6 DEF CoreOK
    <2>8. StaleIsSafe'
      <3>1. Used(rx) \in 0 .. BufLen - 1 /\ Used(rx') \in 0 .. BufLen - 1 /\ n \in Nat
        BY <2>2, <2>4, UsedType DEF RingsOK
      <3>2. \A a \in 1 .. Used(rx) : a \in 1 .. Used(rx')
        BY <2>4, <3>1, SMT
      <3> QED BY <1>a, <2>1, <2>4, <3>2 DEF StaleIsSafe, main, call
    <2>9. TxArmed'
      BY <1>a, <2>1 DEF TxArmed, main
    <2>10. RxArmed'
      <3>1. n < Len(rxFifo) => rx'.in # rx'.out
        <4>1. Used(rx') \in 0 .. BufLen - 1 /\ Used(rx) \in 0 .. BufLen - 1
          BY <2>4, UsedType DEF RingsOK
        <4>2. n < Len(rxFifo) => Used(rx') > 0
          BY <2>2, <2>4, <4>1, SMT
        <4>3. rx'.in = rx'.out => Used(rx') = 0
          BY <2>4, SMT DEF Used, Ring
        <4> QED BY <4>2, <4>3, <4>1
      <3> QED BY <1>1, <2>1, <3>1 DEF RxArmed, ReadIrq
    <2> QED BY <1>a, <2>5, <2>7, <2>8, <2>9, <2>10 DEF Moving, main, call
  <1>2. CASE WriteIrq
    <2> DEFINE space == FifoLen - Len(txFifo)
               n == Least(space, Used(tx))
    <2>1. /\ tx' = Drain(tx, n) /\ txFifo' = txFifo \o Slice(tx, n)
          /\ irq_enable' = IF n < space THEN irq_enable \ {"WE"} ELSE irq_enable
          /\ UNCHANGED <<rx, rxFifo, attached, typed>> /\ "WE" \in irq_enable
      BY <1>2 DEF WriteIrq
    <2>2. /\ n \in 0 .. Used(tx) /\ n <= space
          /\ n < space => n = Used(tx)
      <3>1. Used(tx) \in 0 .. BufLen - 1 /\ Len(txFifo) \in Nat /\ Len(txFifo) <= FifoLen
        BY UsedType DEF RingsOK, CoreOK
      <3> QED BY <3>1, SMT DEF Least
    <2>3. /\ tx' \in Ring /\ tx'.in = tx.in /\ Used(tx') = Used(tx) - n
          /\ n = Used(tx) => tx'.in = tx'.out
      BY <2>1, <2>2, DrainRing DEF RingsOK
    <2>4. RingsOK'
      BY <2>1, <2>3 DEF RingsOK
    <2>5. Slice(tx, n) \in Seq(0 .. Stamps - 1) /\ Len(Slice(tx, n)) = n
      BY <2>2, SliceType DEF RingsOK, Byte
    <2>6. txFifo' \in Seq(0 .. Stamps - 1) /\ Len(txFifo') <= FifoLen
      BY <2>1, <2>2, <2>5, SMT DEF CoreOK
    <2>7. CoreOK'
      BY <2>1, <2>6 DEF CoreOK
    <2>8. StaleIsSafe'
      <3>1. Used(tx) \in 0 .. BufLen - 1 /\ n \in Nat
        BY <2>2, UsedType DEF RingsOK
      <3>2. \A a \in 1 .. BufLen - 1 - Used(tx) : a \in 1 .. BufLen - 1 - Used(tx')
        BY <2>3, <3>1, SMT
      <3> QED BY <1>a, <2>1, <2>3, <3>2 DEF StaleIsSafe, main, call
    <2>9. TxArmed'
      BY <2>1, <2>2, <2>3 DEF TxArmed
    <2>10. RxArmed'
      BY <1>a, <2>1 DEF RxArmed, main, call
    <2> QED BY <1>a, <2>4, <2>7, <2>8, <2>9, <2>10 DEF Moving, main, call
  <1> QED BY <1>1, <1>2

\* The alarm and the host.
LEMMA WorldKeepsIInv ==
    ASSUME IInv, Alarm \/ HostTake \/ HostType \/ HostComesAndGoes
    PROVE  IInv'
  <1> USE DEF IInv, TypeOK
  <1>1. UNCHANGED <<rings, main>>
    BY DEF Alarm, HostTake, HostType, HostComesAndGoes
  <1>2. RingsOK' /\ MainOK' /\ Moving' /\ StaleIsSafe' /\ TxArmed' /\ RxArmed'
    BY <1>1 DEF RingsOK, MainOK, Moving, StaleIsSafe, TxArmed, RxArmed,
                rings, main, call
  <1>3. PresenceOK'
    <2>1. CASE Alarm
      BY <2>1, SMT DEF Alarm, PresenceOK
    <2>2. CASE ~Alarm
      BY <2>2 DEF HostTake, HostType, HostComesAndGoes, PresenceOK, presence
    <2> QED BY <2>1, <2>2
  <1>4. CoreOK'
    <2>1. CASE Alarm
      BY <2>1 DEF Alarm, CoreOK, core
    <2>2. CASE HostTake
      BY <2>2, SMT DEF HostTake, CoreOK
    <2>3. CASE HostType
      <3>1. typed' \in 0 .. Stamps - 1
        <4>1. typed + 1 \in Int /\ typed' = (typed + 1) % Stamps
          BY <2>3 DEF HostType, CoreOK
        <4> QED BY <4>1, StampType DEF Byte
      <3>2. /\ rxFifo' = Append(rxFifo, typed') /\ Len(rxFifo) < FifoLen
            /\ UNCHANGED <<txFifo, attached>>
        BY <2>3 DEF HostType
      <3>3. rxFifo' \in Seq(0 .. Stamps - 1) /\ Len(rxFifo') <= FifoLen
        BY <3>1, <3>2, SMT DEF CoreOK
      <3> QED BY <3>1, <3>2, <3>3 DEF CoreOK
    <2>4. CASE HostComesAndGoes
      BY <2>4 DEF HostComesAndGoes, CoreOK
    <2> QED BY <2>1, <2>2, <2>3, <2>4
  <1> QED BY <1>2, <1>3, <1>4

LEMMA StepKeepsIInv == IInv /\ [Next]_vars => IInv'
  <1> SUFFICES ASSUME IInv, [Next]_vars PROVE IInv'
    OBVIOUS
  <1>1. CASE UNCHANGED vars
    BY <1>1 DEF IInv, TypeOK, RingsOK, PresenceOK, MainOK, CoreOK, Moving,
                StaleIsSafe, TxArmed, RxArmed, vars, rings, presence, main,
                call, core
  <1>2. CASE Next
    BY <1>2, WriteKeepsIInv, ReadKeepsIInv, CallKeepsIInv, IrqKeepsIInv,
       WorldKeepsIInv DEF Next, Step
  <1> QED BY <1>1, <1>2

\* The rings, the FIFOs and the timeouts stay in their ranges.
THEOREM JtagTypes == Spec => []TypeOK
  <1>1. IInv => TypeOK
    BY DEF IInv
  <1> QED BY <1>1, InitIInv, StepKeepsIInv, PTL DEF Spec

\* A call never copies into bytes not yet sent, nor out of room not yet filled,
\* however stale the pointer it works with.
THEOREM JtagStaleIsSafe == Spec => []StaleIsSafe
  <1>1. IInv => StaleIsSafe
    BY DEF IInv
  <1> QED BY <1>1, InitIInv, StepKeepsIInv, PTL DEF Spec

\* Neither interrupt is left disabled with bytes to move: no lost wake-up.
THEOREM JtagArmed == Spec => []Armed
  <1>1. IInv => Armed
    BY DEF IInv, Armed
  <1> QED BY <1>1, InitIInv, StepKeepsIInv, PTL DEF Spec

-----------------------------------------------------------------------------
(***************************************************************************)
(* Stamps, and what the operations of a ring do to the bytes in it.        *)
(***************************************************************************)
\* A multiple of Stamps that is closer to 0 than Stamps is 0.
LEMMA NoSmallMultiple ==
    ASSUME NEW d \in Int, -Stamps < Stamps * d, Stamps * d < Stamps
    PROVE  d = 0
  <1>1. ASSUME d >= 1 PROVE FALSE
    <2>1. Stamps * (d - 1) >= 0
      BY <1>1, SMT
    <2>2. Stamps * d = Stamps * (d - 1) + Stamps
      BY SMT
    <2> QED BY <2>1, <2>2, SMT
  <1>2. ASSUME d <= -1 PROVE FALSE
    <2>1. Stamps * (-1 - d) >= 0
      BY <1>2, SMT
    <2>2. Stamps * (-1 - d) = -Stamps - Stamps * d
      BY SMT
    <2> QED BY <2>1, <2>2, SMT
  <1> QED BY <1>1, <1>2, SMT

LEMMA Remainder ==
    ASSUME NEW i \in Int
    PROVE  \E k \in Int : /\ Stamps * k \in Int /\ i % Stamps \in Int
                          /\ i = Stamps * k + (i % Stamps)
  <1>1. /\ i = Stamps * (i \div Stamps) + (i % Stamps) /\ (i \div Stamps) \in Int
        /\ Stamps * (i \div Stamps) \in Int /\ i % Stamps \in Int
    BY SMT
  <1> QED BY <1>1

LEMMA SameStamp ==
    ASSUME NEW i \in Int, NEW j \in Int, NEW k \in Int, i = j + Stamps * k
    PROVE  i % Stamps = j % Stamps
  <1>1. PICK a \in Int : /\ Stamps * a \in Int /\ i % Stamps \in Int
                         /\ i = Stamps * a + (i % Stamps)
    BY Remainder
  <1>2. PICK b \in Int : /\ Stamps * b \in Int /\ j % Stamps \in Int
                         /\ j = Stamps * b + (j % Stamps)
    BY Remainder
  <1> DEFINE x == i % Stamps
             y == j % Stamps
             d == b + k - a
  <1>3. x \in 0 .. Stamps - 1 /\ y \in 0 .. Stamps - 1
    BY SMT
  <1>4. Stamps * d = Stamps * b + Stamps * k - Stamps * a /\ Stamps * k \in Int
    BY SMT
  <1>5. i = Stamps * a + x /\ j = Stamps * b + y
    BY <1>1, <1>2
  <1> HIDE DEF x, y
  <1>6. d = 0
    <2>1. -Stamps < Stamps * d /\ Stamps * d < Stamps /\ d \in Int
      <3> DEFINE D == Stamps * d
                 A == Stamps * a
                 B == Stamps * b
                 K == Stamps * k
      <3>1. /\ D = B + K - A /\ i = A + x /\ j = B + y /\ i = j + K
            /\ A \in Int /\ B \in Int /\ K \in Int
        BY <1>1, <1>2, <1>4, <1>5
      <3> HIDE DEF A, B, D, K
      <3>2. -Stamps < D /\ D < Stamps
        BY <1>3, <3>1, SMT
      <3> QED BY <3>2 DEF D
    <2> HIDE DEF d
    <2> QED BY <2>1, NoSmallMultiple
  <1>7. Stamps * a = Stamps * b + Stamps * k
    BY <1>4, <1>6, SMT
  <1> QED BY <1>1, <1>2, <1>3, <1>5, <1>7, SMT DEF x, y

LEMMA StampSum == \A a, i \in Int : ((a % Stamps) + i) % Stamps = (a + i) % Stamps
  <1> TAKE a, i \in Int
  <1>1. PICK k \in Int : /\ Stamps * k \in Int /\ a % Stamps \in Int
                         /\ a = Stamps * k + (a % Stamps)
    BY Remainder
  <1> DEFINE x == a % Stamps
  <1>2. a + i = (x + i) + Stamps * k /\ x + i \in Int /\ a + i \in Int
    <2>1. x \in Int /\ a = Stamps * k + x
      BY <1>1
    <2> HIDE DEF x
    <2> QED BY <1>1, <2>1, SMT
  <1> HIDE DEF x
  <1>3. (a + i) % Stamps = (x + i) % Stamps
    BY <1>2, SameStamp
  <1> QED BY <1>3 DEF x

LEMMA StampOfByte == \A b \in 0 .. Stamps - 1 : b % Stamps = b
  BY SMT

\* The place of the i-th byte in use, and where the byte put there came from.
LEMMA Places ==
    \A in, out \in 0 .. BufLen - 1, i \in 1 .. BufLen - 1 :
        LET j == Wrap(out + i - 1)
            k == (IF j >= in THEN j - in ELSE BufLen - in + j) + 1
        IN  /\ j \in 0 .. BufLen - 1
            /\ i > Span(in, out) => k = i - Span(in, out)
            /\ i <= Span(in, out) => k > BufLen - 1 - Span(in, out)
  BY SMT DEF Wrap, Span

LEMMA PlacesOn ==
    \A out \in 0 .. BufLen - 1, n, i \in Nat :
        n + i <= BufLen - 1 /\ i > 0 =>
            Wrap(Wrap(out + n) + i - 1) = Wrap(out + (n + i) - 1)
  BY SMT DEF Wrap

LEMMA ContentsType ==
    ASSUME NEW r \in Ring
    PROVE  Contents(r) \in Seq(Byte) /\ Len(Contents(r)) = Used(r)
  BY UsedType, SliceType, SMT DEF Contents

\* What is put in joins the end of what is there.
LEMMA FillContents ==
    ASSUME NEW r \in Ring, NEW s \in Seq(Byte), Len(s) <= BufLen - 1 - Used(r)
    PROVE  Contents(Fill(r, s)) = Contents(r) \o s
  <1> DEFINE f == Fill(r, s)
  <1>1. f \in Ring /\ f.out = r.out /\ Used(f) = Used(r) + Len(s)
    BY FillRing
  <1>2. /\ r.in \in 0 .. BufLen - 1 /\ r.out \in 0 .. BufLen - 1
        /\ Used(r) = Span(r.in, r.out) /\ Used(r) \in 0 .. BufLen - 1
        /\ Len(s) \in Nat
    <2>1. Used(r) = Span(r.in, r.out)
      BY Zenon DEF Used, Span
    <2> QED BY <2>1, UsedType DEF Ring
  <1>3. /\ Contents(r) \in Seq(Byte) /\ Len(Contents(r)) = Used(r)
        /\ Contents(f) \in Seq(Byte) /\ Len(Contents(f)) = Used(r) + Len(s)
    BY <1>1, ContentsType
  <1>4. /\ Contents(r) \o s \in Seq(Byte)
        /\ Len(Contents(r) \o s) = Used(r) + Len(s)
        /\ \A i \in 1 .. Used(r) + Len(s) :
             (Contents(r) \o s)[i] = IF i <= Used(r) THEN Contents(r)[i]
                                     ELSE s[i - Used(r)]
    BY <1>3, ConcatProperties
  <1>5. ASSUME NEW i \in 1 .. Used(r) + Len(s)
        PROVE  Contents(f)[i] = IF i <= Used(r) THEN Contents(r)[i]
                                ELSE s[i - Used(r)]
    <2> DEFINE j == Wrap(r.out + i - 1)
               k == (IF j >= r.in THEN j - r.in ELSE BufLen - r.in + j) + 1
    <2>1. i \in 1 .. BufLen - 1
      BY <1>2
    <2>2. /\ j \in 0 .. BufLen - 1
          /\ i > Used(r) => k = i - Used(r)
          /\ i <= Used(r) => k > BufLen - 1 - Used(r)
      <3>1. /\ j \in 0 .. BufLen - 1
            /\ i > Span(r.in, r.out) => k = i - Span(r.in, r.out)
            /\ i <= Span(r.in, r.out) => k > BufLen - 1 - Span(r.in, r.out)
        BY <1>2, <2>1, Places, Zenon
      <3> QED BY <1>2, <3>1, Zenon
    <2>3. Contents(f)[i] = f.buf[j]
      <3>1. Contents(f) = [x \in 1 .. Used(r) + Len(s) |-> f.buf[Wrap(f.out + x - 1)]]
        BY <1>1 DEF Contents, Slice
      <3> HIDE DEF f
      <3> QED BY <1>1, <3>1
    <2>4. f.buf[j] = IF k <= Len(s) THEN s[k] ELSE r.buf[j]
      BY <2>2 DEF Fill
    <2>5. i <= Used(r) => Contents(r)[i] = r.buf[j]
      BY <1>2 DEF Contents, Slice
    <2>6. /\ i > Used(r) => k <= Len(s)
          /\ i <= Used(r) => ~(k <= Len(s))
      <3>1. k \in Int
        BY <1>2, <2>2
      <3> HIDE DEF k
      <3> QED BY <1>2, <2>1, <2>2, <3>1
    <2> HIDE DEF f, j, k
    <2>7. CASE i > Used(r)
      BY <1>2, <2>2, <2>3, <2>4, <2>6, <2>7
    <2>8. CASE i <= Used(r)
      BY <1>2, <2>3, <2>4, <2>5, <2>6, <2>8
    <2> QED BY <1>2, <2>7, <2>8
  <1> HIDE DEF f
  <1>6. Contents(f) = Contents(r) \o s
    BY <1>3, <1>4, <1>5, SeqEqual
  <1> QED BY <1>6 DEF f

\* What is taken out is the beginning of what was there.
LEMMA DrainContents ==
    ASSUME NEW r \in Ring, NEW n \in 0 .. Used(r)
    PROVE  Contents(r) = Slice(r, n) \o Contents(Drain(r, n))
  <1> DEFINE d == Drain(r, n)
  <1>1. /\ d \in Ring /\ Used(d) = Used(r) - n
        /\ d.out = Wrap(r.out + n) /\ d.buf = r.buf
    BY DrainRing DEF Drain, Ring
  <1>2. /\ r.out \in 0 .. BufLen - 1 /\ Used(r) \in 0 .. BufLen - 1 /\ n \in Nat
    BY UsedType DEF Ring
  <1> HIDE DEF d
  <1>3. /\ Contents(r) \in Seq(Byte) /\ Len(Contents(r)) = Used(r)
        /\ Contents(d) \in Seq(Byte) /\ Len(Contents(d)) = Used(r) - n
        /\ Slice(r, n) \in Seq(Byte) /\ Len(Slice(r, n)) = n
    BY <1>1, ContentsType, SliceType
  <1>4. /\ Slice(r, n) \o Contents(d) \in Seq(Byte)
        /\ Len(Slice(r, n) \o Contents(d)) = Used(r)
        /\ \A i \in 1 .. Used(r) :
             (Slice(r, n) \o Contents(d))[i] = IF i <= n THEN Slice(r, n)[i]
                                               ELSE Contents(d)[i - n]
    <2>1. n + (Used(r) - n) = Used(r)
      BY <1>2
    <2> QED BY <1>3, <2>1, ConcatProperties
  <1>5. ASSUME NEW i \in 1 .. Used(r)
        PROVE  Contents(r)[i] = IF i <= n THEN Slice(r, n)[i]
                                ELSE Contents(d)[i - n]
    <2>1. Contents(r)[i] = r.buf[Wrap(r.out + i - 1)]
      BY DEF Contents, Slice
    <2>2. CASE i <= n
      <3>1. i \in 1 .. n
        BY <1>2, <2>2
      <3> QED BY <2>1, <2>2, <3>1 DEF Slice
    <2>3. CASE i > n
      <3>1. i - n \in 1 .. Used(d) /\ i - n \in Nat /\ i - n > 0
            /\ n + (i - n) = i /\ n + (i - n) <= BufLen - 1
        BY <1>1, <1>2, <2>3
      <3>2. Contents(d)[i - n] = r.buf[Wrap(Wrap(r.out + n) + (i - n) - 1)]
        BY <1>1, <3>1 DEF Contents, Slice
      <3>3. Wrap(Wrap(r.out + n) + (i - n) - 1) = Wrap(r.out + (n + (i - n)) - 1)
        BY <1>2, <3>1, PlacesOn
      <3> QED BY <1>2, <2>1, <2>3, <3>1, <3>2, <3>3
    <2> QED BY <1>2, <2>2, <2>3
  <1>6. Contents(r) = Slice(r, n) \o Contents(d)
    BY <1>3, <1>4, <1>5, SeqEqual
  <1> QED BY <1>6 DEF d

-----------------------------------------------------------------------------
(***************************************************************************)
(* The refinement.  A step of a call is a step of the call that is being   *)
(* made, so the bytes copied are the bytes that call will say it took.     *)
(***************************************************************************)
OpFits ==
    /\ pc \in {"copy", "commit", "kick", "wait", "check"} => op = "write"
    /\ pc \in {"fetch", "take", "rwait", "rcheck", "rearm"} => op = "read"
    /\ pc = "idle" => op = "none"

PipeInv == IInv /\ OpFits

LEMMA InitPipeInv == Init => PipeInv
  BY InitIInv DEF PipeInv, OpFits, Init

LEMMA StepKeepsPipeInv == PipeInv /\ [Next]_vars => PipeInv'
  <1> SUFFICES ASSUME PipeInv, [Next]_vars PROVE OpFits'
    BY StepKeepsIInv DEF PipeInv
  <1> USE DEF OpFits
  <1>0. OpFits
    BY DEF PipeInv
  <1>1. CASE WriteCopy \/ WriteCommit \/ WriteKick \/ WriteWait \/ WriteCheck
    BY <1>0, <1>1 DEF WriteCopy, WriteCommit, WriteKick, WriteWait, WriteCheck, call
  <1>2. CASE ReadFetch \/ ReadTake \/ ReadWait \/ ReadCheck \/ ReadRearm
    BY <1>0, <1>2 DEF ReadFetch, ReadTake, ReadWait, ReadCheck, ReadRearm, call
  <1>3. CASE Close \/ Return
    BY <1>0, <1>3 DEF Close, Return, call
  <1>4. CASE Call
    BY <1>4 DEF Call
  <1>5. CASE \/ SetTimeout \/ ReadIrq \/ WriteIrq \/ Alarm
             \/ HostTake \/ HostType \/ HostComesAndGoes \/ UNCHANGED vars
    <2>1. UNCHANGED <<pc, op>>
      BY <1>5 DEF SetTimeout, ReadIrq, WriteIrq, Alarm, HostTake, HostType,
                  HostComesAndGoes, vars, main, call
    <2> QED BY <1>0, <2>1
  <1> QED BY <1>1, <1>2, <1>3, <1>4, <1>5 DEF Next, Step

\* What the mapping gives the pipes.
OutQ == txFifo \o Contents(tx)
OutSent == IF op = "write" THEN (sent + done) % Stamps ELSE sent
InQ == Contents(rx) \o rxFifo

LEMMA Queues ==
    ASSUME IInv
    PROVE  /\ tx \in Ring /\ rx \in Ring
           /\ txFifo \in Seq(Byte) /\ Len(txFifo) \in 0 .. FifoLen
           /\ rxFifo \in Seq(Byte) /\ Len(rxFifo) \in 0 .. FifoLen
           /\ Contents(tx) \in Seq(Byte) /\ Len(Contents(tx)) = Used(tx)
           /\ Contents(rx) \in Seq(Byte) /\ Len(Contents(rx)) = Used(rx)
           /\ Used(tx) \in 0 .. BufLen - 1 /\ Used(rx) \in 0 .. BufLen - 1
           /\ OutQ \in Seq(Byte) /\ Len(OutQ) = Len(txFifo) + Used(tx)
           /\ InQ \in Seq(Byte) /\ Len(InQ) = Used(rx) + Len(rxFifo)
           /\ sent \in Byte /\ typed \in Byte /\ done \in Nat
  <1>1. /\ tx \in Ring /\ rx \in Ring
        /\ txFifo \in Seq(Byte) /\ Len(txFifo) <= FifoLen
        /\ rxFifo \in Seq(Byte) /\ Len(rxFifo) <= FifoLen
        /\ sent \in Byte /\ typed \in Byte /\ done \in Nat
    BY DEF IInv, TypeOK, RingsOK, CoreOK, MainOK, Byte
  <1>2. Len(txFifo) \in 0 .. FifoLen /\ Len(rxFifo) \in 0 .. FifoLen
    BY <1>1, LenProperties
  <1>3. /\ Contents(tx) \in Seq(Byte) /\ Len(Contents(tx)) = Used(tx)
        /\ Contents(rx) \in Seq(Byte) /\ Len(Contents(rx)) = Used(rx)
        /\ Used(tx) \in 0 .. BufLen - 1 /\ Used(rx) \in 0 .. BufLen - 1
    BY <1>1, ContentsType, UsedType
  <1>4. OutQ \in Seq(Byte) /\ Len(OutQ) = Len(txFifo) + Used(tx)
    BY <1>1, <1>3, ConcatProperties DEF OutQ
  <1>5. InQ \in Seq(Byte) /\ Len(InQ) = Used(rx) + Len(rxFifo)
    BY <1>1, <1>3, ConcatProperties DEF InQ
  <1> QED BY <1>1, <1>2, <1>3, <1>4, <1>5

\* The beginning and the end of a queue whose beginning is known.
LEMMA SplitQueue ==
    ASSUME NEW s \in Seq(Byte), NEW t \in Seq(Byte)
    PROVE  /\ SubSeq(s \o t, 1, Len(s)) = s
           /\ SubSeq(s \o t, Len(s) + 1, Len(s \o t)) = t
  <1>1. /\ s \o t \in Seq(Byte) /\ Len(s \o t) = Len(s) + Len(t)
        /\ \A i \in 1 .. Len(s) + Len(t) :
             (s \o t)[i] = IF i <= Len(s) THEN s[i] ELSE t[i - Len(s)]
    BY ConcatProperties
  <1>2. Len(s) \in Nat /\ Len(t) \in Nat
    BY LenProperties
  <1>3. \A i \in 1 .. Len(s) + Len(t) : (s \o t)[i] \in Byte
    BY <1>1, ElementOfSeq
  <1>4. SubSeq(s \o t, 1, Len(s)) = s
    <2>1. \A i \in 1 .. Len(s) : (s \o t)[i] \in Byte
      BY <1>2, <1>3
    <2>2. /\ SubSeq(s \o t, 1, Len(s)) \in Seq(Byte)
          /\ Len(SubSeq(s \o t, 1, Len(s)))
               = IF 1 <= Len(s) THEN Len(s) - 1 + 1 ELSE 0
          /\ \A i \in 1 .. Len(s) - 1 + 1 :
               SubSeq(s \o t, 1, Len(s))[i] = (s \o t)[1 + i - 1]
      BY <1>2, <2>1, SubSeqProperties
    <2>3. Len(SubSeq(s \o t, 1, Len(s))) = Len(s)
      BY <1>2, <2>2
    <2>4. \A i \in 1 .. Len(s) : SubSeq(s \o t, 1, Len(s))[i] = s[i]
      BY <1>1, <1>2, <2>2
    <2> QED BY <2>2, <2>3, <2>4, SeqEqual
  <1>5. SubSeq(s \o t, Len(s) + 1, Len(s) + Len(t)) = t
    <2> DEFINE m == Len(s) + 1
               n == Len(s) + Len(t)
               w == s \o t
               u == SubSeq(w, m, n)
    <2>1. m \in Int /\ n \in Int /\ \A i \in m .. n : w[i] \in Byte
      BY <1>2, <1>3
    <2>2. /\ u \in Seq(Byte)
          /\ Len(u) = IF m <= n THEN n - m + 1 ELSE 0
          /\ \A i \in 1 .. n - m + 1 : u[i] = w[m + i - 1]
      <3> HIDE DEF m, n, w
      <3> QED BY <2>1, SubSeqProperties
    <2> HIDE DEF u
    <2>3. Len(u) = Len(t)
      BY <1>2, <2>2
    <2>4. ASSUME NEW i \in 1 .. Len(u) PROVE u[i] = t[i]
      <3>1. i \in 1 .. n - m + 1 /\ m + i - 1 = Len(s) + i
        BY <1>2, <2>3
      <3>2. u[i] = (s \o t)[Len(s) + i]
        BY <2>2, <3>1, Zenon DEF w
      <3>3. /\ Len(s) + i \in 1 .. Len(s) + Len(t)
            /\ ~(Len(s) + i <= Len(s)) /\ Len(s) + i - Len(s) = i
        BY <1>2, <2>3
      <3>4. (s \o t)[Len(s) + i] = t[Len(s) + i - Len(s)]
        <4> DEFINE x == Len(s) + i
        <4> HIDE DEF x
        <4>1. x \in 1 .. Len(s) + Len(t) /\ ~(x <= Len(s))
          BY <3>3 DEF x
        <4>2. (s \o t)[x] = t[x - Len(s)]
          BY <1>1, <4>1
        <4> QED BY <4>2 DEF x
      <3> QED BY <3>2, <3>3, <3>4, Zenon
    <2>5. u = t
      BY <2>2, <2>3, <2>4, SeqEqual
    <2> QED BY <2>5 DEF u
  <1> QED BY <1>1, <1>4, <1>5

LEMMA Regroup ==
    \A s, t, u \in Seq(Byte) : (s \o t) \o u = s \o (t \o u)
  BY ConcatAssociative

LEMMA InitPipes == Init => OutPipe!Init /\ InPipe!Init
  <1> SUFFICES ASSUME Init PROVE OutQ = <<>> /\ InQ = <<>> /\ OutSent = 0
    BY DEF OutPipe!Init, InPipe!Init, OutQ, InQ, OutSent, Init
  <1>1. tx.in = tx.out /\ rx.in = rx.out /\ tx \in Ring /\ rx \in Ring
    BY InitIInv DEF Init, EmptyRing, IInv, TypeOK, RingsOK
  <1>2. Used(tx) = 0 /\ Used(rx) = 0
    BY <1>1 DEF Used, Ring
  <1>3. Contents(tx) = <<>> /\ Contents(rx) = <<>>
    BY <1>2 DEF Contents, Slice
  <1> QED BY <1>3, ConcatEmptySeq, EmptySeq DEF Init, OutQ, InQ, OutSent
\* What a call copies are the next bytes in its order, and there is room.
LEMMA CommitPuts ==
    ASSUME PipeInv, WriteCommit
    PROVE  OutPipe!Put
  <1> DEFINE n == Least(Room(tx.in, seen), left)
             s == [i \in 1..n |-> (sent + done + i) % Stamps]
  <1>1. /\ Room(tx.in, seen) \in 1 .. BufLen - 1 - Used(tx)
        /\ left \in Nat /\ left > 0 /\ op = "write"
    BY DEF PipeInv, IInv, TypeOK, MainOK, Moving, StaleIsSafe, OpFits, WriteCommit
  <1>2. /\ tx' = Fill(tx, s) /\ done' = done + n
        /\ UNCHANGED <<txFifo, took, op, sent>>
    BY DEF WriteCommit, core
  <1>3. /\ tx \in Ring /\ txFifo \in Seq(Byte) /\ Len(txFifo) \in 0 .. FifoLen
        /\ Contents(tx) \in Seq(Byte) /\ Used(tx) \in 0 .. BufLen - 1
        /\ Len(OutQ) = Len(txFifo) + Used(tx)
        /\ sent \in Nat /\ done \in Nat
    BY Queues DEF PipeInv, Byte
  <1>4. n \in 1 .. BufLen - 1 - Used(tx)
    <2>1. n = left \/ n = Room(tx.in, seen)
      BY DEF Least
    <2>2. n <= left /\ n <= Room(tx.in, seen)
      BY <1>1, SMT DEF Least
    <2> QED BY <1>1, <1>3, <2>1, <2>2, SMT
  <1>5. s \in Seq(Byte) /\ Len(s) = n
    <2>1. ASSUME NEW i \in 1 .. n PROVE (sent + done + i) % Stamps \in Byte
      <3>1. sent + done + i \in Int
        BY <1>3, <1>4
      <3> QED BY <3>1, StampType
    <2>2. n \in Nat
      BY <1>4
    <2> QED BY <2>1, <2>2, SMT
  <1>6. Contents(tx') = Contents(tx) \o s
    <2> HIDE DEF s, n
    <2>1. Len(s) <= BufLen - 1 - Used(tx)
      BY <1>3, <1>4, <1>5
    <2>2. Contents(Fill(tx, s)) = Contents(tx) \o s
      BY <1>3, <1>5, <2>1, FillContents
    <2> QED BY <1>2, <2>2
  <1>7. s = [i \in 1..n |-> (OutSent + i) % Stamps]
    <2>1. ASSUME NEW i \in 1 .. n
          PROVE  (sent + done + i) % Stamps = (OutSent + i) % Stamps
      <3>1. OutSent = (sent + done) % Stamps
        BY <1>1 DEF OutSent
      <3>2. sent + done \in Int /\ i \in Int
        BY <1>3, <1>4
      <3> QED BY <3>1, <3>2, StampSum
    <2> QED BY <2>1, Zenon
  <1>8. OutQ' = OutQ \o s
    <2> HIDE DEF s, n
    <2>1. OutQ' = txFifo \o (Contents(tx) \o s)
      <3>1. OutQ' = txFifo' \o Contents(tx')
        BY DEF OutQ, Contents, Slice, Used, Wrap
      <3> QED BY <1>2, <1>6, <3>1
    <2>2. (txFifo \o Contents(tx)) \o s = txFifo \o (Contents(tx) \o s)
      BY <1>3, <1>5, Regroup, Zenon
    <2> QED BY <2>1, <2>2 DEF OutQ
  <1>9. OutSent' = (OutSent + n) % Stamps
    <2>1. OutSent = (sent + done) % Stamps /\ OutSent' = (sent + (done + n)) % Stamps
      BY <1>1, <1>2 DEF OutSent
    <2>2. sent + done \in Int /\ n \in Int /\ sent + (done + n) = (sent + done) + n
      BY <1>3, <1>4
    <2> QED BY <2>1, <2>2, StampSum
  <1>10. n \in 1 .. (BufLen - 1 + FifoLen) - Len(OutQ)
    BY <1>3, <1>4
  <1> HIDE DEF n, s
  <1> QED BY <1>2, <1>7, <1>8, <1>9, <1>10
         DEF OutPipe!Put, OutPipe!Fresh, OutQ, OutSent

\* The interrupt routine only moves bytes on: to the pipe it is nothing.
LEMMA WriteIrqStutters ==
    ASSUME PipeInv, WriteIrq
    PROVE  OutQ' = OutQ
  <1> DEFINE n == Least(FifoLen - Len(txFifo), Used(tx))
  <1>1. tx' = Drain(tx, n) /\ txFifo' = txFifo \o Slice(tx, n)
    BY DEF WriteIrq
  <1>2. /\ tx \in Ring /\ txFifo \in Seq(Byte) /\ Len(txFifo) \in 0 .. FifoLen
        /\ Used(tx) \in 0 .. BufLen - 1
    BY Queues DEF PipeInv
  <1>3. n \in 0 .. Used(tx)
    BY <1>2, SMT DEF Least
  <1> HIDE DEF n
  <1>4. Contents(tx) = Slice(tx, n) \o Contents(tx')
    BY <1>1, <1>2, <1>3, DrainContents
  <1>5. Slice(tx, n) \in Seq(Byte) /\ Contents(tx') \in Seq(Byte)
    <2>1. tx' \in Ring
      BY <1>1, <1>2, <1>3, DrainRing
    <2> QED BY <1>2, <1>3, <2>1, SliceType, ContentsType
  <1>6. OutQ' = (txFifo \o Slice(tx, n)) \o Contents(tx')
    BY <1>1 DEF OutQ, Contents, Slice, Used, Wrap
  <1>7. (txFifo \o Slice(tx, n)) \o Contents(tx')
          = txFifo \o (Slice(tx, n) \o Contents(tx'))
    BY <1>2, <1>5, Regroup, Zenon
  <1> QED BY <1>4, <1>6, <1>7, Zenon DEF OutQ

LEMMA HostTakes ==
    ASSUME PipeInv, HostTake
    PROVE  OutPipe!Take
  <1> DEFINE h == SubSeq(txFifo, 1, 1)
  <1>1. /\ txFifo # <<>> /\ took' = h /\ txFifo' = Tail(txFifo)
        /\ UNCHANGED <<tx, op, sent, done>>
    BY DEF HostTake, rings, main, call
  <1>2. /\ txFifo \in Seq(Byte) /\ Contents(tx) \in Seq(Byte)
        /\ Len(OutQ) = Len(txFifo) + Used(tx) /\ Used(tx) \in Nat
    BY Queues DEF PipeInv
  <1>3. /\ h \in Seq(Byte) /\ Len(h) = 1 /\ Tail(txFifo) \in Seq(Byte)
        /\ txFifo = h \o Tail(txFifo) /\ Len(txFifo) \in Nat /\ Len(txFifo) >= 1
    <2>1. Len(txFifo) \in Nat /\ Len(txFifo) >= 1
      BY <1>1, <1>2, EmptySeq
    <2>2. SubSeq(txFifo, 1, Len(txFifo))
            = <<txFifo[1]>> \o SubSeq(txFifo, 1 + 1, Len(txFifo))
      BY <1>2, <2>1, SubSeqRecursiveFirst
    <2>3. Tail(txFifo) = SubSeq(txFifo, 2, Len(txFifo))
      BY <1>1, <1>2, TailIsSubSeq
    <2>4. SubSeq(txFifo, 1, Len(txFifo)) = txFifo
      BY <1>2, SubSeqFull
    <2>5. h = <<txFifo[1]>> /\ txFifo[1] \in Byte
      <3>1. txFifo[1] \in Byte
        BY <1>2, <2>1, ElementOfSeq
      <3>2. h = <<txFifo[1]>> \o SubSeq(txFifo, 1 + 1, 1)
        BY <1>2, <2>1, SubSeqRecursiveFirst
      <3>3. SubSeq(txFifo, 1 + 1, 1) = <<>>
        BY SubSeqEmpty
      <3>4. <<txFifo[1]>> \in Seq(Byte)
        BY <3>1
      <3> QED BY <3>1, <3>2, <3>3, <3>4, ConcatEmptySeq
    <2>6. Tail(txFifo) \in Seq(Byte)
      BY <1>1, <1>2, HeadTailProperties
    <2> QED BY <2>1, <2>2, <2>3, <2>4, <2>5, <2>6, SMT
  <1> HIDE DEF h
  <1>4. OutQ = h \o (Tail(txFifo) \o Contents(tx))
    <2>1. (h \o Tail(txFifo)) \o Contents(tx) = h \o (Tail(txFifo) \o Contents(tx))
      BY <1>2, <1>3, Regroup, Zenon
    <2> QED BY <1>3, <2>1 DEF OutQ
  <1>5. OutQ' = Tail(txFifo) \o Contents(tx)
    BY <1>1 DEF OutQ, Contents, Slice, Used, Wrap
  <1>6. OutQ' \in Seq(Byte)
    BY <1>2, <1>3, <1>5, ConcatProperties
  <1>7. SubSeq(OutQ, 1, 1) = h /\ SubSeq(OutQ, 1 + 1, Len(OutQ)) = OutQ'
    <2> DEFINE t == Tail(txFifo) \o Contents(tx)
    <2>1. /\ SubSeq(h \o t, 1, Len(h)) = h
          /\ SubSeq(h \o t, Len(h) + 1, Len(h \o t)) = t
      BY <1>3, <1>5, <1>6, SplitQueue
    <2> HIDE DEF t
    <2>2. OutQ = h \o t /\ OutQ' = t
      BY <1>4, <1>5 DEF t
    <2> QED BY <1>3, <2>1, <2>2
  <1>8. 1 \in 1 .. Len(OutQ)
    BY <1>2, <1>3
  <1>9. OutSent' = OutSent
    BY <1>1 DEF OutSent
  <1> QED BY <1>1, <1>7, <1>8, <1>9 DEF OutPipe!Take, OutQ, OutSent

\* What a program writes reaches the host once and in order: ring and FIFO, end to
\* end, are the bytes under way (write.c, and the write half of the interrupt
\* routine in init.c), for every size of both.
THEOREM JtagOutput == Spec => OutputInOrder
  <1>1. ASSUME PipeInv, [Next]_vars
        PROVE  [OutPipe!Put \/ OutPipe!Take]_OutPipe!vars
    <2>1. ASSUME OutQ' = OutQ, OutSent' = OutSent, took' = took
          PROVE  UNCHANGED OutPipe!vars
      BY <2>1 DEF OutPipe!vars, OutQ, OutSent
    <2>2. CASE WriteCommit
      BY <1>1, <2>2, CommitPuts
    <2>3. CASE WriteIrq
      <3>1. OutSent' = OutSent /\ took' = took
        BY <2>3 DEF WriteIrq, main, call, OutSent
      <3> QED BY <1>1, <2>1, <2>3, <3>1, WriteIrqStutters
    <2>4. CASE HostTake
      BY <1>1, <2>4, HostTakes
    <2>5. CASE ~(WriteCommit \/ WriteIrq \/ HostTake)
      <3>1. UNCHANGED <<tx, txFifo, took>>
        BY <1>1, <2>5 DEF Next, Step, WriteCopy, WriteKick, WriteWait, WriteCheck,
             ReadFetch, ReadTake, ReadWait, ReadCheck, ReadRearm, Close, Return,
             Call, SetTimeout, ReadIrq, Alarm, HostType, HostComesAndGoes,
             vars, rings, core
      <3>2. OutSent' = OutSent
        <4>1. sent \in Byte /\ done \in Nat /\ (sent + 0) % Stamps = sent
          <5>1. sent \in Byte /\ done \in Nat
            BY <1>1, Queues DEF PipeInv
          <5>2. sent + 0 = sent
            BY <5>1 DEF Byte
          <5> QED BY <5>1, <5>2, StampOfByte DEF Byte
        <4>2. CASE Call
          <5>1. op = "none" /\ UNCHANGED sent /\ done' = 0
            BY <1>1, <4>2 DEF Call, PipeInv, OpFits
          <5> QED BY <4>1, <5>1 DEF OutSent
        <4>3. CASE Return
          BY <4>3 DEF Return, OutSent
        <4>4. CASE ReadTake
          BY <1>1, <4>4 DEF ReadTake, OutSent, PipeInv, OpFits
        <4>5. CASE ~(Call \/ Return \/ ReadTake)
          <5>1. UNCHANGED <<op, sent, done>>
            BY <1>1, <2>5, <4>5 DEF Next, Step, WriteCopy, WriteKick, WriteWait,
               WriteCheck, ReadFetch, ReadWait, ReadCheck, ReadRearm, Close,
               SetTimeout, ReadIrq, Alarm, HostType, HostComesAndGoes,
               vars, main, call
          <5> QED BY <5>1 DEF OutSent
        <4> QED BY <4>2, <4>3, <4>4, <4>5
      <3>3. OutQ' = OutQ
        BY <3>1 DEF OutQ, Contents, Slice, Used, Wrap
      <3> QED BY <2>1, <3>1, <3>2, <3>3
    <2> QED BY <2>2, <2>3, <2>4, <2>5
  <1> QED BY <1>1, InitPipes, InitPipeInv, StepKeepsPipeInv, PTL
         DEF Spec, OutputInOrder, OutPipe!Spec

-----------------------------------------------------------------------------

LEMMA HostTypes ==
    ASSUME PipeInv, HostType
    PROVE  InPipe!Put
  <1>1. /\ Len(rxFifo) < FifoLen /\ typed' = (typed + 1) % Stamps
        /\ rxFifo' = Append(rxFifo, typed') /\ UNCHANGED <<rx, got>>
    BY DEF HostType, rings
  <1>2. /\ rxFifo \in Seq(Byte) /\ Contents(rx) \in Seq(Byte) /\ typed \in Int
        /\ Len(InQ) = Used(rx) + Len(rxFifo) /\ Used(rx) \in 0 .. BufLen - 1
        /\ Len(rxFifo) \in Nat
    BY Queues DEF PipeInv, Byte
  <1>3. typed' \in Byte
    <2>1. typed + 1 \in Int
      BY <1>2
    <2> QED BY <1>1, <2>1, StampType
  <1>4. rxFifo' = rxFifo \o <<typed'>> /\ <<typed'>> \in Seq(Byte)
    BY <1>1, <1>2, <1>3, AppendIsConcat
  <1>5. InQ' = Contents(rx) \o (rxFifo \o <<typed'>>)
    BY <1>1, <1>4 DEF InQ, Contents, Slice, Used, Wrap
  <1>6. InQ' = InQ \o <<typed'>>
    <2>1. (Contents(rx) \o rxFifo) \o <<typed'>>
            = Contents(rx) \o (rxFifo \o <<typed'>>)
      BY <1>2, <1>4, Regroup, Zenon
    <2> QED BY <1>5, <2>1 DEF InQ
  <1>7. [i \in 1..1 |-> (typed + i) % Stamps] = <<typed'>>
    BY <1>1, SMT
  <1>8. 1 \in 1 .. (BufLen - 1 + FifoLen) - Len(InQ)
    BY <1>1, <1>2
  <1> QED BY <1>1, <1>6, <1>7, <1>8 DEF InPipe!Put, InPipe!Fresh, InQ

LEMMA ReadIrqStutters ==
    ASSUME PipeInv, ReadIrq
    PROVE  InQ' = InQ
  <1> DEFINE n == Least(BufLen - 1 - Used(rx), Len(rxFifo))
             s == SubSeq(rxFifo, 1, n)
             t == SubSeq(rxFifo, n + 1, Len(rxFifo))
  <1>1. rx' = Fill(rx, s) /\ rxFifo' = t
    BY DEF ReadIrq
  <1>2. /\ rx \in Ring /\ rxFifo \in Seq(Byte) /\ Contents(rx) \in Seq(Byte)
        /\ Len(rxFifo) \in Nat /\ Used(rx) \in 0 .. BufLen - 1
    BY Queues DEF PipeInv
  <1>3. n \in 0 .. Len(rxFifo) /\ n <= BufLen - 1 - Used(rx)
    BY <1>2, SMT DEF Least
  <1> HIDE DEF n
  <1>4. s \in Seq(Byte) /\ Len(s) = n /\ t \in Seq(Byte) /\ rxFifo = s \o t
    <2>1. SubSeq(rxFifo, 1, n) \o SubSeq(rxFifo, n + 1, Len(rxFifo))
            = SubSeq(rxFifo, 1, Len(rxFifo))
      <3>1. /\ 1 \in 1 .. Len(rxFifo) + 1 /\ n \in 1 - 1 .. Len(rxFifo)
            /\ Len(rxFifo) \in n .. Len(rxFifo)
        BY <1>2, <1>3
      <3> QED BY <1>2, <3>1, ConcatAdjacentSubSeq
    <2>2. SubSeq(rxFifo, 1, Len(rxFifo)) = rxFifo
      BY <1>2, SubSeqFull
    <2>3. \A i \in 1 .. Len(rxFifo) : rxFifo[i] \in Byte
      BY <1>2, ElementOfSeq
    <2>4. s \in Seq(Byte) /\ Len(s) = n
      BY <1>2, <1>3, <2>3, SMT
    <2>5. t \in Seq(Byte)
      BY <1>2, <1>3, <2>3, SMT
    <2> QED BY <2>1, <2>2, <2>4, <2>5
  <1> HIDE DEF s, t
  <1>5. Contents(rx') = Contents(rx) \o s
    BY <1>1, <1>2, <1>3, <1>4, FillContents
  <1>6. InQ' = (Contents(rx) \o s) \o t
    BY <1>1, <1>5 DEF InQ, Contents, Slice, Used, Wrap
  <1>7. (Contents(rx) \o s) \o t = Contents(rx) \o (s \o t)
    BY <1>2, <1>4, Regroup, Zenon
  <1> QED BY <1>4, <1>6, <1>7, Zenon DEF InQ

LEMMA ReadTakes ==
    ASSUME PipeInv, ReadTake
    PROVE  InPipe!Take
  <1> DEFINE n == Least(Available(seen, rx.out), left)
  <1>1. /\ got' = Slice(rx, n) /\ rx' = Drain(rx, n) /\ UNCHANGED <<rxFifo, typed>>
    BY DEF ReadTake, core
  <1>2. /\ rx \in Ring /\ rxFifo \in Seq(Byte) /\ Used(rx) \in 0 .. BufLen - 1
        /\ Len(InQ) = Used(rx) + Len(rxFifo) /\ Len(rxFifo) \in Nat
    BY Queues DEF PipeInv
  <1>3. n \in 1 .. Used(rx)
    <2>1. /\ Available(seen, rx.out) \in 1 .. Used(rx)
          /\ left \in Nat /\ left > 0
      BY DEF PipeInv, IInv, TypeOK, MainOK, Moving, StaleIsSafe, ReadTake
    <2>2. n = left \/ n = Available(seen, rx.out)
      BY DEF Least
    <2>3. n <= left /\ n <= Available(seen, rx.out)
      BY <2>1, SMT DEF Least
    <2> QED BY <1>2, <2>1, <2>2, <2>3, SMT
  <1> HIDE DEF n
  <1>4. n \in 0 .. Used(rx)
    BY <1>2, <1>3
  <1>5. /\ Slice(rx, n) \in Seq(Byte) /\ Len(Slice(rx, n)) = n
        /\ Contents(rx') \in Seq(Byte)
        /\ Contents(rx) = Slice(rx, n) \o Contents(rx')
    BY <1>1, <1>2, <1>4, SliceType, DrainRing, ContentsType, DrainContents
  <1> DEFINE t == Contents(rx') \o rxFifo
  <1>6. InQ = Slice(rx, n) \o t
    <2>1. (Slice(rx, n) \o Contents(rx')) \o rxFifo
            = Slice(rx, n) \o (Contents(rx') \o rxFifo)
      BY <1>2, <1>5, Regroup, Zenon
    <2> QED BY <1>5, <2>1 DEF InQ
  <1>7. InQ' = t
    BY <1>1 DEF InQ, Contents, Slice, Used, Wrap
  <1>8. t \in Seq(Byte)
    BY <1>2, <1>5, ConcatProperties
  <1>9. SubSeq(InQ, 1, n) = Slice(rx, n) /\ SubSeq(InQ, n + 1, Len(InQ)) = InQ'
    <2> HIDE DEF t
    <2>1. /\ SubSeq(Slice(rx, n) \o t, 1, Len(Slice(rx, n))) = Slice(rx, n)
          /\ SubSeq(Slice(rx, n) \o t, Len(Slice(rx, n)) + 1,
                    Len(Slice(rx, n) \o t)) = t
      BY <1>5, <1>8, SplitQueue
    <2> QED BY <1>5, <1>6, <1>7, <2>1
  <1>10. n \in 1 .. Len(InQ)
    BY <1>2, <1>3
  <1> QED BY <1>1, <1>9, <1>10 DEF InPipe!Take, InQ

\* What the host types reaches the program once and in order (read.c, and the read
\* half of the interrupt routine), for every size of ring and FIFO.
THEOREM JtagInput == Spec => InputInOrder
  <1>1. ASSUME PipeInv, [Next]_vars
        PROVE  [InPipe!Put \/ InPipe!Take]_InPipe!vars
    <2>1. ASSUME InQ' = InQ, typed' = typed, got' = got
          PROVE  UNCHANGED InPipe!vars
      BY <2>1 DEF InPipe!vars, InQ
    <2>2. CASE HostType
      BY <1>1, <2>2, HostTypes
    <2>3. CASE ReadIrq
      <3>1. typed' = typed /\ got' = got
        BY <2>3 DEF ReadIrq
      <3> QED BY <1>1, <2>1, <2>3, <3>1, ReadIrqStutters
    <2>4. CASE ReadTake
      BY <1>1, <2>4, ReadTakes
    <2>5. CASE ~(HostType \/ ReadIrq \/ ReadTake)
      <3>1. UNCHANGED <<rx, rxFifo, typed, got>>
        BY <1>1, <2>5 DEF Next, Step, WriteCopy, WriteCommit, WriteKick, WriteWait,
             WriteCheck, ReadFetch, ReadWait, ReadCheck, ReadRearm, Close, Return,
             Call, SetTimeout, WriteIrq, Alarm, HostTake, HostComesAndGoes,
             vars, rings, core
      <3>2. InQ' = InQ
        BY <3>1 DEF InQ, Contents, Slice, Used, Wrap
      <3> QED BY <2>1, <3>1, <3>2
    <2> QED BY <2>2, <2>3, <2>4, <2>5
  <1> QED BY <1>1, InitPipes, InitPipeInv, StepKeepsPipeInv, PTL
         DEF Spec, InputInOrder, InPipe!Spec

\* For rings and FIFOs of every size, bytes reach the other side once and in
\* order, in both directions, wherever the interrupts fall: the driver implements
\* two pipes.
THEOREM JtagImplementsPipes == Spec => BytesInOrder
  BY JtagOutput, JtagInput, PTL DEF BytesInOrder

-----------------------------------------------------------------------------
(***************************************************************************)
(* Alarms.                                                                 *)
(***************************************************************************)
USE WidthAssumption, DelayAssumption

LEMMA Mod ==
    ASSUME NEW i \in 0 .. W + W - 1
    PROVE  i % W = IF i < W THEN i ELSE i - W
  BY SMT

ClockOK ==
    /\ nticks \in 0 .. W - 1 /\ listed \subseteq Alarms
    /\ time \in [Alarms -> 0 .. W - 1] /\ rollover \in [Alarms -> BOOLEAN]

AlarmInv == ClockOK /\ RolloverTells
LEMMA InitAlarmInv == ClockInit => AlarmInv
  BY SMT DEF ClockInit, AlarmInv, ClockOK, RolloverTells

\* A time t at which an alarm set at now for d ticks later is to go off.
LEMMA SetAhead ==
    ASSUME NEW now \in 0 .. W - 1, NEW d \in 1 .. W - 1,
           NEW t, t = (d + now) % W
    PROVE  /\ t \in 0 .. W - 1 /\ t # now
           /\ (IF t >= now THEN t - now ELSE W - now + t) = d
  <1>1. d + now \in 0 .. W + W - 1
    BY SMT
  <1>2. t = IF d + now < W THEN d + now ELSE d + now - W
    BY <1>1, Mod
  <1> QED BY <1>2, SMT

LEMMA StartImplements ==
    ASSUME AlarmInv, NEW a \in Alarms, alt_alarm_start(a)
    PROVE  AlarmInv' /\ Promise!Start(a)
  <1>1. PICK n \in Delays :
          /\ time' = [time EXCEPT ![a] = (n + nticks + 1) % W]
          /\ rollover' = [rollover EXCEPT ![a] = Passed((n + nticks + 1) % W, nticks)]
    BY DEF alt_alarm_start
  <1>2. /\ listed' = listed \cup {a} /\ fired' = {} /\ nticks' = nticks
        /\ a \notin listed
    BY DEF alt_alarm_start
  <1> DEFINE t == (n + nticks + 1) % W
  <1>3. nticks \in 0 .. W - 1 /\ n + 1 \in 1 .. W - 1
        /\ (n + 1) + nticks = n + nticks + 1
    BY SMT DEF AlarmInv, ClockOK
  <1>4. /\ t \in 0 .. W - 1 /\ t # nticks
        /\ (IF t >= nticks THEN t - nticks ELSE W - nticks + t) = n + 1
    <2> DEFINE d == n + 1
    <2>1. d \in 1 .. W - 1 /\ t = (d + nticks) % W
      BY <1>3
    <2> HIDE DEF d, t
    <2>2. /\ t \in 0 .. W - 1 /\ t # nticks
          /\ (IF t >= nticks THEN t - nticks ELSE W - nticks + t) = d
      BY <1>3, <2>1, SetAhead
    <2> QED BY <2>2 DEF d
  <1> HIDE DEF t
  <1>5. /\ time' = [time EXCEPT ![a] = t]
        /\ rollover' = [rollover EXCEPT ![a] = (t < nticks)]
    BY <1>1 DEF t, Passed
  <1>6. ClockOK'
    BY <1>2, <1>4, <1>5 DEF AlarmInv, ClockOK
  <1>7. RolloverTells'
    <2> SUFFICES ASSUME NEW b \in listed'
                 PROVE  time'[b] # nticks /\ (rollover'[b] <=> time'[b] < nticks)
      BY <1>2 DEF RolloverTells
    <2>1. CASE b = a
      BY <1>4, <1>5, <2>1 DEF AlarmInv, ClockOK
    <2>2. CASE b # a
      BY <1>2, <1>5, <2>2 DEF AlarmInv, ClockOK, RolloverTells
    <2> QED BY <2>1, <2>2
  <1>8. Left' = [Left EXCEPT ![a] = n + 1]
    <2>1. \A b \in Alarms : Left'[b] = [Left EXCEPT ![a] = n + 1][b]
      <3> TAKE b \in Alarms
      <3>1. CASE b = a
        <4>1. time'[a] = t /\ a \in listed' /\ nticks' = nticks
          BY <1>2, <1>5 DEF AlarmInv, ClockOK
        <4> QED BY <1>4, <3>1, <4>1 DEF Left
      <3>2. CASE b # a
        <4>1. time'[b] = time[b] /\ (b \in listed' <=> b \in listed) /\ nticks' = nticks
          BY <1>2, <1>5, <3>2 DEF AlarmInv, ClockOK
        <4> QED BY <3>2, <4>1 DEF Left
      <3> QED BY <3>1, <3>2
    <2> QED BY <2>1 DEF Left
  <1>9. Left[a] = 0
    BY <1>2 DEF Left
  <1> QED BY <1>2, <1>6, <1>7, <1>8, <1>9 DEF AlarmInv, Promise!Start

LEMMA StopImplements ==
    ASSUME AlarmInv, NEW a \in Alarms, alt_alarm_stop(a)
    PROVE  AlarmInv' /\ Promise!Stop(a)
  <1>1. listed' = listed \ {a} /\ UNCHANGED <<nticks, time, rollover>> /\ fired' = {}
    BY DEF alt_alarm_stop
  <1>2. AlarmInv'
    BY <1>1 DEF AlarmInv, ClockOK, RolloverTells
  <1>3. Left' = [Left EXCEPT ![a] = 0]
    BY <1>1 DEF Left
  <1> QED BY <1>1, <1>2, <1>3 DEF Promise!Stop

\* An alarm is due on the tick its time is reached, and on no other.
LEMMA DueOnTime ==
    ASSUME AlarmInv, nticks' = (nticks + 1) % W, NEW b \in Alarms
    PROVE  /\ nticks' \in 0 .. W - 1
           /\ Due(b) <=> Left[b] = 1
           /\ Due(b) => time[b] = nticks' /\ ~StillRolling(b)
           /\ b \in listed /\ ~Due(b) =>
                /\ time[b] # nticks'
                /\ StillRolling(b) <=> time[b] < nticks'
                /\ Left[b] - 1 = IF time[b] >= nticks' THEN time[b] - nticks'
                                 ELSE W - nticks' + time[b]
  <1>1. nticks \in 0 .. W - 1 /\ time[b] \in 0 .. W - 1
    BY DEF AlarmInv, ClockOK
  <1>2. nticks' = IF nticks = W - 1 THEN 0 ELSE nticks + 1
    BY <1>1, Mod, SMT
  <1>3. b \in listed => time[b] # nticks /\ (rollover[b] <=> time[b] < nticks)
    BY DEF AlarmInv, RolloverTells
  <1>4. Left[b] = IF b \notin listed THEN 0
                  ELSE IF time[b] >= nticks THEN time[b] - nticks
                  ELSE W - nticks + time[b]
    BY DEF Left
  <1>5. b \in listed => (StillRolling(b) <=> time[b] < nticks /\ nticks' # 0)
    BY <1>3 DEF StillRolling
  <1>6. Due(b) <=> b \in listed /\ time[b] <= nticks' /\ ~StillRolling(b)
    BY DEF Due
  <1>7. Due(b) <=> b \in listed /\ time[b] = nticks'
    BY <1>1, <1>2, <1>3, <1>5, <1>6, SMT
  <1>8. b \in listed => (time[b] = nticks' <=> Left[b] = 1)
    BY <1>1, <1>2, <1>3, <1>4, SMT
  <1>9. Due(b) <=> Left[b] = 1
    BY <1>4, <1>7, <1>8
  <1>10. b \in listed /\ time[b] # nticks' => (StillRolling(b) <=> time[b] < nticks')
    BY <1>1, <1>2, <1>3, <1>5, SMT
  <1>11. b \in listed /\ time[b] # nticks' =>
           Left[b] - 1 = IF time[b] >= nticks' THEN time[b] - nticks'
                         ELSE W - nticks' + time[b]
    BY <1>1, <1>2, <1>3, <1>4, SMT
  <1>12. nticks' \in 0 .. W - 1
    BY <1>1, <1>2, SMT
  <1> QED BY <1>6, <1>7, <1>9, <1>10, <1>11, <1>12

LEMMA TickImplements ==
    ASSUME AlarmInv, alt_tick
    PROVE  AlarmInv' /\ Promise!Tick
  <1>1. /\ nticks' = (nticks + 1) % W /\ fired' = {a \in Alarms : Due(a)}
    BY DEF alt_tick
  <1>2. PICK next \in [Alarms -> Periods] :
          /\ listed' = listed \ {a \in fired' : next[a] = 0}
          /\ time' = [a \in Alarms |-> IF a \in fired' THEN (time[a] + next[a]) % W
                                       ELSE time[a]]
          /\ rollover' = [a \in Alarms |->
                IF a \in listed
                THEN StillRolling(a) \/ (a \in fired' /\ Passed(time'[a], nticks'))
                ELSE rollover[a]]
    BY DEF alt_tick
  <1>3. nticks' \in 0 .. W - 1
    BY <1>1, DueOnTime, SMT DEF AlarmInv, ClockOK
  <1>4. ASSUME NEW b \in Alarms
        PROVE  /\ time'[b] \in 0 .. W - 1 /\ rollover'[b] \in BOOLEAN
               /\ b \in fired' <=> Left[b] = 1
               /\ b \in listed' =>
                    /\ time'[b] # nticks' /\ (rollover'[b] <=> time'[b] < nticks')
               /\ Left'[b] = IF Left[b] = 1 THEN next[b]
                             ELSE IF Left[b] = 0 THEN 0 ELSE Left[b] - 1
    <2>1. /\ Due(b) <=> Left[b] = 1
          /\ Due(b) => time[b] = nticks' /\ ~StillRolling(b) /\ b \in listed
          /\ b \in listed /\ ~Due(b) =>
                /\ time[b] # nticks'
                /\ StillRolling(b) <=> time[b] < nticks'
                /\ Left[b] - 1 = IF time[b] >= nticks' THEN time[b] - nticks'
                                 ELSE W - nticks' + time[b]
      BY <1>1, <1>4, DueOnTime DEF Due
    <2>2. b \in fired' <=> Due(b)
      BY <1>1, <1>4
    <2>3. /\ listed \subseteq Alarms /\ time[b] \in 0 .. W - 1 /\ rollover[b] \in BOOLEAN
          /\ next[b] \in 0 .. W - 1
      BY <1>2, <1>4 DEF AlarmInv, ClockOK
    <2>4. Left[b] = 0 <=> b \notin listed
      <3>1. b \in listed => time[b] # nticks
        BY DEF AlarmInv, RolloverTells
      <3>2. nticks \in 0 .. W - 1
        BY DEF AlarmInv, ClockOK
      <3> QED BY <1>4, <2>3, <3>1, <3>2, SMT DEF Left
    <2>5. CASE Due(b) /\ next[b] = 0
      <3>1. b \notin listed' /\ Left'[b] = 0
        BY <1>2, <1>4, <2>2, <2>5 DEF Left
      <3>2. time'[b] = nticks' % W
        BY <1>2, <1>4, <2>1, <2>2, <2>5, <1>3, SMT
      <3>3. time'[b] \in 0 .. W - 1
        <4>1. nticks' \in 0 .. W + W - 1 /\ nticks' < W
          BY <1>3, SMT
        <4> QED BY <1>3, <3>2, <4>1, Mod
      <3>4. rollover'[b] \in BOOLEAN
        BY <1>2, <1>4, <2>3 DEF StillRolling, Passed, AlarmInv, ClockOK
      <3> QED BY <2>1, <2>2, <2>5, <3>1, <3>3, <3>4
    <2>6. CASE Due(b) /\ next[b] # 0
      <3>1. next[b] \in 1 .. W - 1 /\ b \in listed'
        BY <1>2, <2>1, <2>2, <2>3, <2>6, SMT
      <3>2. time'[b] = (next[b] + nticks') % W
        BY <1>2, <1>3, <1>4, <2>1, <2>2, <2>3, <2>6, SMT
      <3>3. /\ time'[b] \in 0 .. W - 1 /\ time'[b] # nticks'
            /\ (IF time'[b] >= nticks' THEN time'[b] - nticks'
                ELSE W - nticks' + time'[b]) = next[b]
        BY <1>3, <3>1, <3>2, SetAhead
      <3>4. rollover'[b] = (StillRolling(b) \/ (b \in fired' /\ time'[b] < nticks'))
        BY <1>2, <1>4, <2>1, <2>6 DEF Passed
      <3>5. Left'[b] = next[b]
        BY <1>4, <3>1, <3>3 DEF Left
      <3>6. /\ rollover'[b] <=> time'[b] < nticks'
            /\ rollover'[b] \in BOOLEAN
        BY <2>1, <2>2, <2>6, <3>4
      <3> QED BY <2>1, <2>2, <2>6, <3>3, <3>5, <3>6
    <2>7. CASE ~Due(b) /\ b \in listed
      <3>1. time'[b] = time[b] /\ b \in listed'
        BY <1>2, <1>4, <2>2, <2>7
      <3>2. Left'[b] = Left[b] - 1
        BY <1>4, <2>1, <2>7, <3>1 DEF Left
      <3>3. rollover'[b] = (StillRolling(b) \/ (b \in fired' /\ Passed(time'[b], nticks')))
        BY <1>2, <1>4, <2>7
      <3>4. rollover'[b] \in BOOLEAN /\ (rollover'[b] <=> StillRolling(b))
        BY <2>2, <2>7, <3>3
      <3> QED BY <2>1, <2>2, <2>3, <2>4, <2>7, <3>1, <3>2, <3>4
    <2>8. CASE b \notin listed
      <3>1. /\ time'[b] = time[b] /\ b \notin listed' /\ rollover'[b] = rollover[b]
            /\ b \notin fired'
        BY <1>2, <1>4, <2>1, <2>2, <2>8
      <3>2. Left'[b] = 0
        BY <1>4, <3>1 DEF Left
      <3> QED BY <2>1, <2>2, <2>3, <2>4, <2>8, <3>1, <3>2
    <2> QED BY <2>5, <2>6, <2>7, <2>8
  <1>5. ClockOK'
    BY <1>2, <1>3, <1>4 DEF AlarmInv, ClockOK
  <1>6. RolloverTells'
    BY <1>4, <1>5 DEF RolloverTells, ClockOK
  <1>7. fired' = {a \in Alarms : Left[a] = 1}
    BY <1>1, <1>4
  <1>8. Left' = [a \in Alarms |-> IF Left[a] = 1 THEN next[a]
                                  ELSE IF Left[a] = 0 THEN 0 ELSE Left[a] - 1]
    BY <1>4 DEF Left
  <1> QED BY <1>5, <1>6, <1>7, <1>8 DEF AlarmInv, Promise!Tick

LEMMA StepImplements ==
    ASSUME AlarmInv, [ClockNext]_clockVars
    PROVE  AlarmInv' /\ [Promise!Next]_(Promise!vars)
  <1>1. ASSUME UNCHANGED <<nticks, alarms>>
        PROVE  AlarmInv' /\ UNCHANGED Promise!vars
    BY <1>1 DEF AlarmInv, ClockOK, RolloverTells, Promise!vars, Left, alarms
  <1>2. CASE alt_sysclk_init \/ (\E t \in Times : ALT_SETTIMEOFDAY(t)) \/ UNCHANGED clockVars
    BY <1>1, <1>2 DEF alt_sysclk_init, ALT_SETTIMEOFDAY, clockVars
  <1>3. CASE alt_tick
    BY <1>3, TickImplements DEF Promise!Next
  <1>4. CASE \E a \in Alarms : alt_alarm_start(a) \/ alt_alarm_stop(a)
    BY <1>4, StartImplements, StopImplements DEF Promise!Next
  <1> QED BY <1>2, <1>3, <1>4 DEF ClockNext

\* The rollover flag tells a time to come from a time that has passed.
THEOREM ClockRollover == ClockSpec => []RolloverTells
  <1>1. AlarmInv => RolloverTells
    BY DEF AlarmInv
  <1>2. AlarmInv /\ [ClockNext]_clockVars => AlarmInv'
    BY StepImplements
  <1> QED BY <1>1, <1>2, InitAlarmInv, PTL DEF ClockSpec

\* Every alarm is called back on the tick it asked for, for ever.
THEOREM ClockAlarmsOnTime == ClockSpec => AlarmsOnTime
  <1>1. ClockInit => Promise!Init
    BY DEF ClockInit, Promise!Init, Left
  <1>2. AlarmInv /\ [ClockNext]_clockVars => AlarmInv' /\ [Promise!Next]_(Promise!vars)
    BY StepImplements
  <1> QED BY <1>1, <1>2, InitAlarmInv, PTL DEF ClockSpec, AlarmsOnTime, Promise!Spec

(***************************************************************************)
(* Time of day.                                                            *)
(***************************************************************************)
LEMMA Small ==
    ASSUME NEW a \in Int, NEW m \in Nat, -m < a * m, a * m < m
    PROVE  a = 0
  <1>1. a >= 1 => a * m >= m
    BY SMT
  <1>2. a <= -1 => a * m <= -m
    BY SMT
  <1> QED BY <1>1, <1>2, SMT

\* There is one way to divide with a remainder.
LEMMA Unique ==
    ASSUME NEW m \in Nat \ {0}, NEW s \in Int, NEW u \in 0 .. m - 1,
           NEW q \in Int, NEW r \in 0 .. m - 1, m * s + u = m * q + r
    PROVE  s = q /\ u = r
  <1> DEFINE a == s - q
  <1>1. m * s \in Int /\ m * q \in Int
    BY SMT
  <1>2. m * s - m * q = r - u
    BY <1>1, SMT
  <1>3. a \in Int /\ a * m = m * s - m * q
    BY SMT
  <1> HIDE DEF a
  <1>4. -m < a * m /\ a * m < m
    BY <1>2, <1>3, SMT
  <1>5. a = 0
    BY <1>3, <1>4, Small
  <1>6. s = q
    BY <1>5, SMT DEF a
  <1> QED BY <1>6, SMT

LEMMA Division ==
    ASSUME NEW w \in Nat, NEW m \in Nat \ {0}
    PROVE  w \div m \in Int /\ w % m \in 0 .. m - 1 /\ w = m * (w \div m) + (w % m)
  BY SMT

\* The seconds and the microseconds of n ticks, worked out apart, add up.
LEMMA Ticks ==
    ASSUME NEW n \in Nat
    PROVE  /\ ALT_US \div Rate \in Nat /\ n * (ALT_US \div Rate) \in Nat
           /\ n \div Rate \in Int
           /\ (n * (ALT_US \div Rate)) % ALT_US \in 0 .. ALT_US - 1
           /\ n * (ALT_US \div Rate)
                = ALT_US * (n \div Rate) + ((n * (ALT_US \div Rate)) % ALT_US)
  <1> DEFINE k == ALT_US \div Rate
             q == n \div Rate
             r == n % Rate
  <1>1. ALT_US \in Nat \ {0} /\ Rate \in Nat \ {0} /\ ALT_US % Rate = 0
    BY RateAssumption, SMT
  <1>2. k \in Int /\ ALT_US = Rate * k
    BY <1>1, Division, SMT
  <1>3. q \in Int /\ r \in 0 .. Rate - 1 /\ n = Rate * q + r
    BY <1>1, Division
  <1> HIDE DEF k, q, r
  <1>4. k >= 1
    <2>1. k <= 0 => Rate * k <= 0
      BY <1>1, <1>2, SMT
    <2> QED BY <1>1, <1>2, <2>1, SMT
  <1>5. r * k \in 0 .. ALT_US - 1
    <2>1. r * k >= 0 /\ r * k <= (Rate - 1) * k
      BY <1>1, <1>2, <1>3, <1>4, SMT
    <2>2. (Rate - 1) * k = ALT_US - k /\ r * k \in Int
      BY <1>1, <1>2, <1>3, SMT
    <2> QED BY <1>1, <1>2, <1>4, <2>1, <2>2, SMT
  <1>6. n * k = ALT_US * q + r * k
    <2>1. n * k = (Rate * q) * k + r * k
      BY <1>1, <1>2, <1>3, SMT
    <2>2. (Rate * q) * k = (Rate * k) * q
      BY <1>1, <1>2, <1>3, SMT
    <2> QED BY <1>2, <2>1, <2>2
  <1>7. n * k \in Nat
    BY <1>2, <1>4, SMT
  <1>8. /\ (n * k) \div ALT_US \in Int /\ (n * k) % ALT_US \in 0 .. ALT_US - 1
        /\ n * k = ALT_US * ((n * k) \div ALT_US) + ((n * k) % ALT_US)
    BY <1>1, <1>7, Division
  <1>9. ALT_US * ((n * k) \div ALT_US) + ((n * k) % ALT_US) = ALT_US * q + r * k
    BY <1>6, <1>8
  <1>10. (n * k) \div ALT_US = q
    <2> DEFINE d == (n * k) \div ALT_US
               e == (n * k) % ALT_US
               f == r * k
    <2>1. /\ d \in Int /\ e \in 0 .. ALT_US - 1 /\ f \in 0 .. ALT_US - 1
          /\ ALT_US * d + e = ALT_US * q + f
      BY <1>5, <1>8, <1>9
    <2> HIDE DEF d, e, f
    <2>2. d = q
      BY <1>1, <1>3, <2>1, Unique
    <2> QED BY <2>2 DEF d
  <1>11. k \in Nat
    BY <1>2, <1>4, SMT
  <1> QED BY <1>3, <1>7, <1>8, <1>10, <1>11 DEF k, q

Part == Micros % ALT_US

LEMMA Now ==
    ASSUME nticks \in 0 .. W - 1
    PROVE  /\ Micros \in Nat /\ nticks \div Rate \in Int /\ Part \in 0 .. ALT_US - 1
           /\ Micros = ALT_US * (nticks \div Rate) + Part
  <1>1. nticks \in Nat
    BY SMT
  <1> QED BY <1>1, Ticks DEF Micros, Part

\* Whatever alarms, callbacks and time settings do, the clock's variables have
\* their types: the microseconds of the reset time stay within a second either
\* way, from which gettimeofday's one carry or borrow suffices.
THEOREM ClockTypesHold == ClockSpec => []ClockTypes
  <1>1. ClockInit => ClockTypes
    BY RateAssumption DEF ClockInit, ClockTypes
  <1>2. ASSUME ClockTypes, AlarmInv, [ClockNext]_clockVars, AlarmInv'
        PROVE  ClockTypes'
    <2>1. nticks' \in 0 .. W - 1 /\ listed' \subseteq Alarms
          /\ time' \in [Alarms -> 0 .. W - 1] /\ rollover' \in [Alarms -> BOOLEAN]
      BY <1>2 DEF AlarmInv, ClockOK
    <2>2. fired' \subseteq Alarms
      BY <1>2 DEF ClockTypes, ClockNext, clockVars, alarms, alt_sysclk_init, alt_tick,
                  alt_alarm_start, alt_alarm_stop, ALT_SETTIMEOFDAY
    <2>3. tick_rate' \in {0, Rate}
      BY <1>2 DEF ClockTypes, ClockNext, clockVars, alarms, alt_sysclk_init, alt_tick,
                  alt_alarm_start, alt_alarm_stop, ALT_SETTIMEOFDAY
    <2>4. ASSUME NEW t \in Times, ALT_SETTIMEOFDAY(t)
          PROVE  alt_resettime' \in [sec : Int, usec : 1 - ALT_US .. ALT_US - 1]
      <3> DEFINE part == (Micros % W) % ALT_US
                 q == nticks \div Rate
      <3>1. t.sec \in Nat /\ t.usec \in 0 .. ALT_US - 1
        BY TimeAssumption
      <3>2. ALT_US \in Nat \ {0} /\ nticks \in 0 .. W - 1
        BY <1>2, RateAssumption DEF ClockTypes
      <3>3. Micros \in Nat /\ q \in Int
        BY <3>2, Now
      <3>4. part \in 0 .. ALT_US - 1
        <4>1. Micros % W \in Nat
          BY <3>3, SMT
        <4> QED BY <3>2, <4>1, Division
      <3>5. alt_resettime' = [sec |-> t.sec - q, usec |-> t.usec - part]
        BY <2>4 DEF ALT_SETTIMEOFDAY
      <3> HIDE DEF part, q
      <3>6. t.sec - q \in Int
        BY <3>1, <3>3, SMT
      <3>7. t.usec - part \in 1 - ALT_US .. ALT_US - 1
        BY <3>1, <3>2, <3>4, SMT
      <3> QED BY <3>5, <3>6, <3>7
    <2>5. alt_resettime' \in [sec : Int, usec : 1 - ALT_US .. ALT_US - 1]
      <3>1. (\E t \in Times : ALT_SETTIMEOFDAY(t)) \/ UNCHANGED alt_resettime
        BY <1>2 DEF ClockNext, clockVars, alt_sysclk_init, alt_tick,
                    alt_alarm_start, alt_alarm_stop
      <3> QED BY <1>2, <2>4, <3>1 DEF ClockTypes
    <2> QED BY <2>1, <2>2, <2>3, <2>5 DEF ClockTypes
  <1>3. AlarmInv /\ [ClockNext]_clockVars => AlarmInv'
    BY StepImplements
  <1> QED BY <1>1, <1>2, <1>3, InitAlarmInv, PTL DEF ClockSpec

\* The reset time is the wall clock less the ticks that have passed.
TimeInv ==
    /\ nticks \in 0 .. W - 1 /\ wall \in Nat
    /\ alt_resettime.sec \in Int /\ alt_resettime.usec \in 1 - ALT_US .. ALT_US - 1
    /\ sound => ALT_US * alt_resettime.sec + alt_resettime.usec + Micros = wall

\* Carrying between seconds and microseconds normalises a time of day.
LEMMA NormalTime ==
    ASSUME NEW s \in Int, NEW u \in 1 - ALT_US .. ALT_US + ALT_US - 2,
           NEW w \in Nat, ALT_US * s + u = w
    PROVE  Normal(s, u) = [sec |-> w \div ALT_US, usec |-> w % ALT_US]
  <1> DEFINE d == w \div ALT_US
             e == w % ALT_US
  <1>1. ALT_US \in Nat \ {0}
    BY RateAssumption
  <1>2. d \in Int /\ e \in 0 .. ALT_US - 1 /\ w = ALT_US * d + e
    BY <1>1, Division
  <1> HIDE DEF d, e
  <1>3. ASSUME NEW s1 \in Int, NEW u1 \in 0 .. ALT_US - 1, ALT_US * s1 + u1 = w
        PROVE  s1 = d /\ u1 = e
    <2>1. ALT_US * s1 + u1 = ALT_US * d + e
      BY <1>2, <1>3
    <2> QED BY <1>1, <1>2, <2>1, Unique
  <1>4. ALT_US * (s - 1) = ALT_US * s - ALT_US /\ ALT_US * (s + 1) = ALT_US * s + ALT_US
        /\ ALT_US * s \in Int
    BY <1>1, SMT
  <1>5. CASE u < 0
    <2>1. ~(s <= 0)
      <3>1. s <= 0 => ALT_US * s <= 0
        BY <1>1, SMT
      <3> QED BY <1>4, <1>5, <3>1, SMT
    <2>2. s - 1 \in Int /\ u + ALT_US \in 0 .. ALT_US - 1
      BY <1>1, <1>5, SMT
    <2>3. ALT_US * (s - 1) + (u + ALT_US) = w
      BY <1>1, <1>4, SMT
    <2>4. s - 1 = d /\ u + ALT_US = e
      BY <1>3, <2>2, <2>3
    <2> QED BY <1>5, <2>1, <2>4 DEF Normal, d, e
  <1>6. CASE ~(u < 0) /\ u >= ALT_US
    <2>1. s + 1 \in Int /\ u - ALT_US \in 0 .. ALT_US - 1
      BY <1>1, <1>6, SMT
    <2>2. ALT_US * (s + 1) + (u - ALT_US) = w
      BY <1>1, <1>4, SMT
    <2>3. s + 1 = d /\ u - ALT_US = e
      BY <1>3, <2>1, <2>2
    <2> QED BY <1>6, <2>3 DEF Normal, d, e
  <1>7. CASE ~(u < 0) /\ ~(u >= ALT_US)
    <2>1. u \in 0 .. ALT_US - 1
      BY <1>1, <1>7, SMT
    <2>2. s = d /\ u = e
      BY <1>3, <2>1
    <2> QED BY <1>7, <2>2 DEF Normal, d, e
  <1> QED BY <1>5, <1>6, <1>7

LEMMA TimeInvTells == TimeInv => KeepsTime
  <1> SUFFICES ASSUME TimeInv, sound
               PROVE  ALT_GETTIMEOFDAY
                        = [sec |-> wall \div ALT_US, usec |-> wall % ALT_US]
    BY DEF KeepsTime
  <1> DEFINE s == alt_resettime.sec + nticks \div Rate
             u == alt_resettime.usec + Part
  <1>1. ALT_US \in Nat \ {0} /\ alt_resettime.sec \in Int
        /\ alt_resettime.usec \in 1 - ALT_US .. ALT_US - 1 /\ wall \in Nat
        /\ ALT_US * alt_resettime.sec + alt_resettime.usec + Micros = wall
    BY RateAssumption DEF TimeInv
  <1>2. /\ Micros \in Nat /\ nticks \div Rate \in Int /\ Part \in 0 .. ALT_US - 1
        /\ Micros = ALT_US * (nticks \div Rate) + Part
    BY Now DEF TimeInv
  <1>3. s \in Int /\ u \in 1 - ALT_US .. ALT_US + ALT_US - 2
    BY <1>1, <1>2, SMT
  <1>4. ALT_US * s + u = wall
    <2>1. /\ ALT_US * s = ALT_US * alt_resettime.sec + ALT_US * (nticks \div Rate)
          /\ ALT_US * alt_resettime.sec \in Int /\ ALT_US * (nticks \div Rate) \in Int
      BY <1>1, <1>2, SMT
    <2> QED BY <1>1, <1>2, <1>3, <2>1, SMT
  <1> HIDE DEF s, u
  <1>5. Normal(s, u) = [sec |-> wall \div ALT_US, usec |-> wall % ALT_US]
    BY <1>1, <1>3, <1>4, NormalTime
  <1> QED BY <1>5 DEF ALT_GETTIMEOFDAY, Part, s, u

LEMMA TimeInvInit == MCInit => TimeInv
  <1> SUFFICES ASSUME MCInit PROVE TimeInv
    OBVIOUS
  <1>1. ALT_US \in Nat \ {0} /\ ALT_US \div Rate \in Nat
    BY RateAssumption, Ticks
  <1>2. /\ nticks = 0 /\ wall = 0
        /\ alt_resettime.sec = 0 /\ alt_resettime.usec = 0
    BY DEF MCInit, ClockInit
  <1>3. Micros = 0
    BY <1>1, <1>2, SMT DEF Micros
  <1> QED BY <1>1, <1>2, <1>3, SMT DEF TimeInv

LEMMA TimeInvTick ==
    ASSUME TimeInv, alt_tick,
           wall' = IF sound /\ nticks' # 0 THEN wall + ALT_US \div Rate ELSE 0,
           sound' = (sound /\ nticks' # 0)
    PROVE  TimeInv'
  <1> DEFINE k == ALT_US \div Rate
  <1>1. k \in Nat
    BY Ticks
  <1>2. /\ nticks \in 0 .. W - 1 /\ wall \in Nat
        /\ nticks' = (nticks + 1) % W /\ alt_resettime' = alt_resettime
    BY DEF TimeInv, alt_tick
  <1>3. nticks' = IF nticks + 1 < W THEN nticks + 1 ELSE 0
    <2>1. nticks + 1 \in 0 .. W + W - 1
      BY <1>2, SMT
    <2>2. nticks' = IF nticks + 1 < W THEN nticks + 1 ELSE nticks + 1 - W
      BY <1>2, <2>1, Mod
    <2> QED BY <1>2, <2>2, SMT
  <1>4. Micros = nticks * k /\ Micros' = nticks' * k
    BY DEF Micros
  <1> HIDE DEF k
  <1>5. nticks' # 0 => nticks' = nticks + 1
    BY <1>2, <1>3
  <1>6. nticks' # 0 => Micros' = Micros + k /\ Micros \in Int
    BY <1>1, <1>2, <1>4, <1>5, SMT
  <1>7. sound' => sound /\ nticks' # 0 /\ wall' = wall + k
    BY DEF k
  <1>8. sound' =>
          ALT_US * alt_resettime'.sec + alt_resettime'.usec + Micros' = wall'
    <2>1. ALT_US * alt_resettime.sec \in Int /\ alt_resettime.usec \in Int
      BY RateAssumption, SMT DEF TimeInv
    <2>2. sound => ALT_US * alt_resettime.sec + alt_resettime.usec + Micros = wall
      BY DEF TimeInv
    <2> QED BY <1>1, <1>2, <1>6, <1>7, <2>1, <2>2, SMT
  <1>9. wall' \in Nat /\ nticks' \in 0 .. W - 1
    <2>1. wall' = wall + k \/ wall' = 0
      BY DEF k
    <2>2. wall' \in Nat
      BY <1>1, <1>2, <2>1, SMT
    <2>3. nticks' \in 0 .. W - 1
      BY <1>2, <1>3, SMT
    <2> QED BY <2>2, <2>3
  <1> QED BY <1>2, <1>8, <1>9 DEF TimeInv

LEMMA TimeInvSet ==
    ASSUME TimeInv, NEW t \in Times, ALT_SETTIMEOFDAY(t),
           sound' = (Micros < W),
           wall' = IF sound' THEN t.sec * ALT_US + t.usec ELSE 0
    PROVE  TimeInv'
  <1>1. /\ ALT_US \in Nat \ {0} /\ t.sec \in Nat /\ t.usec \in 0 .. ALT_US - 1
        /\ nticks \in 0 .. W - 1
    BY RateAssumption, TimeAssumption DEF TimeInv
  <1>2. /\ nticks' = nticks /\ Micros' = Micros
        /\ alt_resettime'.sec = t.sec - nticks \div Rate
        /\ alt_resettime'.usec = t.usec - ((Micros % W) % ALT_US)
    BY DEF ALT_SETTIMEOFDAY, Micros
  <1>3. /\ Micros \in Nat /\ nticks \div Rate \in Int /\ Part \in 0 .. ALT_US - 1
        /\ Micros = ALT_US * (nticks \div Rate) + Part
    BY <1>1, Now
  <1>4. (Micros % W) % ALT_US \in 0 .. ALT_US - 1
    <2>1. Micros % W \in Nat
      BY <1>3, SMT
    <2> QED BY <1>1, <2>1, Division
  <1>5. Micros < W => (Micros % W) % ALT_US = Part
    <2>1. Micros < W => Micros % W = Micros
      <3>1. Micros < W => Micros \in 0 .. W + W - 1
        BY <1>3, SMT
      <3> QED BY <3>1, Mod
    <2> QED BY <2>1 DEF Part
  <1>6. alt_resettime'.sec \in Int /\ alt_resettime'.usec \in 1 - ALT_US .. ALT_US - 1
    BY <1>1, <1>2, <1>3, <1>4, SMT
  <1>7. t.sec * ALT_US + t.usec \in Nat
    BY <1>1, SMT
  <1>8. sound' =>
          ALT_US * alt_resettime'.sec + alt_resettime'.usec + Micros' = wall'
    <2> SUFFICES ASSUME sound'
                 PROVE  ALT_US * alt_resettime'.sec + alt_resettime'.usec + Micros'
                          = t.sec * ALT_US + t.usec
      OBVIOUS
    <2> DEFINE q == nticks \div Rate
    <2>1. alt_resettime'.sec = t.sec - q /\ alt_resettime'.usec = t.usec - Part
          /\ q \in Int /\ Micros = ALT_US * q + Part /\ Micros' = Micros
      BY <1>2, <1>3, <1>5
    <2> HIDE DEF q
    <2>2. ALT_US * (t.sec - q) = t.sec * ALT_US - ALT_US * q
          /\ t.sec * ALT_US \in Int /\ ALT_US * q \in Int
      BY <1>1, <2>1, SMT
    <2> QED BY <1>1, <1>3, <2>1, <2>2, SMT
  <1> QED BY <1>1, <1>2, <1>6, <1>7, <1>8 DEF TimeInv

\* The time of day is right until the counter wraps, if it was set right.
THEOREM ClockKeepsTime == MCSpec => []KeepsTime
  <1>1. TimeInv /\ [MCNext]_<<clockVars, wall, sound>> => TimeInv'
    <2> SUFFICES ASSUME TimeInv, [MCNext]_<<clockVars, wall, sound>> PROVE TimeInv'
      OBVIOUS
    <2>1. ASSUME UNCHANGED <<nticks, alt_resettime, wall, sound>> PROVE TimeInv'
      BY <2>1 DEF TimeInv, Micros
    <2>2. CASE alt_tick /\ wall' = (IF sound /\ nticks' # 0 THEN wall + ALT_US \div Rate
                                    ELSE 0)
                        /\ sound' = (sound /\ nticks' # 0)
      BY <2>2, TimeInvTick
    <2>3. CASE \E t \in Times :
                 /\ ALT_SETTIMEOFDAY(t)
                 /\ sound' = (Micros < W)
                 /\ wall' = IF sound' THEN t.sec * ALT_US + t.usec ELSE 0
      BY <2>3, TimeInvSet
    <2>4. CASE /\ alt_sysclk_init \/ \E a \in Alarms : alt_alarm_start(a) \/ alt_alarm_stop(a)
               /\ UNCHANGED <<wall, sound>>
      BY <2>1, <2>4 DEF alt_sysclk_init, alt_alarm_start, alt_alarm_stop
    <2>5. CASE UNCHANGED <<clockVars, wall, sound>>
      BY <2>1, <2>5 DEF clockVars
    <2> QED BY <2>2, <2>3, <2>4, <2>5 DEF MCNext
  <1> QED BY <1>1, TimeInvInit, TimeInvTells, PTL DEF MCSpec

=============================================================================
