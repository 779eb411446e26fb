-------------------------- MODULE VgaTimingProofs --------------------------
(***************************************************************************)
(* The raster for every screen size: where the sync pulses are, that the   *)
(* game's clock and its reset button exclude each other, and how many      *)
(* pixels there are from one frame of the game to the next.                *)
(***************************************************************************)
EXTENDS MCVga, TLAPS

\* The pulses are one pixel behind the counters they are computed from, so the
\* vertical one ends one pixel into the line after its last.
IInv ==
    /\ TypeOK
    /\ ~hs => \/ hc \in HSyncFirst .. HSyncEnd - 1
              \/ hc = 0 /\ vc = 0
    /\ ~vs => \/ vc \in {VSyncFirst - 1, VSyncFirst}
              \/ vc = VSyncFirst + 1 /\ hc = 0
              \/ hc = 0 /\ vc = 0
    /\ Reset_h => ~vs

LEMMA Screen ==
    /\ hpixels \in Nat /\ vlines \in Nat /\ HVisible \in Nat /\ VVisible \in Nat
    /\ hpixels > 0 /\ vlines > 0 /\ HVisible > 0 /\ VVisible > 0
    /\ HSyncFirst \in Nat /\ HSyncEnd \in Nat /\ VSyncFirst \in Nat
    /\ HVisible <= HSyncFirst /\ HSyncFirst < HSyncEnd /\ HSyncEnd <= hpixels
    /\ VVisible < VSyncFirst /\ VSyncFirst < vlines
<1>1. \A n \in {hpixels, vlines, HVisible, VVisible} : n \in Nat /\ n > 0
  BY RasterAssumption
<1> QED
  BY <1>1, RasterAssumption

LEMMA InitIInv == Init => IInv
<1> SUFFICES ASSUME Init PROVE IInv
  OBVIOUS
<1>1. hc \in 0 .. hpixels /\ vc \in 0 .. vlines
  BY Screen DEF Init
<1> QED
  BY <1>1 DEF Init, IInv, TypeOK

\* One pixel.
LEMMA PixelIInv ==
    ASSUME IInv, Clock, ~clkdiv
    PROVE  IInv'
<1> USE Screen
<1>1. /\ hc' = IF hc = hpixels THEN 0 ELSE hc + 1
      /\ vc' = IF hc = hpixels THEN NextLine ELSE vc
      /\ hs' = NextHs /\ vs' = NextVs
      /\ ~Reset_h /\ Reset_h' = Reset_h /\ clkdiv' = ~clkdiv
  BY DEF Clock, Pixel
<1>2. hc \in 0 .. hpixels /\ vc \in 0 .. vlines
  BY DEF IInv, TypeOK
<1>3. hc' \in 0 .. hpixels /\ vc' \in 0 .. vlines
  BY <1>1, <1>2 DEF NextLine
<1>4. Reset_h' \in BOOLEAN /\ clkdiv' \in BOOLEAN /\ hs' \in BOOLEAN /\ vs' \in BOOLEAN
  BY <1>1 DEF IInv, TypeOK, NextHs, NextVs
<1>5. ~hs' => hc' \in HSyncFirst .. HSyncEnd - 1
  <2> SUFFICES ASSUME ~hs' PROVE hc' \in HSyncFirst .. HSyncEnd - 1
    OBVIOUS
  <2>1. hc + 1 >= HSyncFirst /\ hc + 1 < HSyncEnd
    BY <1>1 DEF NextHs
  <2>2. hc' = hc + 1
    BY <1>1, <1>2, <2>1
  <2> QED
    BY <1>2, <2>1, <2>2
<1>6. ~vs' => \/ vc' \in {VSyncFirst - 1, VSyncFirst}
              \/ vc' = VSyncFirst + 1 /\ hc' = 0
  <2> SUFFICES ASSUME ~vs'
               PROVE  \/ vc' \in {VSyncFirst - 1, VSyncFirst}
                      \/ vc' = VSyncFirst + 1 /\ hc' = 0
    OBVIOUS
  <2>1. vc = VSyncFirst - 1 \/ vc = VSyncFirst
    <3>1. ~NextVs
      BY <1>1
    <3> QED
      BY <3>1, <1>2 DEF NextVs
  <2>2. \/ vc' = vc
        \/ vc' = vc + 1 /\ hc' = 0
    BY <1>1, <1>2, <2>1 DEF NextLine
  <2> QED
    BY <2>1, <2>2
<1> QED
  BY <1>1, <1>3, <1>4, <1>5, <1>6 DEF IInv, TypeOK

LEMMA NextIInv == IInv /\ [Next]_vars => IInv'
<1> SUFFICES ASSUME IInv, [Next]_vars PROVE IInv'
  OBVIOUS
<1>1. CASE Press
  <2>1. hc' \in 0 .. hpixels /\ vc' \in 0 .. vlines
    BY <1>1, Screen DEF Press, ResetRaster
  <2> QED
    BY <1>1, <2>1 DEF Press, ResetRaster, IInv, TypeOK
<1>2. CASE Release
  BY <1>2 DEF Release, raster, IInv, TypeOK
<1>3. CASE Clock /\ clkdiv
  BY <1>3 DEF Clock, IInv, TypeOK
<1>4. CASE Clock /\ ~clkdiv
  BY <1>4, PixelIInv
<1>5. CASE UNCHANGED vars
  BY <1>5 DEF vars, raster, IInv, TypeOK
<1> QED
  BY <1>1, <1>2, <1>3, <1>4, <1>5 DEF Next

\* The counters keep to the raster, for every screen size.
THEOREM RasterTypeCorrect == Spec => []TypeOK
<1>1. IInv => TypeOK
  BY DEF IInv
<1> QED
  BY <1>1, InitIInv, NextIInv, PTL DEF Spec

\* Sync pulses and picture never overlap, the first pixel after a reset apart.
THEOREM SyncStaysOutside == Spec => []SyncOutsidePicture
<1>1. IInv => SyncOutsidePicture
  BY Screen DEF IInv, TypeOK, SyncOutsidePicture, display
<1> QED
  BY <1>1, InitIInv, NextIInv, PTL DEF Spec

\* No frame ever sees the reset button, so a synchronous reset never happens.
THEOREM ResetIsNeverSampled == Spec => ResetNeverSampled
<1>1. IInv /\ [Next]_vars => [FrameEdge => ~Reset_h /\ ~Reset_h']_vars
  <2> SUFFICES ASSUME IInv, Next, FrameEdge PROVE ~Reset_h /\ ~Reset_h'
    OBVIOUS
  <2>1. CASE Press
    BY <2>1 DEF Press, ResetRaster, FrameEdge
  <2>2. CASE Release
    BY <2>2 DEF Release, raster, FrameEdge
  <2>3. CASE Clock
    BY <2>3 DEF Clock
  <2> QED
    BY <2>1, <2>2, <2>3 DEF Next
<1> QED
  BY <1>1, InitIInv, NextIInv, PTL DEF Spec, ResetNeverSampled

-----------------------------------------------------------------------------
(***************************************************************************)
(* From frame to frame.  Pos numbers the pixels of a picture; PulseEnd is  *)
(* the one whose end raises vs.                                            *)
(***************************************************************************)
Line(n) == n * (hpixels + 1)
Pos == Line(vc) + hc
PulseEnd == Line(VSyncFirst + 1)

LEMMA Lines ==
    /\ \A n \in Nat : Line(n) \in Nat /\ Line(n + 1) = Line(n) + hpixels + 1
    /\ Line(0) = 0 /\ Period = Line(vlines + 1)
<1> USE Screen
<1>1. ASSUME NEW n \in Nat
      PROVE  Line(n) \in Nat /\ Line(n + 1) = Line(n) + hpixels + 1
  <2>1. n * (hpixels + 1) \in Nat
    BY SMT
  <2>2. (n + 1) * (hpixels + 1) = n * (hpixels + 1) + hpixels + 1
    BY SMT
  <2> QED
    BY <2>1, <2>2 DEF Line
<1>2. 0 * (hpixels + 1) = 0
  BY SMT
<1>3. (hpixels + 1) * (vlines + 1) = (vlines + 1) * (hpixels + 1)
  BY SMT
<1> QED
  BY <1>1, <1>2, <1>3 DEF Line, Period

\* A line that comes earlier starts earlier, by a line's pixels at least.
LEMMA LinesInOrder ==
    \A m, n \in Nat : m < n => Line(m) + hpixels + 1 <= Line(n)
<1> SUFFICES ASSUME NEW m \in Nat, NEW n \in Nat, m < n
             PROVE  Line(m) + hpixels + 1 <= Line(n)
  OBVIOUS
<1> USE Screen
<1> DEFINE d == n - m - 1
<1>1. d \in Nat /\ n = m + 1 + d
  OBVIOUS
<1>2. (m + 1 + d) * (hpixels + 1) = (m + 1) * (hpixels + 1) + d * (hpixels + 1)
  <2> HIDE DEF d
  <2> QED
    BY <1>1, SMT
<1>3. d * (hpixels + 1) \in Nat
  <2> HIDE DEF d
  <2> QED
    BY <1>1, SMT
<1>4. Line(n) = Line(m + 1) + d * (hpixels + 1)
  BY <1>1, <1>2 DEF Line
<1>5. /\ Line(m) \in Nat /\ Line(m + 1) = Line(m) + hpixels + 1
      /\ Line(n) \in Nat /\ Line(m + 1) \in Nat
  <2>1. m + 1 \in Nat
    OBVIOUS
  <2> QED
    BY <2>1, Lines
<1> QED
  <2> HIDE DEF d
  <2> QED
    BY <1>3, <1>4, <1>5, SMT

\* The pulse ends within the picture's time, and a pixel's number says which it
\* is as far as the pulse is concerned.
LEMMA Numbers ==
    ASSUME TypeOK
    PROVE  /\ Pos \in 0 .. Period - 1 /\ Period \in Nat
           /\ PulseEnd \in Nat /\ 1 < PulseEnd /\ PulseEnd < Period - 1
           /\ Pos = PulseEnd <=> vc = VSyncFirst + 1 /\ hc = 0
           /\ Pos = 0 <=> vc = 0 /\ hc = 0
           /\ Pos = Period - 1 <=> vc = vlines /\ hc = hpixels
<1> USE Screen
<1>1. hc \in 0 .. hpixels /\ vc \in 0 .. vlines /\ vc \in Nat
  BY DEF TypeOK
<1>2. /\ Line(vc) \in Nat /\ Line(vc + 1) = Line(vc) + hpixels + 1
      /\ Line(0) = 0 /\ Period = Line(vlines + 1)
      /\ Line(vlines) \in Nat /\ Line(vlines + 1) = Line(vlines) + hpixels + 1
      /\ PulseEnd \in Nat
  <2>1. VSyncFirst + 1 \in Nat /\ vlines + 1 \in Nat
    OBVIOUS
  <2> QED
    BY <1>1, <2>1, Lines DEF PulseEnd
<1>3. /\ vc < vlines => Line(vc) + hpixels + 1 <= Line(vlines)
      /\ vc < VSyncFirst + 1 => Line(vc) + hpixels + 1 <= PulseEnd
      /\ VSyncFirst + 1 < vc => PulseEnd + hpixels + 1 <= Line(vc)
      /\ 0 < vc => Line(0) + hpixels + 1 <= Line(vc)
      /\ Line(0) + hpixels + 1 <= PulseEnd
      /\ PulseEnd + hpixels + 1 <= Line(vlines + 1)
  <2>1. VSyncFirst + 1 \in Nat /\ vlines + 1 \in Nat /\ 0 \in Nat
    OBVIOUS
  <2>2. 0 < VSyncFirst + 1 /\ VSyncFirst + 1 < vlines + 1
    OBVIOUS
  <2> QED
    BY <1>1, <2>1, <2>2, LinesInOrder DEF PulseEnd
<1>4. vc = VSyncFirst + 1 => Line(vc) = PulseEnd
  BY DEF PulseEnd
<1>5. vc = vlines => Line(vc) = Line(vlines)
  OBVIOUS
<1>6. vc = 0 => Line(vc) = 0
  BY <1>2
<1> DEFINE P == Pos
<1>7. P = Line(vc) + hc
  BY DEF Pos
<1> HIDE DEF P
<1>8. P \in 0 .. Period - 1 /\ Period \in Nat
  <2>1. vc = vlines \/ vc < vlines
    BY <1>1
  <2> QED
    BY <1>1, <1>2, <1>3, <1>5, <1>7, <2>1
<1>9. 1 < PulseEnd /\ PulseEnd < Period - 1
  BY <1>2, <1>3
<1>10. P = PulseEnd <=> vc = VSyncFirst + 1 /\ hc = 0
  <2>1. vc = VSyncFirst + 1 \/ vc < VSyncFirst + 1 \/ VSyncFirst + 1 < vc
    BY <1>1
  <2> QED
    BY <1>1, <1>2, <1>3, <1>4, <1>7, <2>1
<1>11. P = 0 <=> vc = 0 /\ hc = 0
  BY <1>1, <1>2, <1>3, <1>6, <1>7
<1>12. P = Period - 1 <=> vc = vlines /\ hc = hpixels
  <2>1. vc = vlines \/ vc < vlines
    BY <1>1
  <2> QED
    BY <1>1, <1>2, <1>3, <1>5, <1>7, <2>1
<1> QED
  BY <1>2, <1>8, <1>9, <1>10, <1>11, <1>12 DEF P

\* Since a frame, the pixels counted are those from PulseEnd to here; before the
\* second frame, those from the first.  vs is low where the pulse is about to
\* end, and at the first pixel only after a reset.
Counted ==
    /\ frames \in {0, 1, 2} /\ pixels \in 0 .. Period - 1
    /\ frames = 0 => pixels = 0
    /\ frames = 1 => pixels = Pos - 1 /\ Pos <= PulseEnd
    /\ frames = 2 => pixels = IF Pos > PulseEnd THEN Pos - PulseEnd - 1
                              ELSE Pos + Period - PulseEnd - 1

FrameInv ==
    /\ IInv
    /\ Counted
    /\ fresh \in BOOLEAN
    /\ fresh <=> frames = 0
    /\ fresh => ~clkdiv /\ ~vs /\ hc = 0 /\ vc = 0
    /\ ~vs /\ hc = 0 /\ vc = 0 => fresh
    /\ vc = VSyncFirst + 1 /\ hc = 0 => ~vs

LEMMA InitFrameInv == MCInit => FrameInv
<1> SUFFICES ASSUME MCInit PROVE FrameInv
  OBVIOUS
<1>1. IInv
  BY InitIInv DEF MCInit
<1>2. 0 \in 0 .. Period - 1
  BY <1>1, Numbers DEF IInv
<1> QED
  BY <1>1, <1>2, Screen DEF FrameInv, Counted, MCInit, Init

\* Where a pixel leads, and when it is the last one before a frame.
LEMMA PixelStep ==
    ASSUME FrameInv, Clock, ~clkdiv
    PROVE  /\ Pos' = IF Pos = Period - 1 THEN 0 ELSE Pos + 1
           /\ FrameEdge <=> fresh \/ Pos = PulseEnd
           /\ ~vs' => vc' # 0
           /\ vc' = VSyncFirst + 1 /\ hc' = 0 => ~vs'
           /\ fresh => Pos = 0
<1> USE Screen
<1>1. /\ hc' = IF hc = hpixels THEN 0 ELSE hc + 1
      /\ vc' = IF hc = hpixels THEN NextLine ELSE vc
      /\ vs' = NextVs
  BY DEF Clock, Pixel
<1>2. hc \in 0 .. hpixels /\ vc \in 0 .. vlines /\ TypeOK /\ IInv
  BY DEF FrameInv, IInv, TypeOK
<1>3. vs' <=> vc # VSyncFirst - 1 /\ vc # VSyncFirst
  <2>1. NextVs <=> vc # VSyncFirst - 1 /\ vc # VSyncFirst
    BY <1>2 DEF NextVs
  <2> QED
    BY <1>1, <2>1, Zenon
<1>4. Pos' = IF Pos = Period - 1 THEN 0 ELSE Pos + 1
  <2>1. /\ Line(vc) \in Nat /\ Line(vc + 1) = Line(vc) + hpixels + 1
        /\ Line(0) = 0
    BY <1>2, Lines
  <2>2. Pos = Line(vc) + hc /\ Pos' = Line(vc') + hc'
    BY DEF Pos, Line
  <2>3. CASE hc # hpixels
    <3>1. vc' = vc /\ hc' = hc + 1
      BY <1>1, <2>3
    <3>2. Pos' = Line(vc) + (hc + 1)
      BY <3>1, <2>2
    <3>3. Pos # Period - 1
      BY <1>2, <2>3, Numbers
    <3> QED
      BY <1>2, <2>1, <2>2, <3>2, <3>3
  <2>4. CASE hc = hpixels /\ vc # vlines
    <3>1. vc' = vc + 1 /\ hc' = 0
      BY <1>1, <2>4 DEF NextLine
    <3>2. Pos' = Line(vc + 1) + 0
      BY <3>1, <2>2
    <3>3. Pos # Period - 1
      BY <1>2, <2>4, Numbers
    <3> QED
      BY <1>2, <2>1, <2>2, <2>4, <3>2, <3>3
  <2>5. CASE hc = hpixels /\ vc = vlines
    <3>1. vc' = 0 /\ hc' = 0
      BY <1>1, <2>5 DEF NextLine
    <3>2. Pos' = Line(0) + 0
      BY <3>1, <2>2
    <3>3. Pos = Period - 1
      BY <1>2, <2>5, Numbers
    <3> QED
      BY <2>1, <3>2, <3>3
  <2> QED
    BY <2>3, <2>4, <2>5
<1>5. FrameEdge <=> fresh \/ Pos = PulseEnd
  <2>1. ASSUME FrameEdge PROVE fresh \/ Pos = PulseEnd
    <3>1. ~vs /\ vc # VSyncFirst - 1 /\ vc # VSyncFirst
      BY <1>3, <2>1 DEF FrameEdge
    <3>2. \/ vc = VSyncFirst + 1 /\ hc = 0
          \/ hc = 0 /\ vc = 0
      BY <1>2, <3>1 DEF IInv
    <3> QED
      BY <1>2, <3>1, <3>2, Numbers DEF FrameInv
  <2>2. ASSUME fresh PROVE FrameEdge
    <3>1. ~vs /\ vc = 0
      BY <2>2 DEF FrameInv
    <3>2. vc # VSyncFirst - 1 /\ vc # VSyncFirst
      BY <3>1
    <3> QED
      BY <1>3, <3>1, <3>2, Zenon DEF FrameEdge
  <2>3. ASSUME Pos = PulseEnd PROVE FrameEdge
    <3>1. vc = VSyncFirst + 1 /\ hc = 0
      BY <1>2, <2>3, Numbers
    <3>2. ~vs
      BY <3>1 DEF FrameInv
    <3>3. vc # VSyncFirst - 1 /\ vc # VSyncFirst
      BY <3>1
    <3> QED
      BY <1>3, <3>2, <3>3, Zenon DEF FrameEdge
  <2> QED
    BY <2>1, <2>2, <2>3
<1>6. ~vs' => vc' # 0
  <2> SUFFICES ASSUME ~vs' PROVE vc' # 0
    OBVIOUS
  <2>1. vc = VSyncFirst - 1 \/ vc = VSyncFirst
    BY <1>3, Zenon
  <2>2. vc' = IF hc = hpixels THEN NextLine ELSE vc
    BY <1>1, Zenon
  <2> QED
    BY <1>2, <2>1, <2>2 DEF NextLine
<1>7. vc' = VSyncFirst + 1 /\ hc' = 0 => ~vs'
  <2> SUFFICES ASSUME vc' = VSyncFirst + 1, hc' = 0 PROVE vc = VSyncFirst
    BY <1>3
  <2>1. hc = hpixels
    BY <1>1, <1>2
  <2> QED
    BY <1>1, <1>2, <2>1 DEF NextLine
<1>8. fresh => Pos = 0
  BY <1>2, Numbers DEF FrameInv
<1> QED
  BY <1>4, <1>5, <1>6, <1>7, <1>8

LEMMA NextFrameInv == FrameInv /\ [MCNext]_<<vars, history>> => FrameInv'
<1> SUFFICES ASSUME FrameInv, [MCNext]_<<vars, history>> PROVE FrameInv'
  OBVIOUS
<1> USE Screen
<1>1. IInv'
  BY NextIInv DEF FrameInv, MCNext, MCPress, MCRelease, MCClock, Next
<1>2. /\ Pos \in 0 .. Period - 1 /\ Period \in Nat
      /\ PulseEnd \in Nat /\ 1 < PulseEnd /\ PulseEnd < Period - 1
  BY Numbers DEF FrameInv, IInv
<1>3. Period' = Period /\ PulseEnd' = PulseEnd
  BY DEF Period, PulseEnd, Line
<1>4. CASE MCPress
  <2>1. /\ fresh' = TRUE /\ frames' = 0 /\ pixels' = 0
        /\ clkdiv' = FALSE /\ vs' = FALSE /\ hc' = 0 /\ vc' = 0
    BY <1>4 DEF MCPress, Press, ResetRaster
  <2> QED
    BY <1>1, <1>2, <1>3, <2>1 DEF FrameInv, Counted
<1>5. CASE \/ MCRelease \/ UNCHANGED <<vars, history>>
           \/ MCClock /\ clkdiv
  <2>1. UNCHANGED <<hc, vc, vs, frames, pixels>>
    <3>1. CASE MCRelease \/ UNCHANGED <<vars, history>>
      BY <3>1 DEF MCRelease, Release, vars, raster, history
    <3>2. CASE MCClock /\ clkdiv
      <4>1. /\ UNCHANGED <<hc, vc, vs>>
            /\ frames' = IF FrameEdge /\ frames < 2 THEN frames + 1 ELSE frames
            /\ pixels' = IF FrameEdge THEN 0
                         ELSE IF clkdiv \/ pixels > Period THEN pixels
                         ELSE pixels + 1
        BY <3>2 DEF MCClock, Clock
      <4>2. ~FrameEdge
        BY <4>1, Zenon DEF FrameEdge
      <4> QED
        BY <3>2, <4>1, <4>2, Zenon
    <3> QED
      BY <1>5, <3>1, <3>2
  <2>2. fresh' = fresh /\ (fresh => ~clkdiv')
    BY <1>5 DEF MCRelease, Release, MCClock, Clock, vars, raster, history, FrameInv
  <2>3. Pos' = Pos
    BY <2>1 DEF Pos, Line
  <2> QED
    BY <1>1, <1>3, <2>1, <2>2, <2>3 DEF FrameInv, Counted
<1>6. CASE MCClock /\ ~clkdiv
  <2>1. /\ fresh' = FALSE
        /\ frames' = IF FrameEdge /\ frames < 2 THEN frames + 1 ELSE frames
        /\ pixels' = IF FrameEdge THEN 0
                     ELSE IF pixels > Period THEN pixels ELSE pixels + 1
    BY <1>6 DEF MCClock, FrameInv
  <2>2. /\ Pos' = IF Pos = Period - 1 THEN 0 ELSE Pos + 1
        /\ FrameEdge <=> fresh \/ Pos = PulseEnd
        /\ ~vs' => vc' # 0
        /\ vc' = VSyncFirst + 1 /\ hc' = 0 => ~vs'
        /\ fresh => Pos = 0
    BY <1>6, PixelStep DEF MCClock
  <2>3. /\ ~fresh'
        /\ ~vs' /\ hc' = 0 /\ vc' = 0 => fresh'
        /\ vc' = VSyncFirst + 1 /\ hc' = 0 => ~vs'
    BY <2>1, <2>2, Zenon
  <2>4. ASSUME FrameEdge PROVE Counted' /\ frames' # 0
    <3>1. pixels' = 0
      BY <2>1, <2>4
    <3>2. CASE fresh
      <4>1. frames' = 1 /\ Pos' = 1
        BY <1>2, <2>1, <2>2, <2>4, <3>2 DEF FrameInv, Counted
      <4> QED
        BY <1>2, <1>3, <3>1, <4>1 DEF Counted
    <3>3. CASE ~fresh
      <4>1. frames' = 2 /\ Pos' = PulseEnd + 1
        BY <1>2, <2>1, <2>2, <2>4, <3>3 DEF FrameInv, Counted
      <4> QED
        BY <1>2, <1>3, <3>1, <4>1 DEF Counted
    <3> QED
      BY <3>2, <3>3
  <2>5. ASSUME ~FrameEdge PROVE Counted' /\ frames' # 0
    <3>1. /\ ~fresh /\ Pos # PulseEnd /\ frames' = frames /\ frames \in {1, 2}
          /\ pixels \in 0 .. Period - 1 /\ pixels' = pixels + 1
      BY <1>2, <2>1, <2>2, <2>5 DEF FrameInv, Counted
    <3>2. /\ frames = 1 => pixels = Pos - 1 /\ Pos <= PulseEnd
          /\ frames = 2 => pixels = IF Pos > PulseEnd THEN Pos - PulseEnd - 1
                                    ELSE Pos + Period - PulseEnd - 1
      BY DEF FrameInv, Counted
    <3>3. /\ frames = 1 => pixels' = Pos' - 1 /\ Pos' <= PulseEnd
          /\ frames = 2 => pixels' = IF Pos' > PulseEnd THEN Pos' - PulseEnd - 1
                                     ELSE Pos' + Period - PulseEnd - 1
          /\ pixels' \in 0 .. Period - 1
      <4> DEFINE P == Pos
                 Q == Pos'
      <4>1. /\ P \in 0 .. Period - 1 /\ P # PulseEnd
            /\ Q = IF P = Period - 1 THEN 0 ELSE P + 1
            /\ frames = 1 => pixels = P - 1 /\ P <= PulseEnd
            /\ frames = 2 => pixels = IF P > PulseEnd THEN P - PulseEnd - 1
                                      ELSE P + Period - PulseEnd - 1
        BY <1>2, <2>2, <3>1, <3>2
      <4> HIDE DEF P, Q
      <4>2. /\ frames = 1 => pixels' = Q - 1 /\ Q <= PulseEnd
            /\ frames = 2 => pixels' = IF Q > PulseEnd THEN Q - PulseEnd - 1
                                       ELSE Q + Period - PulseEnd - 1
            /\ pixels' \in 0 .. Period - 1
        BY <1>2, <3>1, <4>1
      <4> QED
        BY <4>2 DEF P, Q
    <3> QED
      BY <1>1, <1>3, <3>1, <3>3 DEF Counted
  <2>6. Counted' /\ frames' # 0
    BY <2>4, <2>5
  <2> QED
    BY <1>1, <2>1, <2>3, <2>6, Zenon DEF FrameInv
<1>7. MCPress \/ MCRelease \/ MCClock \/ UNCHANGED <<vars, history>>
  BY DEF MCNext
<1> QED
  BY <1>4, <1>5, <1>6, <1>7

\* For every screen size, no more pixels than a picture has pass without a frame
\* of the game, however the button is pressed, and frames are equally long from
\* the second one on.
THEOREM FramesAreEven == MCSpec => EvenFrames
<1>1. FrameInv /\ [MCNext]_<<vars, history>>
        => [ /\ pixels' < Period
             /\ FrameEdge =>
                   \/ frames = 0 /\ fresh
                   \/ frames = 1 /\ pixels < Period
                   \/ frames = 2 /\ pixels + 1 = Period ]_<<vars, history>>
  <2> SUFFICES ASSUME FrameInv, MCNext
               PROVE  /\ pixels' < Period
                      /\ FrameEdge =>
                            \/ frames = 0 /\ fresh
                            \/ frames = 1 /\ pixels < Period
                            \/ frames = 2 /\ pixels + 1 = Period
    OBVIOUS
  <2>1. Period \in Nat /\ Period' = Period /\ PulseEnd \in Nat
    BY Numbers DEF FrameInv, IInv, Period
  <2>2. pixels' < Period
    <3>1. pixels' \in 0 .. Period' - 1
      BY NextFrameInv DEF FrameInv, Counted
    <3> QED
      BY <2>1, <3>1
  <2>3. ASSUME FrameEdge
        PROVE  \/ frames = 0 /\ fresh
               \/ frames = 1 /\ pixels < Period
               \/ frames = 2 /\ pixels + 1 = Period
    <3>1. Clock /\ ~clkdiv
      BY <2>3 DEF MCNext, MCPress, MCRelease, MCClock, Press, Release, Clock,
                  ResetRaster, raster, FrameEdge
    <3>2. fresh \/ Pos = PulseEnd
      BY <2>3, <3>1, PixelStep
    <3> QED
      BY <2>1, <3>2 DEF FrameInv, Counted
  <2> QED
    BY <2>2, <2>3
<1> QED
  BY <1>1, InitFrameInv, NextFrameInv, PTL DEF MCSpec, EvenFrames

=============================================================================
