# Asphalt: a formal model

Asphalt is a two-car racing game on an FPGA.  SystemVerilog modules keep the
state of the game in registers that step once per video frame; a C program on a
soft processor brings up a USB keyboard through a MAX3421E host controller and
writes the keys that are down into two registers which the game reads.  The
program runs on the processor vendor's board support package, which gives it a
clock and a serial line to the development host.

This directory holds TLA+ modules of all three, TLC configurations that check
them, and proofs that TLAPS checks.  `PROJECT.json` maps each definition to the
lines it stands for.  To repeat a run: `tlc -config game.cfg MCGame` (the
table in section 4 gives module and configuration); to repeat a proof:
`tlapm GameProofs.tla`.

## 1. The system

```
 keyboard <-USB-> MAX3421E <-SPI-> firmware (main.c, usb_kb/) <-> HAL: clock, JTAG UART <-> host
                                      | keycode_1, keycode_0 (two PIO registers)
                                      v
  VGA_controller --vs--> playerLogic  aiLogic  plotObstacles  color_mapper --> pixels
   (pixel clock)         one step of all of them per vertical sync pulse
```

| Component | State | Operations | What is hard | What makes it correct |
|---|---|---|---|---|
| Player car, `playerLogic.sv` | position, motion, own speed, road speed, distance driven | step per frame, asynchronous reset | all registers read the old values of the others: edge tests are a frame late | the car stays on road and screen; it comes to rest |
| Opponent's driver, `aiLogic.sv` | five-state machine, column, motion, speed, collision sensor | step, reset of *some* of the registers | sensors are registered, so decisions act on the frame before last; no edge test at all | stays on its carriageway, brakes once, completes lane changes |
| Opponent's race, `aiLogic.sv` | distance (16 bits), screen line (10 bits) | step, reset | two registers of different width for one place | drawn where it is in the race |
| Obstacles, `plotObstacles.sv` | four scroll distances, two collision registers | step; a synchronous reset that never happens | unsigned differences, collision boxes | lanes keep their formation; collisions drive the others |
| Status, `Color_Mapper.sv` | game started, won, lost; slow clock; damage | step on two clocks, reset | the lead is unsigned; the verdict is decided again in each frame; the second clock is a register of the first | verdicts stand, overtaking is not missed, damage measures time |
| Pixel pipeline, `plotPlayer.sv`, `plotAI.sv`, `plotObstacles.sv`, `CarSpriteMatcher.sv` | which object a pixel belongs to, its address in the sprite memory | per pixel | unsigned 10-bit coordinates left of and above the screen; a column and a line of sixteen of the sprite sheet | what is seen is what the collision tests feel; a car's pixels come from its own sprite |
| Video timing, `VGA_controller.sv` | pixel and line counters, sync pulses | pixel clock, reset | its pulse is the clock of all the above, and the reset button resets it too | one game step per picture, outside it, never during a reset |
| USB host state machine, `main.c`, `MAX3421E.c`, `transfer.c` | `usb_task_state`, device table, flags of main, bits of the chip | main loop: interrupt task, USB task, report and poll | the chip and the user act between any two accesses; state is advanced from two places | only a device that is there is polled; a keyboard gets to work |
| Control transfers, `transfer.c`, `HID.c` | buffer, toggles, packet sizes, the device's own side | setup, data and status packets; the requests of an enumeration | a packet or its acknowledgement is lost, so the device has done what the firmware believes failed; lengths come from the device | reads are what was asked for; a running device is addressed and configured |
| Packet dispatch, `transfer.c` | retry counters, deadline | launch, wait, read result | late answers, limits sharing a deadline, a clock that overflows | an answer is that of its packet; every call returns |
| Keyboard polling, `transfer.c`, `HID.c`, `main.c` | data toggle, report, key registers | poll, receive, decode | lost acknowledgements, repetitions, unplugging | reports arrive once, in order; the game sees the keys |
| System clock, `alt_alarm_start.c`, `alt_tick.c`, `alt_gettod.c`, `alt_settod.c` | tick counter, list of alarms with a rollover flag, time of day at tick zero | tick interrupt, start and stop an alarm, set and get the time | the counter wraps, and so do the times that alarms are compared with | an alarm is called back at its tick; the clock shows the wall clock |
| JTAG UART, `altera_avalon_jtag_uart_*.c` | two ring buffers, interrupt enables, `host_inactive` | read, write, close, ioctl; interrupt routine; one-second alarm | calls copy on the strength of a pointer that the interrupt routine moves; each side switches the other on; a host that is gone | bytes once and in order; nobody waits for what does not come |
| Descriptors, start-up, logging, profiling of the board support package; palettes, fonts, memories, generated processor system | tables | - | - | not modelled, see section 7 |

The parts of the hardware interact by registers only.  All game components are
clocked by the same edge, `frame_clk` (the vertical sync pulse), and read each
other's values of before the edge.  The firmware writes the two key registers
one after the other at any time between two frames.  The reset button acts
asynchronously on most, not all, registers.  The application is a single thread
that polls the chip's interrupt pin; its concurrency comes from the chip, the
bus and the user.  Below it, the board support package has two interrupts, of
the timer and of the JTAG UART; they share lists and rings with the calls that
the application makes.

## 2. Modules

| Module | Models | Notes |
|---|---|---|
| `HardwareWidths` | 10- and 11-bit registers | `U10`, `U11` |
| `PlayerLogic` | `playerLogic.sv` | runs through `MCPlayer`; theorems in `PlayerLogicProofs` |
| `AiDriver` | state machine half of `aiLogic.sv`, and the opponent's collision register | obstacles are arbitrary in every frame; theorems in `AiDriverProofs` |
| `Race` | the other half of `aiLogic.sv` | operators for `Game` |
| `Obstacles` | scrolling and collisions of `plotObstacles.sv` | operators for `Game` |
| `Pixels` | where the plot modules draw cars and obstacles, and from which address | operators for `Game` over the registers of the others; the picture is a function of them |
| `GameStatus` | verdict, slow clock and damage of `Color_Mapper.sv` | race and obstacles are arbitrary within limits; runs through `MCGameStatus`; theorems in `GameStatusProofs` |
| `Game` | the connections of `Color_Mapper.sv` | composes the six above; implements `PlayerLogic`, `AiDriver` and `GameStatus`; runs through `MCGame`; theorems in `GameProofs` |
| `VgaTiming` | `VGA_controller.sv` | runs through `MCVga`; theorems in `VgaTimingProofs` |
| `UsbHost` | `main.c`, `MaxIntHandler`, `MAX_busprobe`, `MAX3421E_init`, `USB_Task`, `USB_init`, the verdicts of the probes | runs through `MCUsbHost`; theorems in `UsbHostProofs` |
| `UsbLimits` | the retry limit of `transfer.c` | constant of the two modules below |
| `Control` | `XferCtrlReq`, `XferCtrlData`, `XferCtrlND`, `XferInTransfer`, and the requests that `USB_Task` and the probes make of them, with the device | opens up what is one step in `UsbHost`; runs through `MCControl`; theorems in `TransferProofs` |
| `Dispatch` | `XferDispatchPkt` | opens up what is one transaction in `Control` and `KbdPoll`; theorems in `TransferProofs` |
| `KeyChannel` | what polling promises (abstract) | |
| `KbdPoll` | `XferInTransfer` for a report, `kbdPoll`, `HID_init`, decoding in main | implements `KeyChannel`; runs through `MCKbdPoll`; theorems in `TransferProofs` |
| `Countdown` | what an alarm promises (abstract) | |
| `HalClock` | ticks, alarms and time of day | implements `Countdown`; runs through `MCHalClock`; theorems in `HalProofs` |
| `Pipe` | what a serial line promises (abstract): bytes once, in order, a bounded number under way | |
| `JtagUart` | the JTAG UART driver: calls, interrupt routine, alarm | implements `Pipe` in both directions; runs through `MCJtagUart`; theorems in `HalProofs` |

How code becomes actions:

- **Hardware.**  One action `Frame` is one edge of `frame_clk`: all
  nonblocking assignments of the component, with right-hand sides in the old
  values.  `Reset` is the asynchronous reset and leaves alone what has none
  (`Car_X_Motion` and `CarSpeed` of aiLogic, the whole of plotObstacles).
  `SetKey` is one write of a key register.  Registers keep their width (`U10`,
  `U11`, distances modulo 2^16), and literals make a sum 32 bits wide, as in the
  language.  An edge of `slowClk` that races with the register it samples is a
  nondeterministic choice between the old and the new value (`NextScale`).
  Registers without reset power up with zero; `AIY`, which is loaded from
  another register by its reset, powers up with anything.
- **Firmware.**  One action is the code between two accesses to the chip that
  can see different things.  `UsbHost` has one action per case of `USB_Task`;
  `CheckPin`, `Probe` and `Ack` split the interrupt handler at its read of the
  interrupt bits, its probe of the bus and its write of them.  A
  transfer is one action that succeeds or fails there.  In `Control` one action
  is a packet and what the bus makes of it: heard by both sides, lost on the way
  to the device, or heard by the device with its answer lost or spoiled.
- **Board support package.**  Code between `alt_irq_disable_all` and
  `alt_irq_enable_all` is one action, and so is an interrupt routine.  A JTAG
  UART call is split at each read of a pointer that the interrupt routine moves and
  at each critical section; the local copy of the pointer is a variable
  (`seen`).
- **Environment.**  The chip's behaviour is not in the repository.  What is
  assumed of it comes from how the code uses it and what its comments say: a
  bus reset clears `BUSRST` and sets `BUSEVENTIRQ` and perhaps `CONDETIRQ`
  (`MAX3421E.c:130`, `215`), interrupt bits are cleared by writing them,
  `HXFRDNIRQ` carries no packet identity, a packet with the wrong toggle is
  acknowledged and dropped (`transfer.c:205`), `RCVTOGRD` is the next toggle.
  A device answers at the address it was given, after a reset at 0.  The core of
  the JTAG UART has two FIFOs, raises its write interrupt when few bytes are
  left in one, and has a bit that says whether a host has looked lately.  These
  definitions are marked external in `PROJECT.json`.
- Definitions named `Bug...` are slips that the definition of the same name
  could contain.  No specification uses them; they show that each property can
  be violated by a plausible error.

## 3. Properties that repay reading

- `PinnedForever` (player): a car that holds W long enough is caught in the top
  strip for ever; no key, not even the brake, frees it.
- `OnCarriageway` (driver): aiLogic declares its road's sides and never tests
  them; they hold because of how lane changes and sensors interlock.
- `OvertakenIsDecided` (status): the player who passes the opponent has been
  given a verdict before the unsigned lead wraps.
- `DrawnAtLead` (game): line on the screen and lead in the race are updated by
  three modules from different registers, and agree after the first reset.
- `SeenIsFelt`, `OwnSprite` (game): a picture in which the player's car and an
  obstacle overlap on a pixel is followed by a collision, up to exactly the
  exceptions that section 6 lists; and every pixel of a car comes from the cell of the sprite
  sheet that is its own.
- `DriverImplemented`, `StatusImplemented` (game): the composed game only does
  what `AiDriver` and `GameStatus` expect of their environment, so all that is
  shown of them alone holds in the game.
- `EvenFrames`, `SyncOutsidePicture`, `ResetNeverSampled` (video): when the
  game's clock edge falls, also after a reset in the middle of a picture.
- `RunningDevice`, `SpeaksAfterReset`, `NoNullEpinfo`, `LoopFlags`,
  `KeyboardWorks` (USB host).
- `ReadsArePrefixes`, `RunningIsReady`, `EnumerationEnds` (control): although a
  device may see a packet twice, or do its part of a transfer that the firmware
  gives up.
- `OwnAnswer`, `NeverLate`, `Returns` (dispatch).
- `ReportsArriveOnce`, `KeysCatchUp` (keyboard).
- `AlarmsOnTime`, `KeepsTime` (clock): across wraps of a counter that nothing
  but a flag tells apart.
- `StaleIsSafe`, `Armed`, `BytesInOrder`, `CallsEnd` (JTAG UART): the calls use
  pointers that the interrupt routine has moved since; each side leaves the
  other's interrupt on when there is work for it.

No configuration has the type invariants: they are proved instead (section 5).

## 4. Runs

| Run (= .cfg) | Module | Shows | Bounds |
|---|---|---|---|
| `player` | `MCPlayer` | the car stays on screen and road, is pinned for ever or settles | real screen, all keys; a road with twelve columns of play |
| `ai_driver` | `AiDriver` | all properties of the driver | real numbers, any obstacles |
| `game_status` | `MCGameStatus` | verdicts, damage, overtaking | scaled: gaps 3, 5 and 9, damage 3, slow clock divided by 4 |
| `game` | `MCGame` | drawing, lanes, picture against collisions, and the two refinements | real numbers; scenarios |
| `vga` | `MCVga` | frames and pictures | real lines; ten columns |
| `usb_host` | `MCUsbHost` | four invariants of the host, and that a keyboard gets to work | four addresses, all four kinds of device, four bus changes, one failed transfer |
| `control` | `MCControl` | control reads, the end and the outcome of an enumeration | packets of 2 and 4 bytes, three devices one after the other, at most four spoiled packets for each, three attempts per packet |
| `dispatch` | `Dispatch` | answers in time and to their own packet; every call returns | NAK limit 3, retry limit 2, 2 ms per attempt, 11 ms in all; or a chip that stops |
| `dispatch_jump` | `Dispatch` | *violated*: not every call returns if the clock overflows | the same |
| `kbd_poll` | `MCKbdPoll` | refinement of `KeyChannel`, keys reach the game | six reports |
| `hal_clock` | `MCHalClock` | refinement of `Countdown`, the time of day | a counter of ten values, three ticks and six microseconds to a second, two alarms |
| `jtag_uart` | `MCJtagUart` | refinement of `Pipe` both ways, armed interrupts, calls end | rings of three, FIFOs of two, "for ever" at 3, five bytes written and three typed, calls for three bytes |

Why the bounds suffice.  The driver, the player's vertical motion and the
vertical timing run with the program's numbers and all inputs.  The player's
road is narrowed because steering and speed share no register, and their product
with the real road is 4 million states: between its sides steering does the same
in every column, the parities of the distances to both sides are kept, and
`StaysOnRoad` covers every width.  `PlayerDistance` counts modulo 1 there
because nothing in the component reads it.  The status component has no
behaviour that depends on the size of its numbers beyond the order in
`StatusAssumption`; the scaled instance keeps that order, has a gap step smaller
than the win gap and lets both counters run over.  The game's state space is too
large to exhaust: `MCGame` explores all scenarios of `MaxFrames` = 360 frames in
which a key changes at most `KeyChanges` = 2 times and the button is pressed at
most `Resets` = 1 times, at multiples of `ReactionTime` = 60 frames.  That is
enough to drive to both edges of the screen, touch obstacles, change lanes, and
restart in the middle of it.  The scenarios end, so this run does not check for
deadlock.  In `vga` the visible part of a line is cut to seven columns; all its
arithmetic compares with parameters whose order is kept. `MaxChanges` and
`MaxFaults` of `MCUsbHost` bound what the user and the bus do: four changes are
two plug cycles, the fewest in which a stale bus event meets a new device, and
four addresses are few enough to run out.  In `MCControl` four spoiled packets
are one more than fail a packet; the three devices have descriptors that are
shorter than a packet, exact multiples of one and neither, with and without
strings, a keyboard, a mouse and neither, and each finds the chip's toggle and
`hid_ep` as the one before left them.  The limits of `Dispatch` are larger than
one so that each counter is left at a value between 0 and its limit, and
`USB_XFER_TIMEOUT` is one more than (NAK + retry limit) times the attempt time,
the condition the code's 5000, 200 and 3 meet for attempts of up to 24 ms.  In
`HalClock` the counter wraps every ten ticks, both alarms are started before and
called back after a wrap, delays reach from 0 to the largest allowed, W - 2,
callbacks ask for no period, a short one and the longest, W - 1, and a second is
a whole number of ticks of two microseconds, so that truncation shows.  The
rings of `JtagUart` hold two bytes, a FIFO two, and calls ask for three: a call
fills the ring, wraps in it, waits, and goes on; five bytes written and three
read take both pointers of either ring all the way round.  `IntMax` = 4 leaves
the timeout the values 2 (set by default) and 3 ("for ever"; an argument of 0),
and `host_inactive` stops at 2, short of it.

Fairness.  Clocks, timers, interrupts and the firmware thread are weakly fair:
clocks do not stop and nothing preempts the one thread but interrupt routines
that end.  Keys, obstacles, resets, plugging, and the calls the program makes
are never fair.  The video run needs no fairness: `EvenFrames` counts pixels.
`MCSpec` of `MCUsbHost` has one more assumption, and `KeyboardWorks` a premise.
The premise (`hurried`) is that the user waits until the firmware has come to
rest between two changes, because a change between the handler's probe of the
bus and its acknowledgement is cleared unseen.  The assumption is that the end
of a bus reset does not fall between the interrupt task and the USB task of the
same loop for ever (strong fairness): when it does, the USB task leaves its
waiting state first, the next handler call takes the reset's connection
interrupt for a new device, and enumeration starts again; without the assumption
TLC shows that going on for ever.  A reset's length and the loop's are
unrelated, so it is justified but not certain.  `MCControl` bounds the packets
that the bus spoils and needs nothing but the firmware to go on.  `FairSpec` of
`KbdPoll` lets every packet be lost, but not all of them (strong fairness of the
acknowledged transaction).  In `Dispatch` a chip that is not hung answers; one
that is need not ever, since the call's purpose is to survive it.  In `JtagUart`
a host that is there again and again takes bytes again and again (strong
fairness of `HostTake`); it may also go and never return, which is when the
one-second alarm has to end the calls.

## 5. Proofs

All theorems hold for every value of the constants that meets the named
assumptions next to their declarations.  `GameProofs` has the numbers of the
program; its constants are the key codes and what the opponent's line powers up
with, any set of values of a 10-bit register (`PowerUpAssumption`).

| Theorem | Module | Argument |
|---|---|---|
| `TypeCorrect`, `StaysOnRoad`, `StaysOnScreen`, `NeverUnpinned` | `PlayerLogicProofs` | the horizontal invariant pairs the position with the motion still to be added; the vertical one pairs the line with own and road speed, since the line alone is not inductive |
| `DriverTypeCorrect`, `KeepsToCarriageway`, `AlwaysBrakesInLane`, `ChangesLanes` | `AiDriverProofs` | per state of the machine, the columns the car may be in, with the motion pending and the speed it has there |
| `VerdictsStand`, `StatusTypes` | `GameStatusProofs` | never two verdicts is inductive; the action property follows |
| `OvertakingIsDecided` | `GameStatusProofs` | `LevelInv` follows the lead without wrapping: the register holds it modulo `GapSpan`, and as long as no key was pressed and there is no verdict it is above `WinGap - GapStep`.  The window is wider than a frame's step, so it cannot be jumped |
| `DamageIsTime` | `GameStatusProofs` | `DamageInv` counts both frame counters in periods of the slow clock: with `Scale` at s, the time since it left zero is s - 1 whole periods and where the current one is; a contact that lasts has raised `Scale` once per rising edge since |
| `ImplementsStatus` | `GameProofs` | a step of the race changes the lead by the difference of two speeds.  That the player's is in 1 .. 5 is inductive; that the opponent's is in 0 .. 5 is not, without all that keeps its car in its lane: it follows from `ImplementsDriver` and `DriverTypeCorrect` (instance `DriverFacts`) |
| `ImplementsDriver`, `ImplementsPlayer`, `AlwaysDrawnAtLead`, `LanesStayTogether` | `GameProofs` | step simulation; congruences modulo 2^10, 2^11 and 2^16; `AlwaysDrawnAtLead` needs that the road's speed is the same in both updates |
| `SpritesAreOwn` | `GameProofs` | every column and line of every box, not just the edges that `OwnSprite` looks at: the column of a pixel in its box, across the wrap at 2^10, is one more than its place in the tile, and the address of a place in a tile is in the sheet |
| `WhatIsSeenIsFelt` | `GameProofs` | a pixel of the outer columns that is drawn in a lane is a corner of the collision test in the same lane (`SameLane`), and the corner above or below it is on the same tile unless the car is exactly between the corners (`SameTile`) |
| `CarsStayInPlace`, `VerdictsStandInGame`, `GameTypes` | `GameProofs` | the results of the three components, carried over by the three refinements; the game's numbers meet the components' assumptions (instances `PlayerFacts`, `DriverFacts`, `StatusFacts`) |
| `RasterTypeCorrect`, `SyncStaysOutside`, `ResetIsNeverSampled` | `VgaTimingProofs` | where a pulse is, in terms of the counters: it is registered, so one column (and for the vertical one, one line) off its comparison |
| `FramesAreEven` | `VgaTimingProofs` | `FrameInv`: the observer has counted the pixels from the place where pulses end, or from the first one after a reset, to the present one; the registered pulse is low only where it is about to rise, and at the first pixel only just after a reset |
| `AlwaysSpeaksAfterReset`, `NeverNullEpinfo`, `DeviceIsThere` | `UsbHostProofs` | `IInv` is four parts: `ResetInv` ties the waiting states to `BUSRST` and to whether the handler holds an old event; `TableInv`: addresses are taken from below, so the table has no gap, and the entry in use stays; `ProbeInv`: no device runs between a probe of the bus and the clearing of its interrupt; `RunningDevice` itself, which allows a pending change |
| `HostTypes`, `FlagsAgree` | `UsbHostProofs` | the types need that the machine runs with the last address taken (`LastInv`), because main takes the class of the last table entry for that of the device; the flags need, besides, in which of its two steps main is (`FlagInv`) |
| `ReportsImplemented`, `PollTypes` | `TransferProofs` | `ChipInv`: the chip is one toggle ahead exactly while a packet waits in it; `ToggleInv`: a keyboard with nothing to send agrees with the firmware.  "The report is pending" is then "the toggles agree", with no counter.  The registers need a fact about the search of the last slot: the largest member of a finite set of slots is in it |
| `LimitsHold` | `TransferProofs` | of `Dispatch`, with a chip that may stop and a clock that may jump: a counter at its limit has ended the call |
| `CallsAreInTime`, `AnswersAreOwn` | `TransferProofs` | of `Dispatch`, with the assumption `AllFit` that the attempts fit into the deadline: the time since the call is at most the attempts so far times the time of one, plus the age of the last; so the deadline is not reached, so the chip is at rest whenever a packet is launched, so the done bit is always its own |
| `ControlTypes`, `DeviceIsReady` | `TransferProofs` | of `Control`: what is known of a device at each step of its enumeration.  The device may have missed its address while the firmware goes on; that a device runs at its address comes from its answer to the last request |
| `ReadsAreDescriptors` | `TransferProofs` | of `Control`: `ReadInv`: the buffer is the beginning of the descriptor, as long as what the device counts as sent when the toggles agree; the packet in the chip is the piece that comes next, and when the toggles disagree the device does not know yet that it arrived.  Pieces of a descriptor that meet are a piece of it (`BytesJoin`) |
| `ClockRollover`, `ClockAlarmsOnTime`, `ClockTypesHold` | `HalProofs` | the rollover flag says whether an alarm's time is behind the counter, and no listed alarm is at the counter: then the ticks left, taken modulo W, go down by one at each tick, and reach 0 when the alarm is due |
| `ClockKeepsTime` | `HalProofs` | the wall clock is the time set plus the ticks since; carries and truncation commute with the addition because a tick is a whole number of microseconds |
| `JtagTypes`, `JtagStaleIsSafe`, `JtagArmed` | `HalProofs` | for a call that holds a stale pointer: the interrupt routine has only freed room (or added bytes) since, so what the call worked out still fits; the number of bytes in a ring after `Fill` and `Drain`; where in a call either interrupt may be off |
| `JtagOutput`, `JtagInput`, `JtagImplementsPipes` | `HalProofs` | the abstract queue is the FIFO and the contents of the ring, end to end; `Fill` appends to the contents and `Drain` takes a first part off them, wherever in the ring they wrap.  The numbers of the bytes repeat after `Stamps`, so that the refinement is of sequences of numbers modulo it |

Between them the theorems state every invariant, refinement and action property
of the runs.  Those about types, `LimitsHold`, `ClockRollover`,
`ImplementsPlayer` and the three that carry results over to the game go beyond
the runs.

Only model-checked is liveness: `Settles`, `Recovers`, `CrashEndsGame`,
`KeyboardWorks`, `EnumerationEnds`, `Returns`, `KeysCatchUp` and `CallsEnd`,
since the prover does not do fairness, and the violated `TimesOut`.

Assumptions that carry weight.  `StatusAssumption` has a step of the lead
smaller than the window of a win, and the `RateAssumption` of the clock a
tick of a whole number of microseconds; both hold of the program's numbers.
`AllFit` is a hypothesis of two theorems and not an assumption of the module,
because the chip may be slower than it says.  `DelayAssumption` leaves out a
delay of 2^32 - 1, which is called back too early (section 6).

## 6. What the models show about the code

A disagreement between the code and its comment, with a violated run:

- The millisecond clock overflows after 71 minutes, and a call in the five
  seconds before that has no effective deadline (`dispatch_jump`), although
  "0xff means timeout".  The same holds of the 200 ms settle time.

Other behaviour that the models have:

- The wait for the first start of frame (`transfer.c:298`) uses `|` for `&` and
  does not wait.
- A bus event left over from an earlier reset (`MAX3421E.c:216`) skips
  `USB_STATE_ATTACHED`, so that the next device gets no settle time.
- The player's car passes the "leftmost" and "rightmost" points of the comments
  by up to three columns; `OnRoad` says how far.
- The vertical pulse is registered and compared with the next line: it is on lines
  489 and 490, not 490 and 491 as its comment says.
- `USB_STATE_ERROR` (0xff) is masked to 0xf0 and so falls into the `default`
  that "should never" be reached; it does what the intended case does, nothing.
- A device plugged in or out between `MaxIntHandler`'s probe of the bus and its
  write of HIRQ is not noticed before the next change.
- A player in front of the opponent is "65535 lines behind": a win is taken back
  as a loss when the player overtakes (allowed by `VerdictStands`).
- Collision tests look at corners, once per frame, and damage samples them on the
  slow clock: short contacts are missed.  The nine outer columns on either side
  of the player's car feel nothing at the sides of the car, and a car whose tile
  fits exactly between the corners, which are a line further apart than a tile is
  long, is missed for a frame.  `SeenIsFelt` shows that there are no other holes.
- A pixel is drawn in the colour looked up for its left neighbour.  The first
  column of a box would show the end of another sprite, and the boxes are open at
  their first column and line, so that it is not drawn (`OwnSprite`).
- The opponent can stay in `Left` or `Right` as long as an obstacle of its own
  speed is beside it (hence the premise of `Recovers`).
- After the reset button the opponent keeps speed, motion and sensor of the
  old game for a frame, and the obstacles are never reset at all: the frame
  clock does not run while the button is held (`ResetNeverSampled`).
- Nothing clears the key registers when the keyboard is pulled out with a key down.
- An increment from a detached state leads to states 2 or 5, which no case
  handles; only main's clean-up after a running device leaves them.
- After a call that timed out, a late answer is taken for that of the next packet;
  `OwnAnswer` needs `NeverLate`.
- `USB_Task` ignores the results of its string requests (`transfer.c:312-323`)
  and then takes a length from a buffer that it may never have filled; the next
  request is for that many bytes (`Garbage`).  What `XferInTransfer` stores is
  nevertheless right (`ReadsArePrefixes`).  A toggle error ends a transfer (line
  205) where the attempt could be repeated.
- `settimeofday` multiplies seconds since the start in 32 bits
  (`alt_settod.c:83-84`): 71 minutes after the start the comment's "elapsed wall
  clock time" no longer follows (`KeepsTime` says until when it does).
  `gettimeofday` jumps back when the tick counter wraps.
- `alt_alarm_start` with a delay of 2^32 - 1 wraps to "now" and is called back at
  the next tick; `DelayAssumption` leaves it out.  Starting an alarm that is on the
  list would corrupt the list; the model does not do it, nor does the code.
- A JTAG UART write that has waited for room gives up if the host was last seen a
  second or more ago, even if it is the host that has made the room meanwhile: it
  returns -EIO (`altera_avalon_jtag_uart_write.c:214`) if it had moved nothing.  A
  read or write of 0 bytes returns -EIO too.  An argument of `TIOCSTIMEOUT` that
  is not a valid time means "for ever".

## 7. Not modelled

- What a pixel looks like: colours, palettes, the transparent colour, text, the
  background, the order of the layers and the damage shown by `Scale`.  `Pixels`
  has positions and addresses, for cars and obstacles.
- The walk of the probes through the interface and endpoint descriptors inside a
  configuration (`Control` has its verdict and the lengths read for it), and the
  two string queries of `GetDriverandReport`, which change no state but a buffer.
- Unplugging in the middle of a control transfer: `UsbHost` has it, with transfers
  of one step; `Control` changes devices between enumerations.
- Full and low speed: `MAX_busprobe` chooses one from line state and mode; the
  model has one speed.  `MaxGpxHandler` reads a register and does nothing.
- The mouse: it is enumerated and polled in `UsbHost`, but what is shown of it on
  LEDs and digits is left out.  The other two probes of the driver table always say no.
- SPI transfers, the registers and bus of the generated processor system.
- Most of the board support package: file descriptors and device lists, which the
  program uses for the three standard streams only, start-up code, instruction
  traps, logging, the profiler, cache and exception entry in assembler, and
  `system.h`, which is a list of addresses.  Nearly all of its lines are headers,
  tables, and code that this program never reaches; the parts whose behaviour
  depends on time and interleaving are `HalClock` and `JtagUart`.

## 8. Plan

Done, in this order: player, driver, status, obstacles and race, game, video
timing, USB host, dispatch, keyboard polling, control transfers, pixels, system
clock, JTAG UART.  What is left:

1. `System`: `KbdPoll`'s register writes composed with `Game`'s key registers,
   with frames between the two writes.
2. The descriptor table inside a configuration as an operator over lists of
   descriptors, checked against a reference definition.
3. Proofs: that liveness of a component follows from that of its parts is out of
   reach; what is left is the composition `System`, once it is there.
4. Runs with longer games around the overflow of the race distances.
