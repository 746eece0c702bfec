# Verification of BosconianGame

BosconianGame is an arcade game on an FPGA: SystemVerilog for the game and the video signal, and a
small processor whose firmware reads a USB keyboard through a MAX3421E host controller and writes
the key code into a register that the game reads. This directory holds its TLA+ specifications,
the TLC configurations that check them, and theorems about them with TLAPS proofs.
`PROJECT.json` maps every definition to the lines it stands for.

## The system

| part | source | state | operations | talks to |
|---|---|---|---|---|
| top level | `lab62.sv` | none | wiring | the 50 MHz clock and the reset button to the VGA controller; its two derived clocks and the key code to the game |
| VGA controller | `VGA_controller.sv` | `hc`, `vc`, `hs`, `vs` | pixel clock, asynchronous reset | `DrawX/Y` and the pixel clock to every picture; `VGA_VS` is the game's `frame_clk` |
| state controller | `State_Controller.sv` | `State`, `moving` | pixel clock, asynchronous reset | reads `lost`, `win`, `keycode`; `moving` to the game |
| game logic | `display_game.sv` | steering, trigger, hits, collision flags | pixel clock and frame clock | everything below |
| ship's gun | `bullet.sv` | distance, offsets and positions of a pair of bullets | frame clock | trigger in, `exists` and positions out |
| hit test | `user_bullet_collision.sv` | `enemy_hit`, one per base | frame clock | base corner and bullet positions in |
| enemy bullets | `enemy_bullet.sv`, one per base | position, distance, direction | frame clock | base corner in, position out |
| bases | `green_enemy_base_example.sv`, two modules | corner | frame clock | ship orientation in |
| star field | `Boscanian_Background_example.sv` | scroll offset | frame clock, held by `collided` | ship orientation in |
| main loop | `software/usb_kb/main.c` | `runningdebugflag`, `device` | one turn: interrupt poll, `USB_Task`, report poll or set-up | everything below; `setKeycode` to the game |
| chip driver | `usb_kb/MAX3421E.c` | none of its own | `MAX3421E_init`, `MaxIntHandler`, `MAX_busprobe` | the controller chip over SPI; writes `usb_task_state` |
| USB task | `usb_kb/transfer.c` | `usb_task_state`, `devtable`, `tmp_addr`, `usb_delay` | one case of a switch per turn | transfers; the HID probes |
| transfers | `usb_kb/transfer.c` | endpoint toggles | control and IN transfers, retries | the chip |
| HID driver | `usb_kb/HID.c` | `hid_device`, its endpoint records, `bigbuf` | probes, report polls | transfers; writes `devtable` |
| displays and lights | `main.c`, registers in the processor system | HEX_DIGITS, LEDS, KEYCODE | read-modify-write of shared registers | the game reads KEYCODE; LEDS is connected to nothing |
| SPI driver and core | `usb_kb_bsp/drivers/src/altera_avalon_spi.c`, `lab62_soc_spi_0.v` | credits; holding and shift registers | one command per register access | the chip |
| terminal | `usb_kb_bsp/drivers/src/altera_avalon_jtag_uart_*.c`, `lab62_soc_jtag_uart_0.v` | two rings, two FIFOs, interrupt enables | write, read, interrupt routine, once-a-second alarm | every `printf`; the host over JTAG |
| system clock | `usb_kb_bsp/HAL/src/alt_tick.c`, `alt_alarm_start.c` | tick counter, alarm list | tick, start, stop | the deadlines of `transfer.c`; the terminal's alarm |

What is hard about it:

* **Two clocks.** The screen shown and the collision flags change with the pixel clock; the map, the
  bullets and the hits change once per frame, on the rising edge of `VGA_VS`. A loss is a pulse of a
  few pixel clocks. The reset button is asynchronous to both and clears only part of the state: the
  screen, the hits and the beam, but neither the bullets nor the pending hit registers.
* **Registers in different blocks that must agree**: the trigger in `display_game.sv` and `exists` in
  `bullet.sv`; two bases and the star field, each with its own scroll registers; the hits, `win` and
  the screen.
* **Narrow arithmetic**: 7-bit and 8-bit distances that grow by two and are compared with `>=`,
  10-bit positions that are sums and differences.
* **Stale registers**: positions that outlive a shot, a direction that outlives the shot it was for,
  flags one clock older than what they are compared with.
* In the firmware: a state variable advanced both by the task and by the interrupt handler,
  interrupt flags acknowledged after they were read, devices swapped between any two register
  accesses, addresses that are taken and not given back, timeouts, retries and data toggles.
* In the board support: status registers read before they are used while the hardware moves on, rings
  shared with an interrupt routine without a lock, counters that wrap.

`PROJECT.json` lists each hazard at its line with the properties that would catch it.

## Modules

| module | models | actions |
|---|---|---|
| `Bullet` | the gun with its trigger and the hit test, at the code's constants | `FrameEdge(fire, direction)`: `Trigger` with one of `Launch`, `Expire`, `Fly` (`FlyLeftRight` or `FlyUpDown`), `Idle` |
| `Bases` | the corners of the bases on a plane of 10-bit coordinates | `Scroll(direction)` |
| `EnemyBullets` | one bullet per base | `FrameEdge(direction)`: `BulletsFrame` with `Scroll` |
| `Game` | state controller and game logic; instantiates `Bullet` as `Gun` and `EnemyBullets` as `Foe` over the same bases | `VgaClk`, `FrameEdge`, `KeyChange`, `Reset` |
| `GameRules` | the abstract game: screens and destroyed bases only | `Start`, `Destroy`, `Lose`, `Win`, `Reset` |
| `Beam` | the abstract picture: where in the frame the beam is, with the order of the two clocks and the button; `Game` takes its clocks from it | `PixelClk`, `FrameClk`, `Reset` |
| `Vga` | the counters and sync pulses | `PixelClk`, `Reset` |
| `Raster` | `Vga` with the frame clock that its `vs` gives and the register `ship_on`; implements `Beam` | `Pixel`, `FrameClk`, `Press` |
| `UsbHost` | main loop, interrupt handler, bus probe, `USB_Task` and the device table, with the chip and a port | the loop's places (`MAX3421E_Task`, `Probe`, `Acknowledge`, one action per case of `USB_Task`, `StopServing`, `FindDriver`, `Serve`, `ChipReset`, `Reprobe`, `ClearAndInit`) and the environment's (`Attach`, `Detach`, `ResetNoise`, `ResetDone`, `SofSent`, `SettleTimeOver`) |
| `PortService` | the abstract service of the port: the device there, whether a change of it is pending, and the phase of the service | `Plug`, `Unplug`, `Noise`; `Look`, `Acknowledge`, `Serve`, `Fail` |
| `MainLoop` | the loop's error flag, light 9 and key code register; EXTENDS `UsbHost` and joins each of its variables to the step of the loop that writes it | `LightOn`, `PollKeyboard`, `PollOther`, `TellError`, `LightOff`, `Elsewhere` |
| `Probe` | the state CONFIGURING: the drivers of `ClientDriverTable` in turn and the descriptor walk of `HIDMProbe` and `HIDKProbe` | `GetHeader`, `GetWhole`, `Skip`, `Claim`, `NotMine`, `NothingFound`, `FillEndpoint`, `SetConf`, `SetProto`, the failures `GetFails` and `SetFails`, `NoProbe`; `Detach`, `Attach` |
| `Xfer` | control requests and report polls, packet by packet, with the chip and one device | `Poll`, `XferCtrlReq`, `Launch`, `SeeDone`, `TimedOut`, `Repeat`, `Fail`, `SetupSent`, `StatusSent`, `PacketIn`, `NothingToRead`, `Read`; on the bus `Lost`, `Refused`, `SetupTaken`, `DataIn`, `StatusIn`, `StatusOut`; `NewReport` |
| `SettleTimer` | the settle deadline in 32-bit milliseconds, on the tick counter; EXTENDS `Alarm` | `Tick`, `SetAlarm`, `Attached`, `Detached`, `StartTimer`, `TimerExpires` |
| `Panel` | displays and lights | `KeyboardReport`, `MouseReport` |
| `Spi` | the register accessors, `alt_avalon_spi_command` and the core | `Start`, `ForceSelect`, `Discard`, `Poll`, `WriteByte`, `NoWrite`, `ReadByte`, `NoRead`, `Drain`, `Release`; the core's `Load`, `Shifted` |
| `Countdown` | the abstract alarms: so many ticks left | `Start`, `Stop`, `Tick` |
| `Alarm` | the alarm list | `alt_alarm_start`, `alt_alarm_stop`, `alt_tick` |
| `Link` | the abstract terminal: two queues of characters | `Write`, `GiveUp`, `Accept`, `HostReads`, `HostTypes`, `Take`, `Read` |
| `JtagUart` | the terminal's driver and core | write: `Write`, `Look`, `Put`, `Kick`, `Wait`, `Judge`; read: `Read`, `Take`, `Satisfied`, `Await`, `Listen`; interrupt routine: `Interrupt`, `ReadControl`, `Serve`; `Second`; the host's `Connect`, `HostReads`, `HostTypes`, `HostPauses` |
| `MCEnemyBullets`, `MCGame`, `MCUsbHost`, `MCMainLoop`, `MCXfer`, `MCJtagUart` | values for the constants | |
| `Drivers` | `Spi`, `Probe` and `Panel` side by side | `SpiMoves`, `SearchMoves`, `PanelMoves` |
| `BulletProofs`, `EnemyBulletsProofs`, `GameProofs`, `VgaProofs`, `UsbHostProofs` (with `MainLoop`), `BoardProofs` (`Alarm`, `SettleTimer` and `JtagUart`), `DriversProofs`, `XferProofs` | theorems | |

**How the hardware is read.** One action is one clock edge and updates all the registers of that
clock from their old values; this also holds for registers that the source assigns with `=` inside
`always_ff`, because the build synthesises them to flip-flops. Registers with no initial value power
up at zero on this FPGA. In `Bullet`, `bullet_distance_traveled + 2` is taken modulo 2^7 and
positions modulo 2^10 (`Plane`). `show_bullet` and `shoot_bullet` of `enemy_bullet.sv` always carry
the same value and are one variable. `PAUSE_LOST` and `PAUSE_WIN` are never entered, so the clock
divider that only they read is left out. Both base modules have the same code and differ in the
start corner, so `Scroll` works on a function from bases to corners; a branch that assigns a
register to itself and is followed by a `case` that assigns it again has no effect
(`green_enemy_base_example.sv:32-57`).

**Beam and clocks.** `Game` keeps where in the frame the beam is (`beam`, of `Beam`) instead of its
coordinates. A frame runs `top`, `above`, `ship`, `under`, `below`, and then the frame clock rises.
Collision flags can be set only while the beam is on the ship. A reset restarts the frame, and the
first pixel clock after it raises `VGA_VS`: `reset`, `edge`, then the frame clock. `resetOnShip` is
a reset that came while the ship's pixel register was set. That the real counters do this is a
refinement: `Raster` joins `Vga` to the registers its outputs clock, `frame` (the edge of `vs` and
the frame registers that take it, which are two steps here and one instant in the hardware) and
`ship_on`, and `BeamOf` says where the game's beam is for each line and column (`RasterIsBeam`,
checked at the real constants and proved for all of them). It also says that a pixel clock that
finds `ship_on` set is one at which `Game` lets the flags be set. Pixels of sprites are abstracted:
where the ship's box and a base's box (or bullet) meet, the opaque pixels may or may not meet, so a
collision may or may not be detected.

**The firmware.** The processor runs one loop and takes no interrupt for the chip: the loop polls
the pin. `pc` is the place in the loop, and a step ends where another access to the chip's flags or
its sampled bus begins, because the chip and the port act in between: the flags are read
(`MAX3421E_Task`), the bus is sampled and the state set (`Probe`), the state is incremented and the
flags written back (`Acknowledge`). Only `CONDETIRQ` is enabled (`MAX3421E.c:198`), so a bus event is
seen only together with a connection change. `usb_task_state` is the number of `USB.h`, because the
handler increments it. `devtable[a].epinfo` is a pointer and is modelled as the name of what it
points to. A transfer is one step. It can succeed only if a device answers at that address and the
bus runs at its speed, and may always fail: NAKs, timeouts and retries are inside it.
`XferSetAddr` may fail after the device took the address.

Three modules open what is one step of `UsbHost`. `Xfer` is inside a transfer, `Probe` inside the
state CONFIGURING, `SettleTimer` inside the variable `settled`. Each has its own environment and is
checked alone: the product with `UsbHost` would repeat the same interleavings for every state of the
device table. The wait for the chip's oscillator stays one fair step, `ChipReset`.

About the chip and the port the model assumes what the code assumes: any device may be plugged in
or out at any time; each such change sets `CONDETIRQ` and samples the bus, where a glitch may show
the illegal state; a bus reset may do the same (the "kludge" of `MAX3421E.c:150`), and ends by
setting `BUSEVENTIRQ`. `device` is uninitialised in `main` and never read before `FindDriver`
writes it.

**A transfer.** The processor writes HXFR, polls HIRQ for HXFRDNIRQ until the deadline, reads the result
from HRSL and repeats on NAK or on a bus timeout, each up to its own limit. The chip carries the
packet out between any two of these accesses. The device and the bus are modelled from USB 2.0: each
side of an endpoint has a toggle, a packet or its acknowledgement may be lost, a device may refuse
with a NAK. A data packet whose toggle is not the expected one is acknowledged and not stored, which
is the case of the comment at `transfer.c:204`. The deadline is nondeterministic: it may pass at any
time when the chip may hang (`MayHang`), and never before the chip has ended a packet otherwise,
because 5 s are long for a packet. The variable `setting` is chosen once, at the start: it says how
long packets and reports are, which transfers are made and whether the chip may hang, so one run covers
several instances. OUT data stages return `0xff` (`transfer.c:122`) and nothing
requests one.

**A probe.** A descriptor is one unit of the buffer. Every transfer may fail, after any part of it has
arrived and after the device has acted on it. `bigbuf`, `hid_device` and `hid_ep` are static and keep
what an earlier device left there.

**The terminal.** The driver's fast variant, with interrupts and without an operating system. The
program's accesses to the rings are steps of their own; the interrupt routine and the alarm run
between any two of them and not inside each other. `host_inactive` is not volatile, but the board
support package is built with `-O0`, so the loops read it anew. `HostReads` and `HostTypes` are the
JTAG side, which the host moves as it likes. `IGNORE_FIFO_FULL_ERROR` is not defined and
`O_NONBLOCK` not set, so those branches are left out. `setting` plays the same part as in `Xfer`.
The module's `UartInit`, `UartNext` and `UartSpec` have names of their own, so that `BoardProofs` can
extend it together with `SettleTimer`.

**SPI.** A byte is named by its command and its place in it, and the chip's answer to a byte by the
same name: what is read can then be compared with what was written. Every call of the firmware uses
slave 0 and no flags.

**The panel.** A register is the set of its bits that are on, so `|`, `&` and `<<` are unions,
intersections and shifts of sets. A byte shifted out of its half falls into the other half or out of
the register, as in the code.

**The keycode** in `Game` is changed by `KeyChange` at any time: any sequence of keys the firmware could
write.

## Runs

| run | instance | states | shows |
|---|---|---|---|
| `bullet` | the code's constants | 11 460 | the trigger's late clearing never restarts a shot (`NoRelaunchInFlight`); a bullet stays within its range whatever turns the ship makes (`WithinRange`); the crosswise hit test never mixes up the two bullets (`NoPhantomHit`); shots end (`ShotEnds`) |
| `enemy_bullets` | one base, plane 32x32, range 7, reach 4 and 2 | 309 163 | a bullet never wraps round the plane (`StaysOnPlane`), follows its base (`RowFollowsBase`), ends (`ShotsEnd`) |
| `game_battle` | two bases, plane 16, keys `a` and fire | 864 458 | the game implements `GameRules` (`KeepsTheRules`) including its liveness: a player who destroys every base is shown the winning screen |
| `game_flight` | two bases, plane 7, keys `w` and `d` | 5 715 562 | bases and stars remain one map in two dimensions, with collisions and resets at any point (`BasesRigid`, `SceneInStep`) |
| `game_ghost` | as `game_battle` | violation | a base is destroyed by the place where the last shot expired |
| `vga` | the code's constants | 432 005 | `hs` is aligned (`HSyncAligned`); the raster with its reset at any pixel gives the game's two clocks in the order of `Beam`, and finds the ship only where `Beam` says (`RasterIsBeam`); frames never end (`FramesForever`) |
| `usb` | a keyboard with one key and a mouse of another speed, addresses 1 and 2 | 1 298 773 | the increment reaches no state outside the switch but two detached ones (`TypeOK`); no transfer during a bus reset (`ResetBeforeTalk`); no empty table entry is followed (`NoNullEndpoint`); what is polled is what is plugged in (`RunsTheDevice`), with its own routine (`DriverMatches`); the host implements `PortService` (`HostIsService`); a removal is noticed and an attachment ends in a service, an error or a removal (`ServiceGoesOn`); light and messages tell the service, and each new error (`BoardTellsService`); keys come from a keyboard that is plugged in, also when devices are swapped between two turns (`KeysFromKeyboard`) |
| `usb_clean` | the devices of `usb`, without the registers | violation | a removal read together with a bus event leaves the device in the table |
| `xfer` | reports of one packet, two, three, and a short one that fills its packet; answers of one packet, three and five; a chip slower than its deadlines; limits 2 and 2 | 2 562 796 | a request that succeeds was carried out (`RequestDone`); what is read is one whole answer, perhaps ended by an empty packet, or, with up to two packets, one whole report (`DataWhole`); a repeated packet is not returned twice (`NoRepeat`); none is missed without an error code (`LossAnnounced`); every transfer returns (`TransferEnds`) |
| `settle` | a counter of 32 ticks, 5 for a thousand, periods 1, 5 and 30 | 527 082 | the alarm list implements `Countdown` (`CalledOnTime`); the reset comes only after the settle time (`SettleWaited`), and comes when the deadline is in range (`SettleEndsIfInRange`) |
| `uart` | writes, reads and both, rings of 2 and 3, FIFOs of 1 and 2 | 701 748 | driver and core implement `Link` (`IsLink`); nothing is left behind in the ring (`WriteKicked`); writes return (`WriteReturns`); a waiting read gets characters or the timeout's `-EIO`, and what is typed is read by a program that goes on reading (`ReadAnswered`) |
| `drivers` | the code's 64 SPI bytes; up to four descriptors and a buffer for three; ten values around the boundaries | 940 416 | answers are the command's own (`OwnAnswers`), the chip sees a command whole (`WholeCommand`), every command returns (`CommandReturns`); what is polled is configured, in boot protocol, of its class and with its endpoint, whatever an earlier device or attempt left (`SetUpAsPolled`); a suitable device is refused only for a failed transfer (`RefusedForCause`); the registers tell both values of a report (`ReadsBack`) |

The three modules of `drivers` share no variable: one of them, chosen at the start, moves in each
behaviour. The type invariants of the modules with proofs, `Paired`, `FullRangeWhenIdle`, `WinSound`
and `NothingLost` are in no run because they are proved for every instance (see Proofs).

**Bounds.** `Bullet` and `Raster` run at the values of the code, so nothing is cut. The compositions
use small planes. The plane is a ring in both dimensions and every register is finite, so there
are no counters to bound, only constants to shrink. What must survive the shrinking is the order of
sizes: bullets fly further than the hit margin; the enemy's reach and range fit on the plane
(`EnemyAssumption`); bases are larger than the ship's box. The enemy range of the run is odd
because bullets step by two: the last step overshoots, which is where `=` for `>=` would fail. In
`game_battle` the map scrolls along one axis, with both bases on the ship's row, so that hits,
losses, wins and resets meet within a few frames; the bases are too far apart for one pair of
bullets to reach both, as in the code, where they are 200 pixels apart on both axes. In
`game_flight` no key fires; the instance is about scrolling. In `usb`, two devices of different
class and speed are the smallest set in which a swap can go wrong in each way; a device with no
driver behaves like one whose probe fails, which is always possible. With two addresses instead of
seven, one leak moves a device off address 1, where `main.c` asks, and two exhaust the table.

In `Xfer` a limit of two is the least at which one repetition can succeed and a second give up, and
NAKs and timeouts meet in one packet. Reports are numbered modulo three: the one being read, the one
offered next, and one that is neither. Reports of 8 bytes in one packet of 8, and of 6 bytes in
packets of 4, end a transfer at its full length and at a short packet. A report of 4 bytes in a packet
of 4 does neither; `DataWhole` and `LossAnnounced` fail for it (see Findings) and except it
(`ShowsEnd`), the other properties hold for it too. Reports of 5 bytes in packets of 2 are three
packets, the least for which the toggle does not tell a report's first packet from all others;
`DataWhole` fails for them and excepts them, `NoRepeat` and `LossAnnounced` do not. An answer of 34
bytes, a keyboard's configuration, is five packets of 8 and all that was asked for; one of 24 bytes is
three full packets and less than was asked for, so that an empty one follows. `DataWhole`, `NoRepeat` and
`LossAnnounced` are about a chip that keeps the deadlines; `RequestDone` and `TransferEnds` are about
any. In `Probe` four descriptors hold an interface, an endpoint, and one of anything before, between or
after them, with a fourth that the buffer cuts off. In `settle` the milliseconds go back
to 0 every 6 or 7 of the counter's 32 ticks, and the settle time is half of that; 30 is the greatest period
that `AlarmAssumption` allows, so both counters wrap while the timer and an alarm are running.
`JtagUart` needs rings and FIFOs of different sizes that both fill and wrap, with a threshold below
the size of the FIFO: the settings of `MCJtagUart` have two characters in a ring of two places that
hold them in order, and both directions at once, which share `irq_enable`. `TIMEOUT` is two seconds
instead of ten. `MAX_INACTIVE` stands for `INT_MAX - 2`: the code's own saturation. `Spi` and `Panel`
run at the real widths; `Panel` tries the values next to every boundary.

**Fairness.** `Bullet` and `EnemyBullets` assume that the frame clock does not stop; `Raster` that the
pixel clock does not and that the frame registers take an edge; `Game` that the beam moves on through
the frame and that a frame edge that is due happens. These are crystal-driven clocks; `FramesForever`
shows that what `Bullet` and `Game` assume follows from what `Raster` does, even if the button is
pressed again and again. `UsbHost` assumes that
the loop goes on (it waits for the chip only inside transfers, which have timeouts, and for the
oscillator after a chip reset, which is assumed to start), that a
bus reset ends (the chip times it) and that time passes. No fairness is assumed of keys, of the
button, of collisions, of devices or of the success of a transfer. That the settle time passes is
true away from the wrap of the milliseconds, 71.6 minutes after power-up and as often again:
`SettleTimer` says what happens there. The deadline of a transfer (`transfer.c:144`, `153`) is
computed the same way; one that lies beyond the range only makes the wait for the chip longer.

`Xfer` assumes that the processor runs and deadlines pass, and, when the chip does not hang, that
it ends every packet. `SettleTimer` assumes the tick, and strong fairness of the task: the test of
the deadline is true for many turns of the loop but not for ever, because the milliseconds go back
to 0. `JtagUart` assumes the processor, the interrupt and the alarm; of the host that it takes a
character and pauses its typing again and again if it is connected again and again (strong
fairness), and nothing if it goes away: `WriteReturns` then rests on `host_inactive`. The half of
`ReadAnswered` that says that what is typed is read has these two as its conditions: a terminal that is
there time and again, and a program that reads time and again; with `[]<>host` alone a program that
stopped reading would leave the ring full. `Spi` assumes
the loop and the core's clock. The liveness part of
`GameRules` is weak fairness of `Win`: `Game` satisfies it because the pixel clock runs on.

## Proofs

All theorems hold for every value of the constants that the assumptions of the modules allow.

* `BulletProofs`. `TypeOK` is not inductive: that a position does not wrap depends on the offset it
  was computed from, a frame earlier. `IInv` adds `InFlight`: on the axis of flight the offset
  equals the distance flown, across it the drift is at most that, and every position lags one step
  behind (`Lag`). From it: `TypeCorrect`, `HandshakeSafe`, `RangeSafe`, `PairSymmetric`, and
  `MixedHitsAreReal`, which is `NoPhantomHit`, and `HitsAreReal`, the same for every centre on the
  plane instead of the sampled ones that TLC evaluates.
* `EnemyBulletsProofs`. `TypeOK`, `StaysOnPlane` and `FullRangeWhenIdle` together are inductive.
  `RowKept` needs no more than types: a frame takes the row from the base as it was and moves the base
  by one (`StepThenHalf`: half a base and a step may be added in either order on the ring).
* `GameProofs`. `TypeCorrect` types the game's own registers. `MapRigid` and `StarsInStep` rest on
  modular arithmetic (`Together`, `Against`: one step of a point on a ring turns the arc that leads
  to it). `WinIsSound` is inductive by itself.
  `RulesAreSafe` is the safety half of the refinement of `GameRules`, for bases that are `Apart`.
  The difficulty is a loss that was latched before a frame edge at which the last base falls. The
  invariant `RulesInv` shows that a frame edge finds a pending loss only right after a reset, when
  no base is hit yet (`LossTimed`), that such an edge can destroy one base at most (`NoDoubleHit`,
  from the geometry: both bullets of a pair lie on one line, and bases are further apart than the
  box of a hit on both axes), and so that a pending loss always finds a base standing (`LossFair`).
  The code's start corners and margins satisfy `Apart`. The battle instance, in one dimension, does
  not: there the conclusion is TLC's, for the reason given under Bounds.
  `GunIsBullet` and `FoeIsEnemyBullets` show that the composition takes the steps of `Bullet` and of
  `EnemyBullets` and no others: a frame is a step of each, with the orientation register as the
  direction (in range by `TypeCorrect`), and everything else is a stutter of both. `GunSafe` and
  `FoeSafe` carry the invariants of `BulletProofs` and `EnemyBulletsProofs` over to the game, under
  `ArmsAssumption`, which is the two components' own assumption on their sizes and which TLC
  evaluates on every run of `Game`.
* `VgaProofs`. `RasterImplementsBeam` is the refinement of `Beam`, for any size of screen and any
  place of pulse and ship with `VgaAssumption`. It needs the exact place of the vertical pulse
  (`VSyncExact`: on its lines, with the column where it begins and ends, and after a reset), because
  a scan that ran past the pulse without an edge would leave the game without a frame; where the
  edge finds the beam (`FramePlace`); and where `ship_on` can be set, also after a reset
  (`ShipOnPlace`). `PixelIsBeam` goes through the places of a frame. `RasterImplementsVga` carries
  `TypeCorrect`, `HSyncCorrect` and `FrameEdgeSafe`, which are about the controller by itself, over
  to the raster. `FrameEdgeSafe` (the frame clock never rises on the ship's lines or one pixel clock
  after them) needs to know which lines the pulse can end on (`VSyncPlace`).
* `UsbHostProofs`, for any number of addresses and any set of devices: `TypeCorrect`, `ResetSafe`,
  `EndpointsSet`, `DeviceServed`, `DriverSafe`. None of these is inductive. `IInv` adds:
  `Places`, that the increment is applied only right after a probe, so only to one of five states
  (without it nothing bounds `usb_task_state`); `ResetWait`, that a bus event that is pending during
  the wait is the end of this reset and not of an earlier one; `Table`, that the addresses in use
  are the first ones and the device in service has the last, which is why `GetDriverandReport`,
  which looks at the whole table, finds its class (`LastIsCurrent`); and `FlagPlace`, that
  `runningdebugflag` outlives the service only until the end of the same turn of the loop, with the
  states that the probe, the increment and one step of the task can make of it. One lemma per part
  has one step per action; the environment does not write the firmware's variables
  (`EnvironmentFrame`).

  `ServiceKept` is the refinement of `PortService`: of the flags, the table and the places of the loop
  nothing is left there but that a change is pending or not, and the phase (`Phase`). Every step that
  writes CONDETIRQ or moves the state to another phase is one of its four actions of the firmware. It
  needs `IInv` and that the loop probes only with a change pending (`ProbePending`). The hazard is the change that falls between the probe and the
  acknowledgement, which is never seen: `ForgetIsHarmless` shows that nothing is in service then.
  `ServiceIsRight` shows that such a service still serves what is at the port. A device that is
  plugged in at that moment while none is in service stays unserved until the connection changes
  again; `PortService` allows it, because the code does it.

  `LoopIsHost` says that the loop with its board is the host of `UsbHost`, so all of this holds of
  `MainLoop` too. `BoardTells` (light 9 and the messages) and `KeysSafe` are proved from it:
  `BoardPlace` follows light and error flag through the turn in which the service ends.

* `BoardProofs`, the alarms, for any word, alarms and periods: `TypeCorrect` is inductive because
  `TypeOK` says how many ticks every alarm has left (`Left`, computed from its time, the counter and
  the roll-over flag) and that they are between 1 and `Word - 1`. `OnTime` is the refinement of
  `Countdown`: a start, a stop and a tick of the list are those of the countdown (`OneLess`: what the
  test of `alt_tick` finds due is what has one tick left). `ClockOnTime` is the same with the settle
  timer on the same counter.
* `BoardProofs`, the settle timer: `SettleSafe`, for any word, divisor and settle time with
  `SettleAssumption`, that the deadline itself does not wrap (4294967 + 200 < 2^32 in the code).
  `Waiting` says that the milliseconds to go are at most the ticks to go. It is kept because a tick
  moves the milliseconds by one at most, or back to 0 (`TickNow`, from `NextMillisecond` on a product
  that wraps): the wrap can only lengthen the wait.
* `BoardProofs`, the terminal, for rings, FIFOs and requests of any size: `TerminalIsLink` is the
  refinement of `Link`, `RingKicked` is `WriteKicked`. Two lemmas carry the refinement: what is put
  into a ring comes after its content (`PutIn`), and what is taken out leaves the rest (`TakenOut`).
  `UartInv` adds what makes the program's steps fit: a piece that is about to be copied has room, of
  which the interrupt routine can only make more (`Copying`), and the space that the routine read
  from the control register is still there when it fills it (`SpaceKept`), so the core drops nothing.
* `DriversProofs`, for commands of any length: `IInv` says how many bytes are under way and where.
  `OneByte` ties the credits to the registers of the core (one credit is out exactly while a byte
  is written and not read back), `Known` says what a status that was read still tells when it is
  used (a byte to be read is still there, room to write still free), and `Selected`, `Fresh` and
  `Over` give what the chip and the caller have seen so far as runs of consecutive bytes (`Run`).
* `DriversProofs`, the search for a driver, for devices of any number of descriptors and a buffer of
  any size: `PolledIsSetUp` and `RefusalsHaveCause`. `SearchInv` says that the buffer holds this
  device and no other (`Arrived`), what the walk has passed (`Walked`), and that a driver that was
  tried without a failed transfer does not suit the device (`Tried`). That a suitable device has a
  first interface and a first endpoint behind it, which the walk must meet, is the least-element
  principle (`Least`).
* `DriversProofs`, the panel: `PanelTells`. The digits are those of the value because a decimal digit
  has no bit outside its own four places.
* `XferProofs`, for any retry limits, packet sizes, lengths and numbers of bytes asked for:
  `RequestsDone` holds for every chip; it needs only that a request is marked done by the packet that
  ends it (`RequestInv`). `DataIsWhole`, `ReportsOnce` and `LossesAnnounced` are about a chip that keeps
  its deadlines. `TransferInv` then adds `Steady` (the chip works only while the processor waits for
  it, and nothing of an earlier packet is left in it) and `Counted` (all packets read so far were full,
  so `xfrlen` is their number times the packet size, and more is asked for). `Get` relates the packets
  of an answer, any number of them, to the toggles of both sides and to the place of the device
  (`Aligned`: it still offers the newest packet, or is at the one after it); `Completes` and `Ceiling`
  give the packet at which the transfer ends. `Polled` does the same for reports, and says how many
  packets of the newest report a poll may have; `Framed` adds for reports of one packet and of two that
  these are the report's first ones, because each such report starts with DATA0. `Heard` and `Missed`
  say which reports were returned and which are still to come, and `Refusal` that a poll that is refused
  after it has received something has only the rest of a report that was returned before (`NotWhole`).
  `DataIsWhole` is about all answers, and about reports of one packet and of two that show their
  end; `ReportsOnce` is about all reports, `LossesAnnounced` about all that show their end.

Every safety property that a run checks is a theorem, except the two that the code violates (see
Findings). Only model-checked are the liveness properties (`ShotEnds`, `ShotsEnd`, `FramesForever`,
`ServiceGoesOn`, `TransferEnds`, `SettleEndsIfInRange`, `WriteReturns`,
`ReadAnswered`, `CommandReturns` and the fairness of `GameRules`, whose safety half is
`RulesAreSafe`): the provers cannot reason about `ENABLED`, which fairness is defined by. Nothing
here relies on induction over data: no definition is recursive.

## Findings

Two disagreements of the code with its own comments are runs:

* `user_bullet_collision.sv` does not look at `exists`: an expired shot keeps its position and
  destroys a base that drifts onto it (run `game_ghost`).
* `MaxIntHandler` increments `usb_task_state` after the bus probe has set it. A removal read together
  with a bus event goes to state 0x02, which no case handles, and `USB_init` is skipped: the address
  stays taken, until no address is left (run `usb_clean`).

The models follow the code in these others as well, and a property that one of them breaks names
the exception:

* `enemy_bullet.sv` steps in the direction registered a frame earlier and does not set it at a
  launch: a later shot starts in the direction of the previous one.
* `VGA_controller.sv` puts the vertical pulse one line before the lines its comment names. Line 92 of
  that file also says that 640x480 pixels are displayed, while the code displays columns 161 to 478
  and lines 61 to 418.
* `USB_Task` tests `HIRQ | bmFRAMEIRQ`, which is never zero, and does not wait for the first start of
  frame.
* `XferInTransfer` ends at a packet shorter than the device's packet size or at the bytes asked for. A
  report of fewer than 8 bytes that exactly fills a packet meets neither: the next IN is refused, and
  the report just read is discarded with a NAK, or the next report is put behind it. `DataWhole` and
  `LossAnnounced` fail without `ShowsEnd`. A mouse whose reports have the size of
  its packets is heard only when two come shortly after each other.
* The toggle of an endpoint is saved only at the end of a transfer. A poll that fails between two
  packets of a report of three or more leaves the device in the middle; the third packet has the toggle
  of the first, and the next poll may return the tail as a whole report. `DataWhole` excepts reports of
  more than two packets. A boot report of 8 bytes in packets of 8 or 4 is not concerned.
* A transfer that times out leaves HXFRDNIRQ to be set later; the next packet takes it for its own, and
  a request may then succeed without its answer. `DataWhole` excepts a chip that hangs for this.
* A settle deadline computed in the last 200 ms before the milliseconds wrap never passes: hence
  "if in range".
* A bus event read with the connection change skips the start of the settle timer: `skipped`.
* `altera_avalon_jtag_uart_write` waits until the host has been inactive for the timeout, and then
  gives up if it has been inactive at all (`Judge`).
* The LED register is connected to nothing: signs, hundreds and the lights of the firmware are not
  shown.
* The "timeout after 256 attempts" of `MAX3421E_reset` is a message only.

## Not modelled

* Pictures: sprite ROMs, palettes, colour multiplexers (data and combinational), and `HexDriver.sv`.
* Modules that `lab62.sv` does not instantiate: `Color_Mapper.sv`, `display.sv`, `framebuffer.sv`,
  `ball.sv`, `Color_Pallette.sv`.
* A descriptor cut in two by the end of `bigbuf`, and descriptors of length 0: the model's unit is the
  whole descriptor.
* `altera_avalon_jtag_uart_close` and `ioctl`, which the firmware does not call.
* The rest of the board support package (start-up code, device and file tables, cache and flash
  routines, register headers), the generated processor system with its interconnect, and the
  build products. They are vendor code, and most of their lines are tables, macros and wiring with
  no state of their own; what the firmware depends on of them is above. The tree also holds an
  older copy of the whole project under `Final/`. These make up nearly all of the lines of the
  repository, so the share of all its lines that a definition stands for stays small, while of the
  project's own firmware and of the game logic little is left.

## Plan

Everything planned is done. Between `Xfer` and `UsbHost` there is no refinement, on purpose: `UsbHost`
keeps nothing of a transfer but whether it succeeded, so the only promise a one-step transfer could make
there is that a success means an answer of this device to this request. `RequestsDone`, `DataIsWhole`,
`ReportsOnce` and `LossesAnnounced` say that, and more, about `Xfer` itself, and name the exceptions (a
chip that hangs, a report that does not show its end or takes more than two packets), which a one-step abstraction would have to allow
as well.

What would extend the project is not in reach here: the liveness properties as theorems, which need
`ENABLED`, and the processor system, whose behaviour is in generated vendor code.
