# TLA+ models of the ROV control program

This directory holds a formal model of the program under `src/user`,
`src/applications`, `src/drivers` and `src/tools`, the software of an underwater
vehicle (ROV) on a NanoPi board, and of the two parts of its libraries in which
threads meet: the logger it writes through and the video server that runs beside
it. TLC checks the models on small instances; the
TLAPS proof system proves the safety properties for every value of the
constants. `PROJECT.json` lists components, runs, mutants, the map from
definitions to source lines, findings, hazards and theorems.

## 1. The system

The program is one process with many POSIX threads and **no lock** of its own.
Everything the threads exchange is global memory, so a step of one thread may fall
between any two steps of another. The libraries under `src/lib` do lock: the logger
has one mutex, the video server one mutex and one condition variable per camera.

| Component | State it keeps | Operations | Talks to |
|---|---|---|---|
| Data link (`applications/server.c`, `data.c`) | `client_sock`, `recv_buff`, `return_data`, the TCP connections | accept loop, one `send_thread` and one `recv_thread` per client, parsing of command frames | writes the command record |
| Status frame (`applications/data.c`) | the fields of `return_data` | filled field by field by `send_thread` | reads `Sensor` while others store in it |
| Propeller control (`user/DeviceThread.c`, `Control.c`, `PropellerControl.c`) | sticks, thrusts, speed buffer, asked depth, PWM counts | one control cycle: test the lock, convert sticks, mix, buffer, hold depth, limit, output | reads the command record and the depth, writes the PWM chip |
| Arm, light, gimbal (`applications/pwmDevices.c`) | a position and a command byte each, an end flag | switch on the byte, move, limit, clear the byte | the bytes are stored by `recv_thread` |
| PID controllers (`applications/PID.c`, `Control.c`) | eight controllers and their table, two derivative filters | one controller step | called by the control loops |
| PWM chip (`drivers/pca9685.c`) | the registers of the chip | set frequency, full on, full off, counters | I2C transactions of several threads |
| JY901 (`drivers/jy901.c`) | receive buffer, attitude | one byte from the serial line, the conversion of a packet | writes `Sensor.JY901` |
| MS5837, SPL1301 (`drivers/*.c`) | calibration, raw values, temperature, pressure | set-up, read | I2C; register a pin node |
| Sensor start-up, ADS1118 (`applications/sensor.c`, `drivers/ads1118.c`) | the node list of the pin library, `depthSensor->name` | set-up of the converter in one thread, trials of the depth sensors in another | the list is shared |
| LEDs, buzzer, button (`applications/ioDevices.c`) | four soft-PWM descriptors, debounce flag | one 10 ms tick, one poll | GPIO |
| Board status (`drivers/cpu_status.c`, `data.c`) | file handles, `/proc` readings | four threads reading files for ever | writes `system`, `Sensor.CPU` |
| OLED (`drivers/oled.c`, `data.c`) | `OLED_GRAM`, the display | `oledSetup` in main, status page of five texts in `cpu_status_thread` | reads `system` |
| Logger (`lib/easylogger`) | line buffer, ring buffer, notices | `elog_output` in any thread, the output thread | every thread logs |
| Video (`lib/mjpg-streamer-experimental`) | the frame database of a camera | an input plugin publishes; output plugins and HTTP clients wait, copy, send | a process of its own |
| Pin library (`lib/WiringNP`) | the node list | registration of a node, `analogRead` | the sensor threads |
| Not modelled | `tools/filter.c` (no caller, or floating point on one value), `applications/focus.c` (bodies commented out), fonts and type headers, scripts, the rest of the libraries | | |

What is hard in this code: commands that change between two reads in the same
control cycle; attitudes that change while a status frame or a correction reads them; command bytes cleared by their reader; descriptors shared by old
and new connections; a byte stream whose header also occurs as data; static
variables shared by threads; register sequences that other threads interrupt;
arithmetic at the edge of its width; counters, buffers and tables at their
limit; set-up in one thread while another uses what is set up; wake-ups that are
lost, or that nobody sent; a frame that is freed or overwritten while it is sent. Each of these is a hazard in `PROJECT.json`, with the properties that
watch it.

What makes each component correct, in one line each: a lock stops the propellers
and outputs stay in range and slew-limited; an actuator obeys each command at
most once and never leaves its ends; a connection has its two threads and, once
reset, is released; frames and packets are taken whole or not at all;
controllers stay within their limits; a channel of the PWM chip switched
on or off holds what was last asked for; calibration is accepted only with its CRC right;
the sensor detected is one that is plugged in; every file opened is closed; the display shows the status; a status frame tells what
was so; a log line is whole, queued in order and comes out; a picture that is sent is
one picture, and a new one.

The tree as committed does not link (`ControlCmd`, `Frame_EndFlag`,
`device_hint_flag` and `pca9685PWMFreq` are used but not defined) and
`devices_thread_init`, `Total_PID_Init` and `pca9685Setup` have no caller. The
models take those names for the objects their users clearly mean. The theorems about
the propellers cover both settings of "PID table initialised" (`TotalPidInit`); their run
takes the one in which depth control does something, the run of the controllers both.

## 2. Modules

Every component has a module `X`, a module `MCX` with the values of its
constants for TLC (one for the modules that are composed), one
`MCX_<run>.cfg` per run. Theorems are in modules of their own; one such module may serve
components that belong together: `DevicesProofs` (arm, light and gimbal, button, PWM
chip), `SensorProofs` (JY901, status frame, depth sensors and their start-up),
`BoardProofs` (status threads and display).
Definitions keep the names of the C functions. A definition whose comment begins with "Mutant:" is a wrong variant of the definition that
follows it; the specifications do not use it, and the list of mutants in
`PROJECT.json` says which property it violates when it takes its place.

**Propeller.** `propeller_thread` as a program counter over its reads and
writes (`CheckLock`, `ConvertX`.., `CheckAgain`, `FourtAxis`, `Depth`, `Output`);
`recv_thread` changes one field of the command between any two of them.
Conversions from floating point to `short` choose between the truncated value
and, where the exact quotient is an integer, one less (`Truncations`): what the
compiled expression yields there depends on rounding. Depth is in 1/100,
controller output in 1/200, so all arithmetic is on integers. A dive (an element
of `Dives`) is what the operator may send and the sensor report, chosen once at the
start. `Expect_Depth` is a float: beyond `RiseBound` and `DiveBound` a step is
absorbed.

**CommandedServo, Devices.** `CommandedServo` is the abstract promise: a mailbox
of one command, obeyed at most once or dropped, and a position that moves by one
step. `Devices` is the code: read the byte, move, limit, clear. It is shown to
implement three copies of the promise (`ArmImplements`, `YunTaiImplements`,
`LightImplements`).

**DataLink.** The accept loop, two handlers per client, TCP connection states and
the descriptor table. The network is external: a client may send, close or reset
at any time. A frame is "good" or "bad" (its check byte) and `return_data`
"whole" or "torn". One `recv` returns the frame that is there (`FullRecv`) or fewer bytes
(`ShortRecv`), after which `recv_buff` ends in bytes parsed before and the rest of the
frame waits in the kernel: the stream is `short`, and out of step from then on. A `write` that blocks on a full socket buffer is not modelled.

**JY901.** The parser, byte by byte, against a sensor that sends packets of a
given set and a line that loses or changes up to `MaxFaults` bytes. Joining the
stream inside a packet counts as a fault. The conversion of an angle packet is
store by store (`SetRoll`, `SetPitch`, `SetYaw`, `SubtractOffset`, `RaiseYaw`,
`LowerYaw`), because other threads read `Sensor` in between. Angles are integers in
1/8192 of a degree, in which the conversion is exact.

**StatusFrame** EXTENDS `JY901` and adds `convert_rov_status_data`: the five fields
that another thread stores, read one after the other, with the conversions to
unsigned words and bytes as they are, rounding and wrap-around included. A
temperature is whatever `sensor_lowSpeed_callback_fun` has stored by then.

**IoDevices.** The tick of four descriptors and the debounce of the button, whose
contact may bounce between the two reads.

**SystemStatus.** Each thread is the sequence of file operations it performs. A
handle is a number; NULL ends the process, a closed handle may. Kernel counters
wrap at `M`.

**Board** composes `SystemStatus` with `OledText` (below): `cpu_status_thread`
draws the display in the middle of its loop, while main is still in `oledSetup`.
A scene (an element of `Scenes`) names the threads that are scheduled, the widths the
numbers are printed with and whether there is a display, so that an instance varies one
thing at a time. The theorems about the status threads are about this composition.

**Pca9685.** Each call is its sequence of I2C transactions; the chip is external, and
as it is powered up: asleep, every channel full-off, auto-increment off. `Commanded` is
what a channel's registers ask for, half-written ones included; `Driven` is what the
output is, which is low as long as the chip sleeps. A word write without auto-increment
puts the second byte over the first (`Stored`).

**PID.** Both controller functions, with a table given as a constant, the
derivative filter and `Angle_Control`'s compensation of the yaw. Gains are in
1/100.

**Ms5837.** Set-up with the CRC at full width, byte by byte as `_crc4` has it; what the
maker puts into a PROM is `Crc4`, the remainder by x^4 + x + 1 taken digit by digit, and
the boards' PROMs carry it (`RightCrc`). The words arrive with their bytes swapped
(`Swapped`): the chip sends the high byte first, and `wiringPiI2CReadReg16`, an SMBus word
read on a little-endian board, takes the first for the low one. The compensation with integers of
`W` bits and scale factors `RefScale`, `TempScale` in place of 32 bits, 2^8 and
2^23, keeping which operand is signed and where a product wraps.

**Spl1301.** Set-up (calibration fields, rates, shifts, start, detection) and the
byte-by-byte raw readings while the chip goes on measuring.

**SensorNodes.** The composition of the three: it EXTENDS `Ms5837` and `Spl1301`
and says when the depth thread takes the steps of their Setups
(`Depth_Setup`), what it does with the verdict (`Depth_Probe`), and when a caller
of `analogRead` reaches which driver. The Setups end in `wiringPiNewNode`, whose
overlap check, read of the list head and store of the new head are separate steps
of the two threads. `wiringPiFailure` ends the process. What differs between two
boards (which sensor is plugged in, its PROM or calibration memory, a noisy bus,
what an earlier run left in the chip, missing bus devices) is a record of the
constant `Boards`, so that an instance varies one thing at a time. The code's
calls of the readings in `depthSensor_thread` are commented out; the model lets
any caller read once the node has its method.

**OledText.** The five texts of `oled_show_status` as lengths, drawn by
`OLED_ShowString` character by character; a glyph that another one overlaps is
gone. `oledSetup` runs in main on the same memory and the same bus: its clearing may
fall into a round, and a command of the one thread may be taken for the argument of
the other's. The buffer a text is formatted in is left out.

**LogQueue, Elog.** `LogQueue` is the abstract promise of the asynchronous logger: a
bounded queue of bytes, of a line that does not fit only the end is lost. `Elog` is
the code: packaging in one static buffer under the mutex, a ring buffer with two
indices and two flags, a semaphore, the output thread's chunks. It is shown to
implement the promise (`ImplementsQueue`). Lines below `DEBUG` are printed at once.

**FrameStream.** The frame database of one camera. Four input plugins publish (data,
size, time, broadcast, under the mutex); the loops of all output plugins and of
HTTP clients differ in four respects only (does it wait, can its buffer grow, does a
failed send end it, does it end anyway), so each is a row of `Profile`. A frame is its
number. The buffer of `output_file` is a static pointer which the TAKE command of an HTTP
client uses as well: either may grow it (and move it), free it, or leave it freed or
smaller than `max_frame_size` says (`room`), under the other; using it then may end the
process (`Crash`). `signal_handler` cancels threads, also in `pthread_cond_wait`. What a condition
variable may do without a broadcast is an action of its own.

### Choices that hold everywhere

- A store to one field is one step; the reader may run before or after it. The
  fields are bytes, 16- or 32-bit words, which the hardware stores whole.
- What is not in the repository (TCP, stdio, the chips, the serial line)
  is external: it does whatever the calls and comments of the code allow.
- Histories (`sinceLock`, `fresh`, `spurious`, `disturbed`, `overlapped`, `clashed`,
  `held`, `shared`, `after`, `configured`, `torn`, `replaced`..) are read by properties only; no action's guard depends on them.

## 3. Runs

### Passing

| Run | Checks | Bounds, and why they are enough |
|---|---|---|
| propeller | limits, lock within two outputs, slew, windup of the asked depth, a standing lock is obeyed for good | two dives: horizontal with three positions of the stick, and up and down with two measured depths; a narrowed PWM range and depth limit so that the buffer, the limits at both ends and the windup bound are reached and not cut off |
| devices_all | exact end flag, refinement of the three servos (`ImplementsServos`), an arm kept opening reaches its end | travel of a few steps that the speed does not divide, every command byte and, for the light, an unknown one |
| link | served connections, stale descriptor, fresh commands, whole frames, released resets, senders end | two clients on one descriptor: every reuse of a number, every handler overlap and a failing `accept` occur; two command frames in all (`MaxFrames`), so that the rest of one cut by a short `recv` is joined by the next; check bytes right or wrong |
| jy901 | whole delivery, resynchronisation, truth of status frames | packets with 0x55 as header only, as type and as data; two faults, so that the second may hit while the first is being repaired; the extreme compass offset, an angle next to half a turn; a temperature whose hundredths a float misses and one below zero; a frame read at any point of a conversion |
| io | durations, one report per press | a duration below a tick, a period of one tick, a duration its period does not divide, one endless device |
| board | own files, end of the process, exact usage, a round whose texts fit is shown whole | three scenes: texts of many widths drawn while main sets the display up; two readers of the temperature; the threads that open other files. Four files, so that the leak meets the limit; counters that wrap at `M` = 3 |
| pca9685 | outputs stay low, switched as asked | two channels and all-channels; counters of 2 x 4 values: a high half fits the low byte together with the full bit, as in the registers, where it may be stored over the low half |
| pid | windup | rows that errors of a few units saturate; every flag set and none; angles on both sides of 0 and of 180 degrees |
| depth_sensor | CRC, temperature, raw readings, detection, complete nodes (calibration fields and rates included), start-up settles | families of boards: every set of buses, error modes and sensors; two full-width PROMs, one of which passes with its bytes swapped, with every bit flipped; four that pass, with 12 temperatures around the reference and products that wrap; 64 memories around the sign bits; all rates and an unknown one beside 8 and 16; two results of opposite sign; both pin bases 100, as in the code |
| elog | whole lines, no lost wakeup, refinement of the queue, what is queued comes out | two threads, lines of two and three bytes of which one is cut, of both kinds; a ring of four bytes, which is filled across its end and emptied in chunks of two |
| frames | whole copies, fresh frames, waiters are served, the mutex comes back | three kinds of input, a recorder whose buffer an HTTP client's command shares, one HTTP client with every request; two frame numbers tell an old frame from a new one |

Several properties have a premise that names the case in which the code goes
another way: `FramesIntact` (no two senders overlap), `Resyncs` (from some time on
0x55 occurs as header only), `FrameTruthful` (the attitude or temperature was not
stored while the frame read it, the temperature is not below zero), `OwnFilesOnly` and
`EndsOnlyOfLeak` (until two threads have been in `get_cpu_temp` together),
`StatusShown` (the round began after `oledSetup`, whose commands were not torn, and its
texts fit), `CommandsFresh` (one client at a time, which is still there, and no `recv` of
its stream came up short), `SwitchedAsAsked` (no two callers on one pin), `WarmExact` (at or above the
reference temperature, products that fit), `QuietRawRight` (no replacement during the
reading), `CopiesWhole` (the input's buffer was not freed before or while it was copied, and the
buffer `output_file` shares with its command was neither overwritten, moved nor freed while
it was sent from, nor freed or too short when it was copied into),
`FreshFrames` (no wake-up without a broadcast), `LockComesBack` (no cancellation, and
not input_file without memory). Each premise holds in many states of the run and fails
in others.

### A violation

`link_client_closes` checks `Survives`: the branch for a client that went away
(`server.c:85`) expects the program to go on, but the `write` to its connection
raises SIGPIPE, which nothing ignores.

### Other disagreements of code and comments

Met while modelling, present in the models, and without a run of their own:

- Propellers: `Propeller_Stop` leaves the speed buffer alone, so the first motion
  after a lock jumps (`Control.c:57`); depth hold stops while locked
  (`PropellerControl.c:94` says it does not).
- Devices: the gimbal's end flag is raised by every move (`pwmDevices.c:269`); a
  command stored between the switch and the clearing is wiped (`:247`).
- Data link: after an orderly close `recv` returns 0 and the last frame is parsed
  again until the sender notices (`server.c:107`); after a short `recv` the end of the last
  one is, and a live client's stream stays out of step (`:107`, `:119`); an old handler may close its
  successor's connection (`:86`); two senders tear the one `return_data`
  (`data.c:148`); the check byte of a command is compared past the buffer
  (`data.c:72`).
- Status frame: a temperature below zero is told wrongly, its decimals by a conversion
  that C leaves undefined (`data.c:104`); the yaw may be read in the middle of its
  correction, and a frame may hold fields of two attitudes (`jy901.c:99`).
- JY901: with 0x55 among the data one lost byte may leave the parser out of step
  for ever (`jy901.c:80`).
- Soft PWM: one high tick too many per period (`ioDevices.c:97`); an LED whose
  duration is over is left lit (`:104`); a press that bounces at the second read is
  dropped (`:144`).
- Board status: every network reading leaks a file (`cpu_status.c:179`); two threads
  share the static `FILE*` of `get_cpu_temp` (`:31`); the IP address is asked for
  once, perhaps before there is a socket (`data.c:207`).
- PWM chip: the sleep and restart bits go to a struct that is never sent, for a local
  variable of the same name is written back as it was read (`pca9685.c:47`): the chip,
  asleep at power-up, is never woken, where the comments at `:56`, `:59` and `:188` say
  that it is. The word writes of the counters need auto-increment, which nothing enables
  (`:82`), and nothing but `pca9685FullOn` clears a full bit.
- PID: with equal kept values the median filter takes a spike (`PID.c:197`); the
  correction of yaw errors beyond half a turn is commented out (`:137`); a yaw of
  exactly 0 feeds back an older angle (`Control.c:161`); the rows commented pitch,
  yaw, roll are used as roll, pitch, yaw (`PID.c:35`).
- MS5837: the words of the PROM arrive with their bytes swapped (`ms5837.c:76`, where
  `:116` reads byte by byte, high byte first), so most intact PROMs are refused and the
  sensor is not found, though the trial is to tell "which sensor is plugged in"
  (`sensor.c:93`); below 20 degrees the unsigned product wraps and cold water reads as warm
  (`ms5837.c:137`); the pressure read is not used (`:184`); `_crc4` clears
  `crc` and `factory_id` (`:35`). SPL1301: the three bytes of a result may belong to
  two (`spl1301.c:231`).
- Sensor start-up: both threads claim pin 100, so that the second one ends the
  process (`sensor.c:38`) unless both pass the check first, and then the pins are
  claimed twice or one node is lost (`wiringPi.c:1947`).
- ADS1118: the SPI transfer is given a descriptor where the library takes a channel
  (`ads1118.c:36`).
- OLED: main clears and configures the display while another thread draws on it
  (`init.c:57`); a net speed of 100.0 kb/s wraps and clears the display (`data.c:173`); a text
  that got shorter leaves the end of the longer one (`:160`); two texts are longer
  than `char str[20]` (`:156`).
- Logger: lines printed at once overtake lines logged before them that are still queued
  (`elog_async.c:270`).
- Video: the uvc input frees its buffer without the mutex (`input_uvc.c:850`); the file
  input leaves its loop with it when memory is out (`input_file.c:341`); the recorder's
  command writes, and may move, the buffer its worker is saving (`output_file.c:602`,
  `:592`); the worker frees that buffer when it ends, is cancelled or cannot format a name
  (`:102`, `:261`), while a command may be saving it or be about to; without memory
  `max_frame_size` has been raised already (`:228`, `:591`); a worker
  cancelled in its wait keeps the mutex, and the loop that cancels the inputs counts
  outputs (`mjpg_streamer.c:113`).

### Fairness

Liveness is checked under weak fairness of each thread's step, which is what the
Linux scheduler gives a runnable thread of a normal-priority process; each thread
of the program loops without blocking on another one. The serial line delivers what was
sent (`WF(Receive)`) because the polling thread reads until nothing is left, and a
conversion that has begun goes on (`WF(jy901_convert)`); the clock ticks. A mutex is
given to each thread that keeps asking for it (`SF` of taking it, in Elog and
FrameStream): its holders give it back and sleep, on a notice, on the camera or between
lines. Clients, operators, contacts, readers of a sensor, allocations and faults have no
fairness: they may stop at any time. In `HeldOpenReachesEnd`,
`LockEventuallyObeyed`, `Resyncs`, `SendersDrain` and `WaitersServed` what the
environment must keep doing, or has stopped doing, is a premise of the property.
`StartupSettles` holds under fairness of the two sensor threads alone, while readings
go on.

### Deadlock

`CHECK_DEADLOCK FALSE` appears where a run legitimately ends: no client is left to
connect and the process may have died (DataLink), the process has died (Board), it has
been told to stop (FrameStream), or a scenario of calls is over (Pca9685). Elsewhere
deadlock is checked.

## 4. Proofs

TLAPS checks these for every value of the constants allowed by the `ASSUME`s of
the modules.

**PropellerProofs.** `TypeCorrect`, `PwmSafe`, `LockSafe`, `DiveSafe`, `SlewSafe`.
None of the properties is inductive alone, so the proofs use
`IInv == SlewInv /\ LockInv /\ DepthInv /\ PwmWithinLimits`. `SlewInv`: between
motion cycles the PWM lies in the window the limited speed buffer left around its
memory, and between mixing and output the new thrust is near that memory; it
rests on lemmas that the limit contracts distances and is monotone. `LockInv`:
once an output has been made under a standing lock, the thread can only be on the
stopping path, with zero thrusts until they are output. `DepthInv`: an output
below its limit means that the asked depth was within reach of some depth the
sensor reported, so the stale comparison that stops accumulation is at most one
stick step late.
`StopBounded`: the thread is at most seventeen of its steps (its delay at the start and
two cycles) from obeying a lock that stands.

**DevicesProofs.** `TypeCorrect`; `ActuatorsSafe` (ends, exact end flag of the
arm); `ArmRefines`, `YunTaiRefines`, `LightRefines` and their
conjunction `ServosRefine`: the initial state maps to the
initial state of `CommandedServo` and every step to `Store`, `Obey`, `Drop` or a
stutter. Moving and clearing are one step of the model because nothing else reads
the position in between, and the history `fresh` tells whether the byte cleared is
the one obeyed. `PressReportedOnce`: while the released flag is up no press has been
reported since the last release (`ReleasedInv`), so the debouncing that reports one
clears it. `OpeningBounded` and `DurationBounded` count the calls until the arm is at its
end and until a device with a duration is silent.
About the PWM chip: `NeverWoken` and `SwitchesObey`. What a channel ends up with is not
inductive, for a call may be at any of its transactions; `PcaInv` therefore adds, for each
thread, the stage its call has reached (`CallInv`: what it still has to send, what it has
read and whether that is still so, what the channel's registers ask for meanwhile), that no two calls
are about one channel (but for the channels where two met, which the properties exclude
too; `ChannelInv`), that until `pca9685Setup` has returned every channel is full-off
(`SettingUp`), and that the chip and the local copy of MODE1 are asleep without
auto-increment (`Asleep`), so that a word write keeps the full bit. A step of another thread leaves a call where it stands
(`CallKept`).

**SensorProofs.** About JY901: `TypeCorrect` (the buffer is never overrun), `YawSafe`,
`InPhaseSafe`, `DeliverySafe`, `ResyncBounded`. `YawInv` says how far out the yaw may be at each store of
the correction: at most a turn and a half, so one raising or lowering brings it back,
whatever the offset. `PhaseInv` adds to the types that before the line is open nothing
has been received, and that without a fault the buffer is exactly the prefix of the
packet that has been sent. Out of phase, the buffer holds too much of the packet and is
full before it ends, or too little and is full in the packet after it (`Distance`, in
bytes). About StatusFrame: `FramesTell`. Its invariant joins
`Converted` (outside a conversion the attitude is that of the packet last received,
and inside one the fields stored so far are) with `Read` (a field of the frame that is
filled tells the attitude as it is, unless that has been stored since), on the lemmas
`WordsTell` and `DegreesTell` about the conversions.
About the depth sensors, all under `Start_Spec`, the composition:
- `QuietReadings`: `ReadingInv` says which bytes of the chip's result a reading has
  fetched so far; if one result only was held meanwhile, they are its bytes (`Fetched`).
- `CalibDecoded`: the shifts, masks and sign extensions of `spl1301_get_calib_param` give
  the nine fields, for every memory.
- `CompleteNodes`: `NodeInv` says what the nodes hold at each point of a registration,
  `SetupInv` that the rates set so far and the shifts are those of the chip. Here
  the list walk appears only through the node it returns.
- `WalksEnd`: that walk ends and returns a node of the list that has the pin, if there is
  one. Two Setups that link at once may lose a node, but they make no circle: nothing
  leads to a node before it is linked, so in every state the nodes can be numbered
  downwards along the list (`ListInv`), and a loop has its end within three steps
  (`WalkStops`).
- `StartupBounded`: a bound on the steps each start-up thread has left, at most 49
  together, which each step lowers.
- `WarmReadings`: powers of two as moduli (`NoWrap`), for every `W` and every scale.
- `FlipNoticed`: one digit more or less changes the CRC, for mixing in a digit loses
  nothing (`MixKeeps`, `DigitMatters`).
- `AcceptedExactly`: the remainder of `_crc4` after each byte is the one of the digits so
  far (`OneTurn`, `DividedDigits`, `BytesOfDigits`, `RestEnds`), so the Setup compares the
  CRC with `Crc4` of the words as they arrived, swapped (`CrcInv`); if they carried it, a
  flipped bit leaves it wrong, and the ones of a bus without the sensor do not pass (`OnesRefused`).
- `RightDetection`: `DepthInv` relates the driver on trial to the trials before it. Its
  hypothesis `0 \notin Fds` is what the program lives in: standard input is open, so no
  `open` returns 0, which `depthSensor_thread` would take for a failure (`fd > 0`).

**DataLinkProofs.** `ServedSafe`, `StaleSafe`, `FreshSafe`, `FramesSafe`.
`ServedWhileCurrent` is inductive with the types: a thread ends only once `client_sock`
no longer leads to its connection. `StaleOnlyWhileClearing` needs `Fresh` (a client
that waits or was just accepted has no threads). The other two rest on `Single`: while no two
senders have overlapped, at most one connection has busy threads, so what it parses and
sends is its own.
`DrainBounded`: a `send_thread` is at most six of its steps from its end while no client
is current. `ReleaseBounded`: a client reset while it is the only one always has a thread
that is about to take the next step of its release, and seven such steps are enough; the
invariant behind it (`ReleaseInv`) says that, with one client at a time, only the
descriptor in `client_sock` is open, it is cleared only after it was closed, only a thread
inside `recv` is given bytes of a connection, and the current one has its threads.

**PIDProofs.** `TypeCorrect`, `OutputSafe`, `WindupSafe`, `SpikeSafe` with
`IInv == TypeOK /\ OutputLimited /\ WindupBounded /\ SpikeHeld`, from lemmas about
one controller step and the median of three values. `WindupSafe` holds only for
the rows whose `Integrate_Limit_Flag` is set, as the property says.

**ElogProofs.** `TypeCorrect`, `LinesStayIntact`, `WakeupNotLost`, `QueueImplemented`.
The invariant says when the two indices meet (`RingOK`: full or empty, never both, as
the flags tell), who may be where while the mutex is held (`HolderOK`), and how much of
the line is packaged (`LineOK`). `PutAppends` and `GetTakesOldest` say what a copy
across the end of the ring does to the queue it stands for; the refinement follows.
`OutputBounded`: whoever holds the mutex is in the middle of a line (`HeldInLine`) and at
most five steps from its end; the output thread prints at its second step.

**FrameStreamProofs.** `TypeCorrect`, `CopiesStayWhole`, `FramesFresh`, for any number
of workers and clients. `Exclusive`: a thread between taking and releasing the mutex is
its holder. `DatabaseWhole`: while nobody writes, size, time and data are of one frame,
or the input has ended. `ReadRight`: what a thread has read so far is of the frame that
is there; `BuffersAreUsers` and `OthersSend` say whose buffer a step touches and who is
sending from it, so that every such thread is counted among the disturbed. `WokenFresh`: a thread woken by a broadcast has a frame that is newer than
its wait.
`MutexGivenBack`: the mutex has a holder in the middle of a frame, at most four steps from
giving it back, or it was lost, which happens in two ways only (`MutexHeld`): to
`input_file` without memory, or to a worker cancelled in its wait; or the process crashed. `WaitBounded`: a thread
that waits is never one that has just missed the broadcast (`WaitsForBroadcast`), for the
mutex is held from the data to the unlock.

**BoardProofs.** `FilesOwn`, `EndsOfLeak`, `UsageTrue`, about the composition of all
status threads with the display. `FilesInv`: until two threads have met in
`get_cpu_temp`, a thread holds a file exactly where its program (`Path`) says so, the
shared `FILE*` is the file of the one thread that is in there, and if that one is NULL
the handles had been used up by leaks, which stay (`Full`, `StaysExhausted`).
`UsageInv`: between the readings the snapshot and the counters differ, modulo `M`, by
the ticks gone, and after the second one the differences are the ticks themselves.
`StatusOnDisplay`: `FittingText` says what the recursive loop of `OLED_ShowString` draws
when the text fits its line (its characters side by side, what they overlap gone),
`LinesApart` that two lines then have no pixel in common, and `RoundInv` that a round
which began after `oledSetup` has in `OLED_GRAM` the texts drawn so far. The theorem has the
hypothesis that a percentage has at most five characters, as `%0.1f` prints 0 to 100: a
longer one would run under the net speed, which is drawn beside it.

Proved and in no run's list of properties, because they are parts or consequences of
those that are: the type invariants, `WithinEnds` (in `ActuatorsSafe`), `YawInRange`,
`InPhaseUntilFault`, `OutputLimited`, `SpikeHeld`.

With these every safety property that a passing run checks is a theorem.

Assumptions on the constants that the proofs rest on are in the modules that declare them,
and every run evaluates its own: numbers are of the types the code gives them, the bases
of two nodes are numbers the pin library takes, PROMs carry their CRC, rates are those the
driver has.

**Behind liveness.** A liveness property here is a measure that goes down and a scheduler
that lets it. The first half is proved for each of the ten, as an invariant that bounds
the measure and an action property that says which steps lower it and that no step of
anybody raises it; the second half, fairness of those steps and that they are enabled,
is the part TLC checks.

| liveness property | proved behind it | bound |
|---|---|---|
| `LockEventuallyObeyed` | `StopBounded` | 17 steps of `propeller_thread` |
| `HeldOpenReachesEnd` | `OpeningBounded` | `(ArmMax - ArmMin) / ArmSpeed` calls |
| `DurationObeyed` | `DurationBounded` | the set time over `div` calls |
| `ResetReleased` | `ReleaseBounded` | 7 steps of the connection's threads |
| `SendersDrain` | `DrainBounded` | 6 steps of each `send_thread` |
| `Resyncs` | `ResyncBounded` | `2 * PacketLength - 2` bytes |
| `StartupSettles` | `StartupBounded` | 49 steps of both threads |
| `QueuedComesOut` | `OutputBounded`, `WakeupNotLost` | 5 steps of the holder, 2 of the output |
| `WaitersServed` | `WaitBounded` | 5 steps of the input, 3 of the waiter |
| `LockComesBack` | `MutexGivenBack` | 4 steps of the holder |

The bounds hold under what the liveness property supposes, too: a lock that stands, a line
without faults, no new client, an input that goes on.

Model-checked only:
- the liveness properties themselves, for the prover has no reasoning about fairness and
  ENABLED: `LockEventuallyObeyed`, `HeldOpenReachesEnd`, `ResetReleased`, `SendersDrain`,
  `Resyncs`, `DurationObeyed`, `StartupSettles`, `QueuedComesOut`, `WaitersServed`,
  `LockComesBack`;
- what recursive definitions compute in general: `ShowString` on texts that wrap. The library's induction theorems take an operator as a
  parameter, which no prover here can instantiate. Where a recursion is reasoned about (the
  CRC, a text that fits, the list walk), the argument is the least index at which two
  functions differ (`Least`, from the well-foundedness of the numbers), an invariant of the
  loop's steps, or a number of steps known in advance.

## 5. Not modelled

- `tools/filter.c`, `applications/focus.c`, fonts and scripts, for the reasons in
  section 1.
- Most of `src/lib`, which is most of the repository's lines: the compiled-in pictures
  of a test plugin, font tables, the MMAL stack of a camera of another board, the
  device drivers and the command-line tool of the pin library keep no state this
  program's behaviour depends on; command lines, HTTP parsing and camera controls of the
  video server are sequential and local to a thread. What the models stand for is the
  program itself and the parts of the libraries in which threads meet.
- The logger's setters, keyword filters, hex dump and file output, which the program
  does not use once it runs.
- Reading the ADC (`ads1118.c`): nothing calls it.
- Floating-point formulas: SPL1301's pressure polynomial, the conversions of the
  JY901's other packets.
- Boards with a big-endian processor, on which the PROM words of the MS5837 would arrive
  unswapped; a PWM chip that something else has woken or set to auto-increment before the
  program starts (it has no other user on this board).
- Functions without callers: `ROV_Rotate_Control`, `AUV_Depth_Control`,
  `depthSensor_Data_Convert`, `OLED_ShowPicture`, `OLED_ShowNum`, `OLED_Fill`.
- Memory reordering by the processor: stores are seen in program order.

## 6. Plan

Done, in the order of importance: what the vehicle does with its commands
(Propeller, Devices), how they arrive (DataLink), what it senses and reports (JY901,
StatusFrame, Ms5837, Spl1301, SensorNodes), the controllers and the chip that drive it
(PID, Pca9685), the board (IoDevices, SystemStatus, OledText, Board), and what it
shares with its libraries (Elog, FrameStream).

Next:
1. A composition of `DataLink` with `Propeller`: from a received frame to a
   stopped propeller, with a replayed or lost frame in between.
2. `Ads1118`: channel selection, the conversion that a transfer returns, the SPI
   channel taken from the descriptor, once something calls it.
3. `OledBus`: the bytes of set-up commands and page writes of two threads on one
   stream, where `OledText` has whole commands and pages.
4. Proofs: that composition, from `FreshSafe`, `LockSafe` and `StopBounded`.
