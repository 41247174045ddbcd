# Verification of the M20 strain sensor

TLA+ models, model-checking runs and machine-checked proofs for the firmware of the M20
Screw sensor: an EFR32BG microcontroller that wakes up, asks an ADS1220 converter for four
samples over SPI, sends them over Bluetooth LE and goes back to sleep.

    tlc -workers 2 -config StrainFsm_spi_ok.cfg StrainFsm    # a run
    tlapm StrainFsm_proofs.tla                               # the proofs

`PROJECT.json` lists the runs, the properties each checks, the mutated definitions that
each property rejects, the source lines behind every definition, the hazards, the findings
and the theorems.

## The system

Everything runs on one core: the main thread, which never blocks (`main.c`: `while (1)`),
and interrupt handlers, which run to completion. There is no RTOS. The main thread calls
`sl_system_process_action` (one step of the Bluetooth stack, at most one event) and
`fsm_fire` in turn.

| Component | State it keeps | Operations | Talks to |
|---|---|---|---|
| **Application FSM** `m20_strain_ble.c/.h` | eight flags, `num_data_retrieved`, `sensor_data[4]`, a sleeptimer, `wakeupTimer` | 11 guards, 8 transition functions, 3 callbacks, `BURTC_IRQHandler` | driver, sender, EMU, GPIO, the connection table |
| **FSM engine** `fsm.c/.h` | `current_state`, the table | `fsm_fire`: the first row whose state and guard match | guards and functions of the application |
| **Start-up** `main.c`, `app.c: app_init` | BURTC and interrupt configuration | `app_init`, `new_app_fsm`, the super-loop | all |
| **Bluetooth events** `app.c: sl_bt_on_event` | `connections[10]`, `nConnections`, the advertising set | boot, opened, closed | the stack; the table is read by `reset_timer_sleep` |
| **ADS1220 driver** `ADS1220.c`, `ads1220.h` | `settings`, `settingsR` (copy of four registers), static sample buffer | `begin`, setters, `start_conv`, `read_data_samples`, ... | the converter, through blocking SPI transfers |
| **BLE sender** `sl_bt_m20_strain_sensor.c` | none | `sl_bt_torque_send_data`: four attribute writes, four notifications | the stack, by the handles of `gatt_db.h` |
| **GATT database** `autogen/gatt_db.c/.h` | the attribute table (constant) | discovery, reads and notifications, by the stack | the sender; the clients |
| **Generated start-up** `autogen/` | which calls have been made; clocks, pins, interrupt lines | `sl_system_init`: five lists of calls; one turn of the stack per pass | drivers, `app_init` |
| **Configuration** `config/` | none | pins, clocks, modes, chosen by macros | the start-up code |
| **Over-the-air update** (SDK code, not in the tree) | the SDK's | `sl_bt_in_place_ota_dfu_on_event`, which sees every event before the application (`sl_bluetooth.c:47`) | the bootloader |

The rest of the tree is the vendor's SDK (`gecko_sdk_*`), build products and documents. It
is not part of the program's own logic; where the program depends on what the SDK or the
hardware does, the modules say so and the map calls the definition external.

### The normal course

`new_app_fsm` sets `wakeup_timer_flag`, so the first scan takes SLEEPING to WAKING_UP. There
`wake_up` decides between slow and continuous mode from the reset cause and `wakeupTimer`,
raises the bridge pin and runs `begin`. Then, for each of four slots, `ask_for_next_data`
sends START, the DRDY edge sets `data_ready_flag`, `retrieve_data` reads the sample and
`check_data_retrieved` — a guard — advances the counter. After the fourth,
`power_down_interface_send_data` sends. In continuous mode `ask_again` starts over; in slow
mode `try_to_sleep` starts a 20 s timer, after which `reset_timer_sleep` closes the
connections and enters EM4, from which the BURTC (every 10 s) or a pin wakes the device
through a reset that loses RAM. The button toggles the mode at any time.

### What is hard about it

* **Flags shared with interrupts.** Each guard is evaluated at its own moment of the scan;
  the button, DRDY and timer handlers write the flags in between.
* **A guard that writes.** `check_data_retrieved` increments `num_data_retrieved`; whether
  `sensor_data[]` is overrun depends on when `fsm_fire` calls it.
* **Resets.** RAM is lost in EM4, while the BURTC compare flag, the reset causes, the EM4
  pin enable and the converter survive; `wake_up` rebuilds the reason from them.
* **Edges nobody asked for.** Until `begin` has configured the converter, DRDY may fall at
  any time; a conversion started before a reset ends after it.
* **Order of set-up.** Some thirty generated calls, then nineteen of the application; each use
  of a driver, clock or pin rests on calls made in other files, anew after each wake-up, and
  interrupts are already enabled while the last of them run.
* **Bytes.** A sample is three transfers into a static buffer, two shifts for the sign, a
  float, and a pointer that walks over four floats; one byte off gives a plausible number.
* **Errors nobody handles.** SPI transfers and sends that fail have (nearly) no effect on
  the control flow, so what they leave behind is used.
* **The connection table** is never shortened, and the loop that reads it in
  `reset_timer_sleep` compares its index with the *pointer* `nConnections`.

### What makes each component correct

* Application FSM and engine: a report holds this round's conversions, each in its slot; a
  round ends only when its data was sent; no DRDY edge is lost or taken for another; the
  counter stays in range; a timer wake-up starts slow mode; slow mode lingers before it
  sleeps; a round once begun reaches its report, a report that was sent is acted on, and a
  linger timer that was started ends the linger.
* Driver: the copy follows the converter; no setter undoes another.
* Bluetooth events: one client at a time, no start of advertising refused, the sensor can
  be found again, an open link is in the table.
* Sender and database: what a client finds under a sensor's name is that sensor's value,
  whole, and it is stale only if a call of its own failed. (After a failed SPI transfer the
  first half is not true of this code: see `foreign_bytes`.)
* Start-up and configuration: nothing is used before it is set up, each clock branch runs
  from the oscillator meant, no two drivers share a pin, each interrupt line is served by its
  own callback.
* Whole program: no command reaches the stack before its boot event; the device comes back to
  its clients after every reset, and from EM4 if it gets there (this build faults on the way
  there from slow mode, see `sleep_follows`), and again and again while its loop runs.

## The modules

| Module | Models | State and actions |
|---|---|---|
| `AppFlags` | guards, transition table, effect of every function and callback on the flags | none: operators on a record of flags, named as the C functions |
| `StrainFsm` (extends `AppFlags`) | main loop, `app_init`, `fsm_fire`, transition functions, interrupts, EM4, resets | `pc`: the statement the main thread executes next; `row`: the cursor of `fsm_fire`; one action per table row scanned, per function (cut where an interrupt matters), per interrupt, per reset |
| `DutyCycle` | abstract specification: what the sensor promises, without flags or program points | `phase`, `collected`, `delivered`, `lingered`, `continuous` |
| `StrainDuty` | the refinement mapping from `StrainFsm` to `DutyCycle` | none of its own |
| `StrainInv` | the inductive invariant of `StrainFsm` | none of its own |
| `StrainFsm_proofs`, `StrainDuty_proofs`, `Ads1220_proofs`, `AppBle_proofs`, `GattDb_proofs`, `Report_proofs`, `StartUp_proofs`, `M20System_proofs` | theorems about the module of the same name; the last extends `StrainFsm_proofs` and `StartUp_proofs` and has an instance of `AppBle_proofs` | — |
| `Ads1220` | registers of the converter, the driver's copy, the bytes each call puts on the bus | one action per public call |
| `AppBle` | `sl_bt_on_event`, the stack's advertiser, links and event queue, the closing loop | one action per event, per round of the loop, per act of a client |
| `Samples` | from three bytes to a value and to a float's bytes | none: pure operators and their reference definitions |
| `GattDb` | the attribute table and what a client discovers in it | none: constants |
| `Report` (extends `Samples`, `GattDb`) | `read_data_samples`, `power_down_interface_send_data`, `sl_bt_torque_send_data`, a client | the static buffer, the samples, the sender's pointer and status, the attributes, the client's view; one action per byte, per stack call, per act of the client |
| `MCReport` | readings for TLC | none |
| `StartUp` | the calls from reset to the super-loop, clocks, pins, interrupt lines | none: operators on the number of the call the main thread is at |
| `M20System` (extends `StrainFsm`, `StartUp`; an instance of `AppBle`) | the whole program, reset to reset | `at` (start-up call), `turn` (stack or FSM), and the state of both halves; actions of the parts, joined |

### How `StrainFsm` corresponds to the code

*Granularity.* Handlers run to completion, so a handler is one step. The main thread is cut
at every point where an interrupt could change what the thread does next: between two rows
of the scan (guards read flags that handlers write), and inside a transition function
between its flag updates and the SPI, timer or send call that follows. A guard that reads
two flags is one step: of the two flags it reads, one at most is written by a handler
(`change_mode_flag`, `data_ready_flag` or `tmr_flag`); in `check_sleep_possible`, which
reads `change_mode_flag` and `tmr_flag`, either order of reads gives the value of a single
moment up to a button press that might as well come just after the guard. Flag updates of
one function are one step where no handler reads those flags and the thread makes no call
between them.

*Samples.* A sample's value is abstracted to the conversion it comes from: which round (its
parity), which slot, strain or temperature; `"torn"` for a failed read, `"unasked"` for an
edge without START, `"zero"` for fresh RAM. Two rounds are enough to tell stale from fresh,
because any sample older than the last round would have had to survive a whole round's
writes into the same slot. The parity survives resets, so a conversion from before a reset
keeps its own.

*Hardware.* The BURTC compare flag is served when `app_init` enables its interrupt. The
counter is reset there and the next compare is 10 s away, longer than the way to `wake_up`;
so a BURTC interrupt between that point and `wake_up` is not modelled, and afterwards it
only sets `wakeupTimer`, which nobody reads until the next reset clears it. `begin` waits
100 ms four times, longer than any conversion at the rates the driver uses: a conversion
still running when `begin` starts ends before the configuration is written. EM4 retains the
converter, but the GPIO reset lowers the bridge pin.

*Undefined behaviour.* Callbacks are registered one statement before the pointer they write
through (`new_app_fsm`), and the closing loop runs past the end of RAM. `StrayOutcomes` says
what such an access does: `"fault"` (the default handler loops for ever) or `"benign"`. The
build's map file puts `connections` at 0x20000fb8, `nConnections` at 0x20000fc4 and the end
of RAM at 0x20008000, below the loop's bound of 0x20000fc4 rounds, so this build faults. No
liveness run leaves the fault out: what each says of slow mode ends where the closing begins.

*Failing calls.* `SpiResults`, `NotifyResults` and `TimerResults` are the outcomes of SPI
transfers, of the last call of a send and of `sl_sleeptimer_start_timer`.

### `Ads1220`

One call is one step: SPI transfers block and no handler uses the SPI. Each transfer of a
call may fail, up to `MaxFail` per call; a failed write leaves the register, a failed read
yields a byte of `Garbage` (an uninitialised buffer). A write is the two bytes of
`writeRegister`, which `Received` interprets as the converter does. Fields are described by
address, weight and size, and `Put` does the mask-and-or of the setters arithmetically.
`DataRates`, `Gains` and `MuxChannels` are the `#define` lists of `ads1220.h`; `behind` says
that a call has written past the copy (`ads1220_reset`, `set_config_reg`).

### `AppBle`

The event queue is the stack's; `sl_bt_step` pops one event per pass. The stack is modelled
from its use: a connectable advertiser stops when a client connects, a second start is
refused, a link may be lost at any time. The bytes behind `connections[10]` are two bytes of
padding and then `nConnections`, as the map file lays them out, so the thirteenth client's
handle overwrites the counter's low byte.

### `Report`

`StrainFsm` knows a sample by its round and slot; here it is the bytes. Each of the three
one-byte transfers may fail and leaves its byte of the static buffer as it was, which is that
of the slot read before; `torn` remembers the slots whose present sample had such a transfer,
`spoilt` and `misled` where the float of such a sample is shown. `Assemble`
is the shifting of `read_data_samples` on an `int32_t`, compared with `TwosComplement24`.
`result` is the float array byte by byte, `number` the sender's pointer as an offset,
`rebmun` the reversed quarter. Values are kept in units of 1/32 degree: the conversion
multiplies fourteen bits by a power of two and is exact. The stack refuses what does not fit
an attribute. A client finds its characteristics through `GattDb`'s discovery, not through
the handles the program uses. The stack runs only between two turns of the application, so a
client comes, subscribes or leaves only there; round and slot order are `StrainFsm`'s. Three
one-byte transfers are taken to continue one conversion word, as the converter shifts it out
until it has sent all of it.

### `StartUp` and `M20System`

The lists of calls are those of `sl_event_handler.c`, in its order; the order of the five
lists is the SDK's. What a call needs (`Needs`) is the SDK's contract. `Made(n)` is the set
of calls made before the n-th, and clocks, pins and lines are functions of it. FSRCO and
ULFRCO need no start. The SDK gives the sleeptimer the RTCC where the project does not choose.

`M20System` makes each call a step, so an interrupt can come between any two. The steps of
`StrainFsm` for `NVIC_EnableIRQ` and the registrations happen at their calls. In the
super-loop `sl_bt_step` handles one event of `AppBle`, then `fsm_fire` takes one scan and
the function it ends in. Power going down, or the fault handler, takes advertiser and links
along (`AppBle`'s `Sleep`), and `reset_timer_sleep` closes connections with `AppBle`'s loop;
the half that steps moves the other in the same step. The stack hands out the boot event after
at most `BootTurns` turns. Three settings have effects the other modules rely on: the crystal
is accurate enough for connections, the LFRCO's mode allows EM4, and EM4 lets go of the pins
(`app_init` overrides a configuration that would have them latched), so the bridge falls.

## The runs

| Run | Shows |
|---|---|
| `strain_ok` | With a working SPI, sends and timer starts that may fail and stray accesses that may be fatal: reports are fresh (`RoundFresh`), `data_sent_flag` is believed only when true (`SentMeansPublished`), no edge is lost (`NoLostReady`), timer wake-ups are slow (`TimerWakeIsSlow`), two rows of the table are dead (`DeadRows`), the counter stays in range (`TypeOK`). Under fairness, whatever sends, timer starts and stray accesses do: a round once begun reaches its report even if the button never rests (`EveryRoundEnds`); once it rests, a report that was sent is acted on (`ReportIsActedOn`) and a linger timer that was started ends the linger (`LingerEnds`) — unless a reset comes. It says nothing of a send or a timer start that fails, nor of what follows the closing loop: see `transmitted` and `sleep_follows` |
| `strain_duty` | With SPI transfers that fail too, every step of `StrainFsm` is a step of `DutyCycle` |
| `driver_ok` | With a working SPI the copy follows the converter and no setter undoes another |
| `ble` | In any order of events, with commands that may fail: one client, no refused start, every open link in the table until it overflows, a sensor that is found again |
| `report` | With up to two failures: a failed transfer spoils its own sample only, any other is the converter's number (`SampleWhole`); an attribute and a notification show a whole reading of their own sensor unless the sample shown is such a spoilt one, and never bytes of two floats (`OwnValue`); only what failed is stale (`StaleOnlyByFailure`) |
| `system` | From reset to reset: nothing used before it is set up (`UsedAfterInit`), clocks there and as meant (`ClocksRun`), pins apart (`PinsApart`), lines served by their own callback, stray only where `StrainFsm` has it (`LinesServed`), no command before the boot event (`NoCommandBeforeBoot`); left alone, the device can be met after every reset and every EM4 (`MeetsClients`), and again and again while its loop runs, pressed or not (`FoundWhileRunning`) |
| `strain_slots`, `pin_wake`, `transmitted`, `sleep_follows`, `registers_verified`, `foreign_bytes` | The findings below |

*Bounds.* `NumSensors` is 4, the program's value, where the data or the rounds are checked; 1
for the refinement with all failures, whose proof covers every value. `MaxFail = 0` is the
working SPI, `MaxFail = 1` the single failure that is enough for the finding; any byte serves as `Garbage`, 255 sets
every field. `TableSize = 3` with one byte of padding stands for ten and two, and
`MaxSessions = 7` goes past the table, the padding and the counter; two handles suffice for
a link that is gone and its successor. `MaxSessions` bounds the history only: once it is
reached the sensor advertises and nobody comes.

`report` uses eight readings, two rounds of four slots, that differ in every byte and lie at
the ends of the 24-bit range and on either side of zero; a third round would repeat the
parity, which is all a stale value needs. Two failures are a failed byte and a failed call, or two calls of
one pair. `system` has one sensor, one handle and two sessions: the data and the table are
the business of the other runs, and what it asks depends on the order of turns, which one
slot shows. `BootTurns` is 5, which is 2 n + 3 for one sensor; with 6 the first send comes
before the boot event. So `NoCommandBeforeBoot` is a property of a stack that boots within
2 n + 3 turns for n sensors, eleven for the program's four, and that is what the code relies
on; the other properties hold however long the boot takes.
Real turns of the first round last hundreds of milliseconds, as `begin` waits 100 ms four
times, so the bound is wide.

*Fairness.* `WF(MainStep)`: the super-loop never blocks. `WF(ConversionDone)`: a converter
that got START answers. `WF(SleeptimerExpire)`: a running sleeptimer expires.
`WF(WakeByTimer)`: the BURTC runs in EM4. Nothing is assumed of the button, the wake-up pin
or resets. `EveryRoundEnds` needs none; `ReportIsActedOn` and `LingerEnds` assume that from some
moment on nobody presses the button or resets the device (`LeftAlone`), as one who keeps
pressing can miss both guards of SENDING_DATA, or keep the device from sleeping, for ever. In
`AppBle`, `WF(Handle)`: the super-loop keeps popping events. `SysFairSpec` of `M20System` makes
the same assumptions of the composition: each part of the main thread (a start-up call, a turn
of the stack, a turn of the FSM) is taken once it stays enabled, a conversion ends, a sleeptimer
expires and the BURTC wakes the device. `MeetsClients` again supposes a device left alone, as
resets could come before every boot; `FoundWhileRunning` does not. The rounds of
the closing loop get none of their own: leaving it, for EM4 or into the fault handler, is a
turn of the FSM.

*What the liveness properties leave open.* In slow mode this build ends in the fault handler
(`sleep_follows`), from which only a reset helps; a failed send ends the measuring
(`transmitted`); a timer that fails to start leaves the device in TO_SLEEP. So there is no
property that the device measures, or sleeps, for ever: it is not true. What is checked is that
nothing else stops it: each step on the way to the next report, up to one of these three, is
reached.

## Findings

Each is shown by a run that checks one property, taken from a comment or the readme.

* `strain_slots` — "Ask for strain data" (`m20_strain_ble.c:229`): that branch turns the
  temperature sensor on, so the three strain slots hold temperatures.
* `pin_wake` — "reset is due to pin ... or timer" (`:185`): if the BURTC compare hits
  between the pin wake-up and the counter reset in `app_init`, a pin wake-up is taken for
  the timer.
* `transmitted` — "the information is to be transmitted" (`readme.md:6`): one failed send
  leaves the FSM in SENDING_DATA for ever.
* `sleep_follows` — "Close connections before going to sleep" (`:316`): the loop's bound is
  a pointer; it runs past the end of RAM and the device faults instead of sleeping.
* `registers_verified` — "Check registers from sensors" (`:204`): `begin` returns 0
  whatever it read back.
* `foreign_bytes` — "one per source of data" (`readme.md:18-19`): `read_data_samples` uses the
  status of a transfer only to log (`ADS1220.c:284`). When one fails, the byte that the slot
  before left in the static buffer becomes part of this slot's sample, and the attribute of one
  sensor shows a value made with a byte of another's conversion. `OwnValue` bounds the damage:
  that one sample, and no later one.

Met while modelling, with no document that says otherwise or no way to matter today:

* "Sensor should already be powered up" (`m20_strain_ble.c:247`): in continuous mode the
  round before has cleared the bridge pin, and nothing raises it until the next reset.
* `reset_no_timer` enters EM4 without arming the wake-up pin, which `wake_up` disarmed, and
  without closing connections.
* `try_to_sleep` ignores the status of `sl_sleeptimer_start_timer`. `sleep_possible_flag` is up
  by then, so the row that would call it again never fires (`DeadRows`): a start that fails is
  not repeated, and only the button ends the wait.
* `get_config_reg` stores all four registers in `reg0` of its result; it has no caller.
* `readAllRegister` would read five bytes into a structure of four, the first of them the
  byte that answers the command; it has no caller either.
* The callbacks are registered one statement before their pointers are set; `LinesServed`
  shows that these two statements are the only moments an edge can write astray.

## The proofs

Assumptions: `NumSensors` is a positive natural, each outcome set is non-empty. Where a
theorem needs a working SPI it says `ASSUME SpiResults = {"ok"}` (`MaxFail = 0` in `Ads1220`).
Of the driver `DriverAssumption` is assumed (lists of values that fit their fields), of the
event handler `TableAssumption` (handles are small and not zero; `BleAssumption` restates it
in `M20System`), of the report `ReadingsAssumption` (readings are bytes), of the whole
program `BootAssumption` (the stack boots after some number of turns); nothing else.
`BootComesFirst` alone limits that number, by an `ASSUME` of its own.

| Theorem | Statement |
|---|---|
| `TypeCorrect` | `Spec => []TypeOK` |
| `SentIsPublished` | `Spec => []SentMeansPublished` |
| `TimerWakesSlow` | `Spec => TimerWakeIsSlow` |
| `DeadRowsStayDead` | `Spec => DeadRows` |
| `ReportsAreFresh` | working SPI: `Spec => []RoundFresh` |
| `HandshakeLosesNothing` | working SPI: `Spec => []NoLostReady` |
| `ImplementsDuty` | `Spec => ImplementsDutyCycle` |
| `DriverTypeCorrect` | driver: `Spec => []TypeOK`, whatever fails |
| `CopyIsTrue` | driver, working SPI: `Spec => []CopyFollowsChip` |
| `NothingIsUndone` | driver, working SPI: `Spec => NoLostUpdate` |
| `EventsTypeCorrect` | events: `Spec => []TypeOK` |
| `ServesOne` | events: `Spec => []OneClient` |
| `StartsAccepted` | events: `Spec => NoStartRefused` |
| `CanBeFound` | events: `Spec => []Reachable` |
| `LinksAreRecorded` | events: `Spec => []OpenIsRecorded` |
| `AssembleIsTwosComplement` | `Assemble(b) = TwosComplement24(b)` for every three bytes |
| `SamplesAreWhole` | report: `Spec => []SampleWhole`, whatever fails |
| `HandlesAreDiscovered` | the handles of `gatt_db.h` are the ones a client discovers under the sensors' names |
| `ReportTypeCorrect` | report: `Spec => []TypeOK` |
| `ShowsOwnValue` | report: `Spec => []OwnValue`, whatever fails: own readings, but for samples with a failed transfer |
| `OnlyFailuresLeaveStale` | report: `Spec => []StaleOnlyByFailure`, whatever fails |
| `RunsStrainFsm` | program: `SysSpec => Spec`, the specification of `StrainFsm` |
| `RunsAppBle` | program: `SysSpec => Ble!Spec`, the specification of `AppBle` |
| `SystemTypeCorrect` | program: `SysSpec => []SysTypeOK` |
| `NothingUsedTooEarly` | program: `SysSpec => []UsedAfterInit` |
| `ClocksAlwaysRun` | program: `SysSpec => []ClocksRun` |
| `DriversApart` | program: `SysSpec => []PinsApart` |
| `EdgesAreServed` | program: `SysSpec => []LinesServed` |
| `BootComesFirst` | program, `BootTurns <= 2 * NumSensors + 3`: `SysSpec => []NoCommandBeforeBoot` |

The properties of `StrainFsm` are not inductive. The strengthening is `IndInv` of `StrainInv`:

* `Control` ties the program point to the FSM's state and to the flags that steer the scan.
  `TypeOK` needs it: the increment in `check_data_retrieved` stays in range only because
  RETRIEVING_DATA is entered below `NumSensors` and left by the very guard that increments.
  `DeadRows` needs that SLEEPING is left at once through `wakeup_timer_flag` and that
  TO_SLEEP is entered through `try_to_sleep`.
* `Waking` carries the BURTC flag from EM4 through `app_init` (`burtcIF`, then
  `wakeupTimer`) to the decision in `wake_up`, across the resets that may intervene.
* `Sending` says where `data_sent_flag` may be up: nowhere else than between a send and the
  function that clears it.
* `Converter` and `Filled` (working SPI) say that a conversion under way, or an edge
  recorded, is the one for the slot the counter points to, and that the slots below the
  counter are filled. `NoLostReady` and `RoundFresh` follow.

The proof of a step has one case per action; `ScanRowCases` reduces a scan step to the
eleven rows. `StrainDuty_proofs` maps each action to an action of `DutyCycle` or a stutter,
using `Control`; the guards that read flags an interrupt may change later are the point:
the mode may be toggled between the guard and the function, so `EndRound` and `Leave` are
taken at the guard's step.

In `Ads1220_proofs`, `PutField` is the arithmetic: an update of one field of a byte leaves
the other fields of that byte. The copy is the converter's by `CopyFollowsChip`, so what a
setter writes differs from the register in its own field only, and that is `NoLostUpdate`.

The argument of `AppBle_proofs` is a token, the right to start the advertiser: the boot event
brings it, the advertiser hands it to the link of a client that connects, the link to its
closed event, and the handler of that event back to the advertiser (`Token`). Power going
down takes it along with the advertising and the links (`Asleep`), and a reset queues the boot
event that brings it anew. As an opened
event is handled before the closed one behind it, and nobody connects in between, the queue
holds at most two events; so the counter trails the connections by at most one (`Counted`).

`SampleWhole` speaks of slots already read. `SampleInv` of `Report_proofs` adds what is true
inside a slot: the bytes fetched so far are the converter's unless one transfer failed
(`BytesSoFar`), and the slot is in range where it is used (`SlotOfStep`). Without the former
the last byte could arrive in a buffer that still holds an earlier sample.

`OwnValue` and `StaleOnlyByFailure` look through the names a client knows, while the sender
writes by handle. `GattDb_proofs` computes the discovery once, so the rest of the proof
speaks of handles. `ClientInv` then says, beside types and the pointer's place:

* `ByteOrigin` and `SlotValues` — each byte of the static buffer is one that the converter
  sent, or the initial zero, at that place of the conversion word; so a torn sample is made of
  such bytes, and any other is a reading of its own slot, as `SampleInv` has it. A new sample
  of a slot starts untorn and leaves the slots before it as they are.
* `Own` — attributes and client's view hold the float of a reading of their own slot, or, where
  marked (`spoilt`, `misled`), of a torn sample. The mark is of what is shown, not of the slot:
  an attribute keeps it until the next write that succeeds, though the slot may have been read
  anew by then.
* `Sent` — the quarters behind the sender's pointer are this round's or their call failed,
  and between write and notification the current quarter has been written.

It is inductive together with `SampleInv`. That the quarter `rebmun` reverses is the float
most significant byte first, and that it fits its attribute, are lemmas of their own
(`RebmunIsFloat`, `RebmunFits`).

The whole program is proved from its halves. `RunsStrainFsm` and `RunsAppBle` show that each
step of `SysNext` is a step of the one and a step of the other, or leaves its variables alone,
so `IndInv` and the invariant of `AppBle_proofs` hold without a new proof, and so does every
theorem of these modules. `SysInv` adds `Together`, what ties the halves to the main thread:

* `PointAt` — the number of the start-up call fixes the program point of `StrainFsm`. With
  it the properties of the start-up become facts about that number, which `StartUp_proofs`
  proves: no call is made twice (`OnceEach`), so `Made(n)` holds the i-th call exactly when i
  is less than n (`MadeBefore`); needs, clocks, pins and stray writes then follow call by
  call.
* `BeforeLoop` — before the super-loop neither half has done anything.
* `Agree` — `app` sleeps exactly when power is off, and while `StrainFsm` is at
  `close_connections` the event handler is in its closing loop.

`SysInv` holds for every boot time. Only `BootComesFirst` asks how long the stack takes to boot;
its proof has an invariant of its own beside `SysInv`, under `BootTurns <= 2n + 3`:

* `FirstRound` — until the boot event the FSM is in its first round before the send, and has
  cost the stack at least `TurnsBefore` turns: one for SLEEPING, one for WAKING_UP, two per
  slot. As the stack counts `turns` up to `BootTurns` and then hands out the boot event, it
  has done so before the n slots are filled. Resets start both counts anew.

*Only model-checked:* the liveness properties (`EveryRoundEnds`, `ReportIsActedOn`,
`LingerEnds`, `FoundAgain`, `MeetsClients`, `FoundWhileRunning`), which rest on fairness and
ENABLED, out of the prover's reach. Every other property of a passing run is stated by a
theorem.

## Not modelled

* Functions nobody calls: `writeAllRegister`, `readAllRegister`, `convertToMicroVStrain`,
  `fsm_destroy`; the hooks of `sl_power_manager_handler.c`, as `main` never calls
  `sl_power_manager_sleep`; the handles of `sl_iostream_handles.c`, as the only user of the
  stream is the log.
* The result of `get_config_reg`.
* Over-the-air update: its attribute is in `GattDb`. The event loop hands every event to the
  SDK's `sl_bt_in_place_ota_dfu_on_event` before `sl_bt_on_event` (`sl_bluetooth.c:47`); that
  handler is not in the repository. Its restart into the bootloader is to this firmware a
  reset, which the models have; what it does with events before that they do not.
* Configuration that sets sizes, rates and levels (cryptography, NVM3, radio power, log,
  memory, oscillator trims): no property depends on it.
* Branches of `sl_device_init_clocks` for other devices, drivers' insides, the SDK, logging.
* The electrical side: whether the bridge has settled, or the converter accepts the SPI
  mode.

## Plan

Written: `AppFlags`, `StrainFsm`, `DutyCycle`, `StrainDuty` with their proofs (the core: the
measuring loop is what the device is for); `Ads1220` and `AppBle` with theirs; `Samples`,
`GattDb` and `Report` with theirs (the data); `StartUp` and `M20System` with theirs (the
whole). To come:

1. What the theorems of the parts say of the program, stated of `SysSpec`: a report in the
   super-loop is fresh (`ReportsAreFresh` with `RunsStrainFsm`), the sensor can be found
   (`CanBeFound` with `RunsAppBle`), and the program implements `DutyCycle`.
2. `get_config_reg`, once something calls it: today nothing says what its result should be.
