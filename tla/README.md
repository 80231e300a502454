# Verification of the Bristlemouth bridge firmware

This directory holds TLA+ specifications of the firmware under `src/`, the TLC
configurations that check them on small instances, and TLAPS proofs of the
results that matter most. It concentrates on the **bridge application**
(`src/src/apps/bridge`), the **serial link and update front end** it serves
(`src/src/lib/bm_ncp`) and the **wiper of the CHL sensor mote**
(`src/src/apps/bm_devkit/CHL_Setup`): that is where several FreeRTOS tasks share
state, where power comes and goes under a running network, where resets and lost
messages have to be survived, and where a mechanism moves under a sensor.

Paths below are relative to `src/src/` unless they start with `src/`.

- [1. The system](#1-the-system)
- [2. Modules and how they correspond to the code](#2-modules-and-how-they-correspond-to-the-code)
- [3. What the runs check and show](#3-what-the-runs-check-and-show)
- [4. Bounds](#4-bounds)
- [5. Fairness](#5-fairness)
- [6. What is proved](#6-what-is-proved)
- [7. What is only model-checked](#7-what-is-only-model-checked)
- [8. Disagreements between code and comments](#8-disagreements-between-code-and-comments)
- [9. What is not modelled](#9-what-is-not-modelled)
- [10. Plan](#10-plan)
- [11. Running the checks](#11-running-the-checks)

## 1. The system

A Spotter buoy (the *host*) talks over a serial line to the bridge. The bridge
powers the Bristlemouth bus, finds the nodes on it, subscribes to their
sensors, aggregates the readings of each sampling interval and sends reports to
the host. The host may update the firmware of a node, or of the bridge itself.

```
  host (Spotter) ──serial── ncp_uart ── ncp_dfu ──────────────┐ powerControlEnable
                               │          │ library callbacks │ waitForSignal
                               │          └── BM DFU library  ▼
                               │                      bridgePowerController ── pins, L2
                 UTC, CLI ── RTC ─────────────────────────────┘   │ event bits ON / OFF
                                                                  │ aggregation notification
  topology_sampler <──── waits for ON ────────────────────────────┤
        │  CHECK_CRC                                              ▼
        │                    SAMPLE, INCREMENT            sensorController ── sensor drivers
        └──────> reportBuilder <──────────────────────────────────┘
                      └── reports to the host
```

### 1.1 Components

**Bridge power controller** (`apps/bridge/bridgePowerController.cpp`).
*State*: the validated configuration, the enable and subsampling flags, the
starts of the current sample and subsample, whether a timebase was ever found,
two pins (boost converter and load switch), an event group with an ON and an
OFF bit, and the task's notification. *Operations*: construction
(`validateConfig`), the task's `_update()` with an initial power-up, a sampling
and an idle branch, `setBusPowerAndSetSignal()`, and
`powerControlEnable`, `subsampleEnable`, `waitForSignal` called by other tasks.
*Hard*: nothing is locked. The flag, the starts and the notification are written by
callers of other tasks between any two steps of the handlers; the RTC may be set
at any moment; the bits are raised and lowered around a 15 ms delay.
*Correct when*: the bits never lie about the supply; boost leads load; a
disable is never lost; an open window is never dark; left alone, the schedule is
exactly the configured one, no interval is skipped and each window ends in an
aggregation.

**NCP update front end** (`lib/bm_ncp/ncp_dfu.cpp`).
*State*: whether the power controller was enabled when it was held, the image in
the DFU partition, the retained reboot information, the image slots.
*Operations*: start, chunk and finish messages, the callback of the node update
library, the check at boot. *Hard*: three tasks finish updates; a reset is part of the
protocol and may also come by itself, at each step; the hold on the power
controller is one unguarded flag. *Correct when*: each start is answered, once;
a node is updated only while the controller is held, and it is given back however
the update ends; success means a running, confirmed image; a wrong image goes.

**Report builder** (`reportBuilder.cpp`, `reportBuilderList.cpp`).
*State*: a bounded queue, the sample counter, a list with one element (array of
samples) per node, and the network of the report period: number of nodes, their
list, their sensor types and the CRC. *Operations*: `SAMPLE_MESSAGE`,
`INCREMENT_SAMPLE_COUNTER`, `CHECK_CRC`. *Hard*: late and missing sensors are
back-filled by position; the network is fetched in three separate takes of the
sampler's mutex; the producers block on the queue while one of them holds that
mutex. *Correct when*: each sample lands in the slot of its interval; a report is
whole; list, types and CRC belong to one network; every interval is counted.

**Topology sampler** (`topology_sampler.cpp`).
*State*: node list and types, the last network configuration and its CRC, a
flag for the first sending after a boot, a semaphore, a mutex, two reply queues, a
timer. *Operations*: the topology callback, the gathering of node information and
configurations, the task's loop over the state of the power controller, the timer,
and the getters that report builder and sensor controller call. *Hard*: replies
are late or missing; the gathering holds the mutex for seconds; the supply
changes under all of it; the known networks are saved before the host is told.
*Correct when*: a configuration is built of the replies of its own nodes, in
their order; the host learns of each network that is new; sampling goes on as long as
there is power, and stops without it.

**Sensor controller** (`sensorController.cpp`).
*State*: the list of subscribed sensors (appended to by a callback of another
task, without a lock) and two notification bits. *Operations*: subscribe on a
reply, aggregate all sensors and increment. *Correct when*: every window is
aggregated once, and a sensor that joins during the walk counts from the
right interval.

**Configuration CRC list** (`sm_config_crc_list.cpp`): the most recent CRCs sent,
kept in the system partition. *Correct when* it holds no duplicates and
evicts the oldest entry.

**Bridge sensor drivers** (`sensor_drivers/`, `cbor_sensor_report_encoder.cpp`):
per-type averaging and CBOR encoding; each `aggregate()` copies under a lock and
resets its averages. Numeric code.

**NCP serial link** (`lib/bm_ncp/ncp_uart.cpp`) and **configuration service**
(`ncp_config.cpp`): double-buffered reception from an ISR, COBS framing, two
transmit locks, baud rate discovery and negotiation; stateless translation of
messages. *Hard*: one negotiation is spread over two tasks, an interrupt and a
timer. *Correct when*: bridge and host find one baud rate and keep it, no
message is cut, and the locks always come back.

**CHL sensor mote** (`apps/bm_devkit/CHL_Setup`): a fluorometer with a wiper on
a servo. The cleaning cycle is a state machine over deadlines, advanced by the
loop that also reads the sensor and marks the readings taken during a cycle.
*Hard*: the clock rolls over, each command may fail, a pass of the loop may take
long. *Correct when*: no reading of a moving wiper goes unmarked, legs are not
cut short, the servo is let go, and the wiper keeps wiping.

**Raw pressure and MAVLink** (`rbrPressureProcessor.cpp`,
`mavlink_integration.c`), optional builds of the bridge; **application glue**
(`app_main.cpp` and logging); **payload UART and serial driver**, **low power and
tick**, **parsers and utilities** (`lib/common`); **drivers and board support**;
**bootloader and MCUboot port**; **debug commands and ported third-party code**;
**other applications** (motes, bring-up images and examples). The network stack
itself (Bristlemouth core), FreeRTOS, MCUboot, TinyCBOR and lwIP are submodules
and are not part of the source tree; they are modelled, where the code depends on
them, by what it expects of them.

`PROJECT.json` lists these components with their sources and status, and, under
`hazards`, the places in the code where something can go wrong that a test would
hardly reach, each with the properties that watch it.

## 2. Modules and how they correspond to the code

| module | models | lines of code |
|---|---|---|
| `PowerTiming` | the controller's arithmetic: legal configurations, alignment, remaining time | `bridgePowerController.cpp` 1-90, 664-700; `util.c` |
| `BusPower` | *abstract*: what the event bits promise about the supply | specification of `setBusPowerAndSetSignal` |
| `PowerControl` | *abstract*: the controller as a task that disables it sees it | specification of `powerControlEnable` |
| `BridgePower` | the controller, its callers and the clocks | `bridgePowerController.cpp` |
| `BridgePowerProofs` | theorems about `BridgePower`: types, supply, refinements, disabling | |
| `BridgeScheduleProofs` | theorems about `BridgePower`: the schedule | |
| `NcpDfu` | the update front end, MCUboot and the host around it, with `PowerControl` | `ncp_dfu.cpp` |
| `ReportBuilder` | sensor controller, topology sampler and report builder, from samples to reports | `reportBuilder*.cpp`, parts of `sensorController.cpp`, `topology_sampler.cpp` |
| `TopologySampler` | sampler, node list, CRC list and the sampling bit of the sensor controller, on `BusPower` | `topology_sampler.cpp`, `sm_config_crc_list.cpp`, `sensorController.cpp` 214-244 |
| `NcpUart` | the serial link: locks, negotiation, reception | `ncp_uart.cpp` |
| `ChlMotor` | wiper cycle and loop of the CHL mote | `motor_code.cpp`, `user_code.cpp`, `ads1115.cpp` |
| `NcpDfuProofs` | theorems about `NcpDfu` | |
| `ReportBuilderProofs` | theorems about `ReportBuilder`: the network of a report | |
| `ReportSampleProofs` | theorems about `ReportBuilder`: the samples of a report | |
| `TopologySamplerProofs` | theorems about `TopologySampler` | |
| `NcpUartProofs` | theorems about `NcpUart` | |
| `ChlMotorProofs` | theorems about `ChlMotor` | |
| `MC…` | small instances and the end of an exploration | |

```
 BridgePower ──implements──> BusPower
      └──────implements──> PowerControl (extends BusPower) <──extends── NcpDfu
 BusPower <──extends── TopologySampler
 PowerTiming <──extends── BridgePower
```

`NcpDfu` is composed with the power controller through its abstraction: it uses
`PowerControl`, and `BridgePower` is shown (by TLC and by a proof) to implement
it. `TopologySampler` is composed with it through `BusPower` in the same way, and
through an enable flag that changes at any time. That keeps the compositions small and
still sound.

### BridgePower

The task is a program counter `pc`; a step is what it does between two points at
which a step of another task can make a difference. A call of
`setBusPowerAndSetSignal(on, l2)` stores its arguments in `goal`, its
continuation in `after`, and runs the `Bus…` actions, which are the statements
of that function in their order: lower the opposite bit, switch the converter,
delay 15 ms, switch the load, raise the bit, power the L2 interface, disable port 2.

| code | actions |
|---|---|
| `setBusPowerAndSetSignal` | `BusKept`, `BusRise`, `BusClose`, `BusFall`, `BusDrain`, `BusSignal`, `BusNetif`, `BusPort2` |
| `_update`: choice of a branch, final wait | `Update`; `SleepFor`, `Wake` |
| `handleInitState` (initial power-up) | `InitPowerOn`, `InitDelay`, `InitElapsed`, `InitDone` |
| `handleSampleState` | `SampleEarly`, `SampleOver`, `SampleAdvance`, `SampleAggregate`, `SampleOn` |
| `handleSubsamplingState` | `SubsampleEarly`, `SubsampleOff`, `SubsampleOn` |
| idle branch of `_update` | `IdleDisabled`, `IdleNoTimebase`, `IdleOvertaken`, `IdleAlign`, `IdleCheck` |
| `powerControlEnable` (any task) | `EnableFlag`, `EnableAlign`, `EnableNotify` |
| `subsampleEnable` | `SubsampleEnable` |
| `checkAndUpdateTimebase`, `_alignNextInterval` | `CheckTimebase`, `AlignNextInterval` |
| sensor controller's notification | `TakeAggregation` |
| RTC, uptime | `SetRtc`, `Tick` |

Time is in seconds. The handlers and the 15 ms delay take no time on that scale:
`Tick` is possible only while the task sleeps and no caller is half way through a
call. A read or a write of a start or of a flag is one step: they are words of at most
32 bits. The power statistics the file also gathers (lines 444-637)
change nothing the schedule reads and are left out.

### NcpDfu

`pc` is the NCP processor inside `ncp_dfu_start_cb()`; `fin[t]` is task `t` inside
`_ncp_dfu_finish()`. The library's event task has priority over the processor,
so its finish is not interrupted by it (`Goto` waits for `fin["dfu"]`); the
converse order, and the boot check's finish in the main task, are interleaved.
An image is one of three kinds: the version asked for, another version, or
one MCUboot does not accept. The SHA the host sends is that of `"new"`. MCUboot
(`McuBoot`) swaps a pending image in and an unconfirmed one out. A reset
(`ResetSystem`, `Crash`) clears RAM, drops the pins and keeps the retained
section; a power loss clears that too (`kept = "none"`).

The host is part of the model only as far as the protocol needs it: it sends
chunks and starts, remembers whether a start is open and what it was told. A
*patient* host sends nothing while a start is open; an *impatient* one may.

### ReportBuilder

An aggregate is abstracted to the number of the interval it was taken in, so that
"the slot holds its interval" can be stated; a CRC is the configuration it is
computed from. The builder's three messages are `TakeSample`, `TakeIncrement`
(increment, report, and clearing of the period in one step: nothing else reads
what it writes) and `TakeCheck` followed by `FetchConfig`, `FetchNodes`,
`FetchTypes`, one per take of the sampler's mutex, each of which can also time
out. The sampler's gathering is a critical section (`gather`, `post`), and its
reply callback (`TopologyReply`) takes the same mutex. The walk of the sensor
controller is one action per sensor, because sensors subscribe
(`NodeReply`) while it runs. The list of elements is a function from nodes to
sequences: an absent element is an empty one.

The TinyCBOR encoder is external; it is used through two facts: a report that
does not fit its buffer fails, and closing the array fails when the number of
sensors differs from the one announced.

`raced` is a history variable. It is set when the sampler works on (a new
reply, or the start of a new gathering) while a `CHECK_CRC` it posted is still
on its way. The code then builds a period from parts of two networks, and
nothing says it should not; the properties on the network of a period exempt
exactly these periods.

### TopologySampler

`pc` is the sampler's task: `boot` and `init` before its loop, then `top`,
`check`, `poll`, `warm` for an enabled controller and `disabled`,
`warmDisabled`, `held` for a disabled one; `sys`, `map`, `send`, `post` are the
gathering, which holds the mutex (`Locked`) and returns to `back`. `topo` is the
library's topology request together with its callback, which may have to wait for
the mutex. `open` holds the requests that the library may still answer or
expire; a reply goes through its queue and is taken by whoever waits. The
configuration is the sequence of its entries (information and map of each
node), and stands for its own CRC. `known` and `saved` are the CRC list in RAM and
in flash, `told` is a history of what was sent. `Reset` may come at any point.

| code | actions |
|---|---|
| `topology_sampler_task` | `FirstSample`, `InitOver`, `Top`, `NoTopology`, `PollOn`, `PollOff`, `Warm`, `WaitDisabled`, `WarmDisabled`, `HeldOver` |
| timer, `topology_sample_cb` | `TimerFires`; `TopologyLost`, `TopologyWaits`, `TopologyStored` |
| reply callbacks | `ReplyArrives`, `RequestExpires` |
| `check_topology_report` and what it calls | `GatherStart`, `TakeSysInfo`, `AskNext`, `StoreConfig`, `SendConfig`, `PostCheck`, `GatherFails` |
| `runController`, sampling bit | `TakeBit`, `SignalOn`, `SignalTimesOut`, `ListTimesOut`, `AskNodes` |
| `waitForSignal` without a wait | `Signalled` |

Two assumptions about time are constants. `Late` lets a request or the sensor
controller outlast the minute between two topologies; `SaveFails` lets
`save_config()` fail. Both are `FALSE` in the run: with `Late` a reply that is a
minute late shifts the entries of a later configuration, and a network whose saving has
failed is known until the next reset only.

### NcpUart

The transmit task has an item (`held`) when it owns the negotiating lock, and a
message is on the line (`sending`) when it owns both. `PostTxEvent` and `EndTx`
are the interrupt at the end of a transmission. `phase` is the progress of
`ncpBaudRateDiscovery()`. On the receiving side `cur` is the buffer the interrupt
writes, `pending` the index in the task notification, `reading` the buffer that the
task decodes. Packets carry a number, so that loss, repetition and
order can be seen.

The host is external, and modelled by how the code uses it (see the module's
header): the answer to a request comes before the timer, one negotiation is
open at a time, nothing else is sent during one, and the host is at most one packet
ahead of the receive task. The bridge's own tasks are under no such restriction:
`SendData` is a call of `queue_tx()` by any of them at any time, in the middle of a
negotiation as well, and a message that finds the queue full is dropped
(`Queued`), be it data, a baud request or a reply. The event is set all the same
(`Negotiate`, `BaudRequest`). `Underway` tells whether the message
of an event is still on its way; the host stops waiting for a reply that is not
(`HostGivesUp`).

### ChlMotor

`pc` is the step of a pass of the loop; `state`, `remaining`, `next` are the
variables of the cycle and `servo`, `at`, `left` the wiper, which takes `Reach` to
get from one end to the other while it is driven. `Plus` and `Minus` are the
unsigned arithmetic of a clock with `M` values. Commands that can fail are
disjuncts: `StartLeg` or `Abort`, and within it `Release`.

| code | actions |
|---|---|
| `motorInit` | `Init` (its four outcomes) |
| `motorService` | `ServiceWaits`, `SweepEnds`, `PassEnds`, `CycleEnds` |
| cleaning timer, `motorStartCleaningCycle` | `CleanNotDue`, `CleanRefused`, `CleanStarts` |
| reading timer, `readVoltage`, log | `ReadNotDue`, `ReadStarts`, `Convert` |
| end of the pass | `Delay` |

## 3. What the runs check and show

All runs check for deadlock. Where the explored horizon ends, an MC module adds one
stuttering disjunct, so that it does not count as one.

| run | expects | checks | shows |
|---|---|---|---|
| `power` | pass | `TypeOK`, `SignalHonest`, `DisabledMeansPowered`, `NoTimebaseMeansOff`, `WindowIsPowered`, `OnSchedule`, `ImplementsBusPower`, `ImplementsPowerControl`, `DisableTakesEffect`, `NoIntervalSkipped`, `WindowAggregated` | left alone, the controller keeps its schedule exactly; under calls of two tasks, subsampling toggles and a jumping RTC its signals stay honest, no disable is lost and no window is dark |
| `ncp_update` | pass | `TypeOK`, `AnsweredOnce`, `ControllerHeld`, `ControllerGivenBack`, `SuccessIsConfirmed`, `EveryStartAnswered`, `RejectedImageLeaves` | updates of nodes and of the bridge, with a reset or power loss anywhere |
| `reports` | pass | `TypeOK`, `SlotHoldsItsInterval`, `ReportIsWhole`, `NumSensorsHonest`, `PeriodIsOneNetwork`, `NetworkOnlyGrows`, `EveryIntervalCounted` | samples become whole reports while the network changes and a node gains its sensor |
| `topology` | pass | `TypesMatchNodes`, `ConfigIsOfItsNodes`, `KnownWasTold`, `AskedWhilePowered`, `PausedWhileOff` | the sampler on a supply that comes and goes, with resets and missing replies |
| `ncp_uart` | pass | `FoundIfThere`, `SameBaud`, `BaudBetweenMessages`, `PacketsInOrder`, `QueueMoves`, `DiscoveryEnds` | discovery, negotiation by either side and reception, with data of the bridge at any time and a queue that fills up |
| `chl_motor` | pass | `MovingIsTagged`, `IdleIsReleased`, `StrokesFinished`, `WipesAgain` | the wiper under failing commands and a clock that rolls over |
| `subsample_overrun` | violation | `SubsamplingWithinDuration` | section 8, (a) |
| `reenable_off_window` | violation | `OffOutsideDuration` | section 8, (b) |
| `disable_leaves_bus_on` | violation | `DisableLeavesBusOn` | section 8, (c) |
| `ncp_duplicate_start` | violation | `ControllerHeld` | section 8, (d) |
| `reflashed_node` | violation | `SlotHoldsItsInterval` | section 8, (e) |
| `disabled_no_timebase` | violation | `DisabledWithoutTimebaseIsOff` | section 8, (f) |

`DisabledMeansPowered` and `DisableTakesEffect` say of a disabled controller that
its bus is on, or comes on, once a timebase is set: that much the code and its
documentation agree on. Without a timebase they do not, and (f) is about that.

`TypesMatchNodes` says two things: a type that is handed on belongs to the node at
its position, and the type of a node that has told the running gathering is known
until the gathering is over, because a topology reply, which makes all types
unknown, has to wait for the mutex.

`QueueMoves` says that whatever is queued, a message leaves the queue again and
again, so that the negotiating lock always comes back. `DiscoveryEnds` says that the
boot gets past the discovery, except when its request was dropped by a full queue
(section 8).

For each property of a passing run `PROJECT.json` names a *mutant*: an operator
in the module, marked "Mutant:" in its comment, that differs from the translated
one the way a plausible bug would. With the mutant in place of the definition
the run must fail on that property. Mutants are not part of the specification.

The abstract specifications:

- `BusPower` says what a task may conclude from the ON and OFF bits. `Stage` maps
  `pc` to how far a switching sequence has come; everything else (schedule,
  callers, clocks) stutters.
- `PowerControl` adds the enable flag and one promise: once a disable has
  *settled*, the bus does not go down. `Settled` says when: the flag is off and
  the task is not at a point where it will act on a decision made while it was
  on. The interface is weaker than the comment in `ncp_dfu.cpp:155` would have
  it, and run `disable_leaves_bus_on` shows why it must be.

## 4. Bounds

*Seconds stand for minutes*: the limits of the header (6 s to 24 h) are
constants, and the instances use intervals of 3 to 6 seconds, with an initial
power-up of 2 s and an idle sleep of 1 s. The schedule only compares and adds
times, so what matters is the order of the boundaries, and the configurations are
chosen to have each: a duration shorter than, equal to and longer than its
interval, a subsample that divides the interval and one that does not, with and
without alignment, by RTC and by uptime, enabled and disabled at boot,
subsampling or not, and values that are out of range.

- `power`: six configurations. Left alone each is explored up to `MaxTicks` 20, at
  least three whole intervals after the clock is set, which happens at any time
  and to either of two values. With the two of `CallConfigs` there may
  also be two callers, two calls of `powerControlEnable` between them, and one
  toggle of subsampling or one RTC that is set again, at any step of the first
  `CallTicks` 8 seconds, after which such a behaviour ends. A behaviour has a toggle or
  a second setting of the RTC, not both, which keeps the run within minutes. Two
  calls are enough for a disable and an enable to overlap, each with its three
  steps; a third finds the controller in a state two have produced. The proofs
  of section 6 need no bound at all.
- `disabled_no_timebase`: no calls; one of the two configurations of `CallConfigs` is
  disabled at boot.
- `ncp_update`: two starts (each for the bridge or a node, with any image), one
  crash at any step, one CLI call. Two starts are the least that show state left
  by the first in the second.
- `reports`: two samples per report and no report, a queue of two messages,
  three intervals (one whole period and the beginning of the next), two topology
  replies with two networks, one of which is larger and reorders the nodes of
  the other and holds a node that is no sensor, and a report buffer that holds
  one sensor but not two.
  One node begins without a sensor and gains it in an update, at any time.
- `reflashed_node` (two intervals) lets a node go from one sensor to another
  instead. `Reflashes` is the set of such changes.
- `topology`: three nodes (the bridge and two sensors), two networks that each miss
  one of them, and a CRC list of one entry, so that each alternation evicts. No
  counter is bounded: the switching, the calls, the resets and the gatherings go on for ever.
- `ncp_uart`: the three baud rates of the code, with a host at each of them or
  none, which later asks for two of them or for one that is not acceptable. The
  transmit queue has three entries (one of them in the hands of the task), so that
  acknowledgement and request fit, and one or both do not when data came before; packets
  are numbered modulo 8, far more than two buffers and two queue entries hold.
  Messages, negotiations and packets go on for ever.
- `chl_motor`: a clock of 16 values, legs of 3 units of which the wiper needs 2,
  two sweeps, a cleaning period (11) shorter than a cycle, so that some starts
  are refused, conversions of 0 or 1 and delays of 1 or 2 units. The cycle
  meets the rollover at every step. The proofs hold for every other choice.

The other bounds are constants whose names start with `Max` (or the sets of
configurations, networks and RTC values), and appear in guards.

## 5. Fairness

Weak fairness only, and only of what the firmware itself schedules:

- `BridgePower`: the task, the clock (in the run `PowerTick`, the clock up to the
  horizon), the sensor controller's reading of its
  notification, and the completion of a call already begun. No fairness for
  making a call or setting the RTC. FreeRTOS runs every ready task of the
  bridge eventually, since all of them block in their loops.
- `NcpDfu`: the processor, the finish of each task, the boot sequence, and the
  power controller. `NodeDone` is fair because the library ends each update by
  success, failure or its timeout. No fairness for the host, the CLI, crashes.
- `ReportBuilder`: the sensor controller within a walk, the topology sampler, the
  report builder. `GatherFails` stands for the timeouts on replies, so the sampler
  always leaves its critical section once the queue has room. No fairness for replies
  of the network and for starting a walk.
- `TopologySampler`: the task, the timer while it is active, the end of a topology
  request and of each information request (the library answers or expires
  them), the sensor controller. No fairness for the supply, calls and resets:
  the properties say for themselves on what supply they hold.
- `NcpUart`: the tasks, the end of a transmission, the timer, and the host's
  completion of a packet and of an answer it owes. No fairness for new
  messages (`SendData`), for new negotiations, or for a host that gives up waiting.
- `ChlMotor`: the loop. Which commands fail is left open; `WipesAgain` says what
  happens when they stop failing.

## 6. What is proved

Every safety invariant and every action property that a passing run checks is
also a theorem, for every value of the constants. Each rests on the named assumption of
its module and, where the tables say so, on a hypothesis:

| hypothesis | of | says | why it is there |
|---|---|---|---|
| `~Impatient` | `NcpDfuProofs` | the host sends no start while one is open | `ncp_duplicate_start` shows what happens otherwise |
| `OneSensorEach` | `ReportSampleProofs` | a node may gain a sensor, but not swap it for another | `reflashed_node` shows what happens otherwise |
| `~Late` | `ConfigOfItsNodes` | a request ends before the next gathering | requests are made with a timeout of 3 s (`topology_sampler.cpp:43-46`), and there is a minute between topologies; with `Late` TLC finds a shifted configuration |
| `IDLE_S <= 1` | `BusOnSchedule`, `IntervalsInTurn` | the idle task looks for the clock every second | it is `TIMEBASE_NOT_SET_SLEEP_MS` = 1000 (`bridgePowerController.h:93`); with 2 a task may sleep past the first start, and TLC finds both violated |
| `NoOverrun` | `BusOnSchedule` | a subsample that starts in a window ends in it | `subsample_overrun` shows what happens otherwise |
| `EndInTime` | `IntervalsInTurn` | the same, or it ends before the next interval | weaker than `NoOverrun`; without it TLC finds a skipped interval |

The last two are about configurations. The defaults of the header
(`bridgePowerController.h:72-76`) satisfy `EndInTime` (310 s and 30 s are less than
the interval of 30 minutes), but would break `NoOverrun` if subsampling, which is off by
default, were switched on: 310 s are five subsample intervals of 60 s and 10 s
more, less than the 30 s of a subsample.

The host, the nodes and the library are those of the modules (section 2); what is
assumed of them there, such as a host that answers in time, is assumed here.

### The power controller

`BridgePowerProofs` proves, for every set of configurations, any set of callers,
every limit, any clock and every bound, from the named assumptions
`LimitsAssumption` (minimum and default times are positive) and
`BridgePowerAssumption` (constants have their types; ON and OFF are different bits):

| theorem | states |
|---|---|
| `NextStartAligned` | the next start is never in the past, and aligned when alignment is configured |
| `TypeCorrect` | `Spec => []TypeOK`: no start, remaining time or sleep ever runs below zero |
| `SignalsHonest` | `Spec => []SignalHonest` |
| `Refines` | `Spec => ImplementsBusPower` |
| `RefinesControl` | `Spec => ImplementsPowerControl` |
| `DisablingPowers` | `Spec => []DisabledMeansPowered` |

The argument:

1. *Types.* `TypeOK` is inductive. The only steps that need work are those with a
   subtraction (`SampleEarly`, `SampleAdvance`, `SubsampleOff`, `IdleAlign`,
   `InitElapsed`): their guards and `NextStartAligned` keep the results natural. That
   `ValidateConfig` yields a legal configuration from any stored one is lemma
   `ValidConfig`.
2. *Supply.* `SignalHonest` is not inductive: it says nothing about a switching
   that is half way. `SupplyInv` adds, per label, which pins and bits are in
   which position (charging: boost on, load off, no OFF bit; and so on), and
   that the two bits are never up together. Only the `Bus…` actions touch the
   pins (`SupplySteps`), so every other action preserves it at once.
3. *Refinement of `BusPower`.* Under `Stage` each of the `Bus…` actions that
   touches the supply is one action of `BusPower`, and every other action
   leaves pins, bits and stage alone.
4. *Refinement of `PowerControl`.* `SettledStays`: once settled, every step
   except an enable keeps it, because the branch that a disabled task takes
   (`IdleDisabled`) only ever asks for the bus to be on.
5. *Disabling.* `ReadyInv` follows a disable through the handlers. `Heading` is
   the label the task is at, or returns to from a switching; `DisabledInv` says
   that a disabled task is on its way to a bus that is on, or has a
   notification to come; `NetifInv` and `InitInv` say the same of the L2
   interface and of the first power-up, which leaves the interface alone. The
   invariant is needed because the flag is read at three different places and
   a call may fall between any two. It holds with and without a timebase; the
   theorem keeps to the case with one, where it is what the documentation promises.

`BridgeScheduleProofs` extends it to the schedule:

| theorem | states | hypotheses |
|---|---|---|
| `NoTimebaseMeansBusOff` | `Spec => []NoTimebaseMeansOff` | |
| `WindowsArePowered` | `Spec => []WindowIsPowered` | |
| `BusOnSchedule` | `Spec => []OnSchedule` | `IDLE_S <= 1`, `NoOverrun` |
| `IntervalsInTurn` | `Spec => NoIntervalSkipped` | `IDLE_S <= 1`, `EndInTime` |

The first two hold under any calls, and their invariants (`TimesInv`) say what a
call may still change before it is over (`Pending`) and what each label promises
for the sleep it is about to choose: `OffInv` ties the bits and the L2 interface to
a bus that is off, `TimebaseInv` and `EnabledInv` follow the two flags through the
branches that read them, and `WindowInv` bounds every sleep with the bus off by the
start of the next window.

The last two are about a controller left alone: no call has been made, no clock set
again, no subsampling toggled (`AloneInv`; `StartSteps` lists the few steps that
still move the start). `LateInv` says that the task is awake, or will be,
before the interval is over; it is what keeps the loop of `_alignNextInterval()`
at one round (`NextStartFollows`). `OnInv` says that a bus that is left on, or
off, until the task wakes is as the schedule wants it for all of that time. The
schedule asks for remainders by the subsample interval, so the module begins
with lemmas on multiples (`Remainder`, `LastFits`, `LessThrough`) that the provers
do not find by themselves.

### The wiper

`ChlMotorProofs` proves, from `ChlMotorAssumption` (the wiper needs no more than the
travel time it is given, and twice that is less than the width of the clock):

| theorem | states |
|---|---|
| `TypeCorrect` | `Spec => []TypeOK` |
| `ReadingsTagged` | `Spec => []MovingIsTagged` |
| `Released` | `Spec => []IdleIsReleased` |
| `StrokesAreFinished` | `Spec => StrokesFinished` |

None of these is inductive. What carries them is `InTime`: while the wiper
moves, the time it still needs is at most the unsigned difference between the next
step and now, which is at most the travel time. Time passing lessens both by the
same amount (`PassStep`), a new leg sets the difference to the travel time
(`StartLegStep`), and a difference of less than half the clock makes the
comparison in `motorService()` say "not yet" (`MovesNotYet`). So a step that is due
finds the wiper at rest at the end where the cycle sent it (`ArrivedWhenDue`,
with `OnItsWay`), and a cycle that ends, complete or not, leaves nothing moving
(`StopStep`). `ClockArithmetic` is the lemma on unsigned sums and differences.

### The update front end

`NcpDfuProofs` proves, for any number of starts, resets and calls of the CLI, of a
patient host (`~Impatient`; `ncp_duplicate_start` shows what an impatient one
does to `ControllerHeld`):

| theorem | states |
|---|---|
| `TypeCorrect` | `Spec => []TypeOK` |
| `StartsAnsweredOnce` | `Spec => []AnsweredOnce` |
| `NodeKeepsController` | `Spec => []ControllerHeld` |
| `ControllerComesBack` | `Spec => []ControllerGivenBack` |
| `SuccessStays` | `Spec => []SuccessIsConfirmed` |

The code has no lock around a start, and three tasks end one. So the invariant
says first who works on it: one place at a time (`OneAtWork`: the processor, the
library, or one task that finishes), only while the bridge is up
(`WorksWhileUp`), and only on a start that is still open (`StartIsOpen`, which also
follows the reboot info through a reset: what is kept belongs to an open
start, what is lost leaves one that nobody works on). `AnsweredOnce` follows
because each answer closes the start. `Hold` then ties the controller to the place of
work: from `Mark` to the restore of the finish it is disabled and the flag is
set, and everywhere else it is enabled, or the processor is about to enable
it. `Trial` does the same for the slots: a pending image exists only between
`SelfPending` and the boot, so MCUboot finds nothing to swap in or out after a
success (`McuBootStep`).

### The topology sampler

`TopologySamplerProofs` proves, for any nodes, networks and size of the CRC list:

| theorem | states | hypotheses |
|---|---|---|
| `TypesBelong` | `Spec => []TypesMatchNodes` | |
| `KnownWasToldAlways` | `Spec => []KnownWasTold` | |
| `ConfigOfItsNodes` | `Spec => []ConfigIsOfItsNodes` | `~Late` |

`StepKinds` sorts the steps: most leave the list, the gathering and the CRC list
alone (`Elsewhere`), so each invariant is proved against the few that do not.
`Progress` counts the entries of a gathering against the nodes of its list: two for
each, in turn, and none outside of a gathering. With that, `TypesBelong` needs one
more look only at the steps that write list, types or entries: the mutex keeps the
topology reply out of all of them but the start. With `~Late` (`InTurn`) the one
open request is that of the entry to come, so that `SoFar` holds: the entries so far
are those of the first nodes of the list. `KnownIsTold` treats the configuration
that is being sent, and `AddCrcAdds` says what the CRC list holds after an eviction.

### The report builder

`ReportBuilderProofs` is about the network of a report, `ReportSampleProofs` about
its samples, for any nodes, applications, networks, settings and queue. The
assumption on `Networks` says that the bridge is the first node of each list and
only there, as the library's topology has it.

| theorem | states | hypotheses |
|---|---|---|
| `PeriodOfOneNetwork` | `Spec => []PeriodIsOneNetwork` | |
| `NetworkGrows` | `Spec => NetworkOnlyGrows` | |
| `NumSensorsIsHonest` | `Spec => []NumSensorsHonest` | |
| `TypeCorrect` | `Spec => []TypeOK` | `OneSensorEach` |
| `SlotOfEachInterval` | `Spec => []SlotHoldsItsInterval` | `OneSensorEach` |
| `ReportsAreWhole` | `Spec => []ReportIsWhole` | `OneSensorEach` |

*The network.* The builder fetches configuration, list and types in three takes of
the mutex. `SamplerAgrees` says that the sampler's three agree as long as a
`CHECK_CRC` that nothing overtook is on its way, and `VisitsAgree` that
what the builder has fetched so far is of that same gathering. For the
announced number, `CrcsTell` says that the CRC determines the sensors of the
network, and `DataOfSensors` that only those have elements.

*The samples.* The builder places a sample by its own counter, not by a time,
and it may lag behind the sensor controller by a whole queue. `Levels` counts: the
increments in the queue are the intervals that are over and not yet handled, and a
message lies between the increments of its interval. `WalkCovers` says whom the walk
has sent for. `NodeAccount` puts them together: for each node and each
interval not yet handled, there is exactly one copy of its aggregate, in the queue,
or else it has just been put in its slot. So `TakeSample` meets an element that ends
just before the slot, after the back-filling (`AddSampleFills`), and
`TakeIncrement` one with a sample for each interval, which is what a report takes
(`ReportSettled`). `TypeOK` is a result here and not the start: that no element outgrows
`samplesPerReport`, which the code does not check, follows from the account only. An
application that is swapped for another breaks `OncePerNode`, and with it
everything that follows.

### The serial link

`NcpUartProofs` proves, for any list of baud rates and any length of the queues:

| theorem | states |
|---|---|
| `HostIsFound` | `Spec => []FoundIfThere` |
| `BaudIsShared` | `Spec => []SameBaud` |
| `NoMessageIsCut` | `Spec => BaudBetweenMessages` |
| `InOrder` | `Spec => PacketsInOrder` |

The four share one invariant, because they need each other: the buffers hold only
what was exchanged at one baud rate, and the baud rate is changed by what comes out
of the buffers. `LockInv` says where the negotiating lock is (with nobody, the item
held, the item on the line, or a running timer), `MessageInv` that at most one
message of a negotiation is under way, of the kind that the shared `event` says. So
the event that `postTxEventHandle()` reads at the end of a transmission is that of
the message which has just ended. Data may be anywhere in between (`DataQueued`),
and an event whose message was dropped has none under way (`NoMessage`): it stays
until the next negotiation of the host overwrites it, and gives no lock. `AnswerInv`
follows the answer to the bridge's request, and `AskedInv` the host's own request,
from the line through buffer and queue to the handler; `DiscoveryInv` and
`SearchInv` say that the discovery leaves a baud rate only when nobody answered at
it; `AgreeInv` then is that both baud rates are the same. `ReceiveInv` relates the
packet numbers in the two buffers, and the notification, to the number of packets
the task is behind. With two, either it decodes the older and has been told of the
newer, or the mask has replaced the notification and it will decode only buffer 0.

## 7. What is only model-checked

- Liveness (`WindowAggregated`, `DisableTakesEffect`, `EveryStartAnswered`,
  `RejectedImageLeaves`, `EveryIntervalCounted`, `AskedWhilePowered`,
  `PausedWhileOff`, `QueueMoves`, `DiscoveryEnds`, `WipesAgain`): temporal reasoning with fairness
  and `ENABLED` is out of the prover's reach.

What the hypotheses of section 6 exclude is known from counterexamples only.

## 8. Disagreements between code and comments

Six runs end in a counterexample; `PROJECT.json` quotes the lines.

- (a) *A subsample outlasts its sample window.* `handleSubsamplingState` cuts its
  other two sleeps to the time the sample window has left, but not the sleep of an open
  subsample (line 309).
- (b) *Enabling again keeps the bus on up to the next interval.*
  `powerControlEnable(true)` moves a past start forward, and the handler treats
  the time up to it as an early wake that leaves the bus as it is.
- (c) *A disable may be followed by one power-down.* The task finishes what it
  decided before.
- (d) *A second start during a node update enables the controller.* Every finish
  restores it, whoever held it.
- (e) *A node that changes its sensor application writes two samples per
  interval into one element*, and past the end of its array in the second half
  of a period.
- (f) *A controller that is disabled without a timebase has the bus on.* The
  documentation of `powerControlEnable` (`bridgePowerController.cpp:92`) says that
  it is off. The idle branch of a disabled controller (lines 397-402) turns it on
  and never looks at the timebase, which is what the update front end needs.

Other observations that no run is kept for:

- During the second before the reset that reverts a wrong image, the processor
  still takes messages; a start that arrives then is lost or erases the slot the
  revert needs. A host that waits for the reboot message does not meet this.
- A power loss wipes the retained section: an image on trial is then neither
  confirmed nor rejected until a next reset reverts it.
- A subscribed node that is updated to an application without a sensor makes
  the announced number of sensors too small, and the reports of all sensors are
  dropped until the bridge restarts.
- After a report the builder's CRC is cleared but its configuration map is not
  (`reportBuilder.cpp:754`); the one caller of the getter ignores the CRC.
- `topology_sample_cb` means "to make sure bus was powered for the whole topo
  request" (`topology_sampler.cpp:97`) but looks at the supply only when the request
  is over: a bus that was off in between goes unnoticed.
- The CRC of a new network is saved before the network is sent
  (`topology_sampler.cpp:212-235`). A reset between the two leaves it known and
  untold; the boot sends whatever network it gathers first, usually that one.
- A sampler that meets a disabled controller waits for the bus without limit
  (line 669), and until then leaves a running timer alone.
- `ncp_uart.cpp:687` says "previous packet still pending, drop the oldest and
  continue". With buffer 1 pending the notification indeed moves to the new packet;
  with buffer 0 pending the mask is 0, the new packet is the one dropped, and the
  next one is written into the buffer that waits to be read.
- A baud request that a full transmit queue drops (`ncp_uart.cpp:109`) leaves its
  event at "request" (lines 490-494). No transmission ends for it, so nothing starts the
  timer, `ncpBaudRateDiscovery()` waits for its semaphore without a limit (line 609),
  and later calls of `ncp_negotiate_baud_rate()` refuse. It takes as many
  messages as the queue has entries before the discovery at boot. A reply that is
  dropped leaves the host to its own timeout, and both sides at the old baud rate.
- Two negotiations whose messages are both queued before the first is sent share one
  event: the second finds it cleared and never gives the negotiating lock, and
  transmission stops. The same lock stays taken when COBS encoding fails
  (line 535), while the other is given.
- A reply to a baud rate request that comes after the timer has given the lock
  changes the rate under whatever is being sent by then.
- An aborted wiper cycle leaves the wiper where it is, possibly over the sensor, and
  later readings carry no mark; `motorInit()`'s result is ignored by `setup()`,
  so a wiper that could not be parked at boot is not noticed either.

## 9. What is not modelled

- The *network stack, RTOS, MCUboot and CBOR library*: not in the source tree.
- *Drivers, board support, low power, ports of third-party code*: their
  behaviour is that of hardware or of other projects.
- *Sensor drivers, parsers, averaging, logging*: sequential, mostly numeric code,
  with unit tests beside it (`src/test`).
- *Mote applications*, except the CHL mote.
- *Of the serial link*: COBS and CRC, oversized and empty packets, the wake-up line
  and its lock, encoding failures. A failed allocation in `queue_tx()` drops a
  message just as a full queue does. Acknowledgement and request of one discovery
  attempt enter the queue in one step. *Of the CHL mote*: registers, the conversion
  to a concentration, the LED, and a clock that jumps back (uptime is derived
  from the RTC).
- *Overflow of epoch seconds*: 32-bit times last until 2106; times are
  integers here, and `TimeRemaining` is the one signed difference.
- *Heap exhaustion*: allocations are asserted in the code and stop the bridge.
- *Priorities*, except where stated: interleavings that priorities exclude are
  included, which is sound for the safety properties that hold.

## 10. Plan

Done, in this order: `PowerTiming` and `BridgePower` (the schedule everything
else depends on), `BusPower` and its refinement, the proofs, `PowerControl` and
its refinement, `NcpDfu` on top of it with its proofs, `ReportBuilder`, `TopologySampler` on
`BusPower`, `NcpUart`, `ChlMotor` and its proofs, and then the proofs of the
schedule, of the report builder, of the sampler and of the serial link.

Next, modules:

1. The wake-up line of `NcpUart` (`BM_INT`, `ncp_serial_lock`, the pre-transmit
   callback) and a host that is more than one packet ahead.
2. `payload_uart` and `serial.c`: stream buffers, transmit-complete callback, line
   assembly between interrupt and task. The question to ask first:
   `endTransaction()` waits for one token of `_postTxSemaphore`, which every
   finished transmission gives and every `write()` takes beforehand
   (payload_uart.cpp:75-103, 247-261). The first of two writes may finish after
   the second has taken and before the transmit task has brought the second to
   the line, since that task also serves the other ports; the comment at line 90
   says that only the final transmission leaves a token.

Next, theorems: what is left of the properties is liveness. Worth proving
beyond them:

1. The safety part of `WindowAggregated`: a controller left alone does not sleep
   past the end of a window without having given the notification.
2. `OnSchedule` after calls: from when on a controller that was called is back on its
   schedule.
3. The types of `ReportBuilder` and its network without `OneSensorEach`, for
   periods in which no node was updated.

## 11. Running the checks

Each run is `tlc -config <cfg> <module>` with the pair listed in
`PROJECT.json`; the longest (`topology`, `power`, `reports`) take
two to three minutes. `tlapm M.tla` checks the proofs of a module `M`, for each of
the eight whose names end in `Proofs`; the longest take a few minutes.
