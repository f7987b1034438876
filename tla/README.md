# Verification of ESP_ControlHub

TLA+ models of the ESP_ControlHub firmware, TLC runs on small instances and
TLAPS proofs for every size. Paths below are relative to the repository;
`PROJECT.json` maps every definition to the lines it models, lists the hazards
with the properties aimed at them, and names the mutant each property catches.

    tlasany PlcTasks.tla                               parse
    tlc -workers 2 -config PlcTasksHub.cfg MCPlcTasks  model-check
    tlapm PlcTasksProofs.tla                           prove

## 1. The system

The hub is an ESP32 program on two cores under FreeRTOS. `EspHub` owns the
managers and calls them one after another from the Arduino loop task; a web
server (AsyncTCP) and the PLC engine have tasks of their own. Nothing in
`lib/PlcEngine` takes a lock. Several hubs form a painlessMesh network; the
root node talks to an MQTT broker.

| Component | State | Operations | Interacts with | What makes it correct |
|---|---|---|---|---|
| PLC engine (`PlcEngine/Engine`) | map of programs, program states, engine state, task handle | load, run, pause, stop, delete; scan in three phases; engine task | commands from MQTT, events (hub thread) and web (AsyncTCP thread); scans from hub thread and engine task | engine runs exactly while a program needs it; one task; one evaluator per program |
| Timer blocks (`Blocks/timers`) | start time, flag, last input | `evaluate` in each scan | PlcMemory, `millis()` | switch exactly at the preset, across the wrap of the clock |
| Counters, latches, sequencer, status handler | counts, edges, step, last status | `evaluate` | PlcMemory, DeviceRegistry | one count per pulse that is not at a limit; a step keeps its timeout; triggers on changes only |
| Gates, comparisons, integers, conversions | none | `evaluate` | PlcMemory | results right at the ends of each width, for negative numbers and NaN |
| REAL arithmetic, strings, time of day | none | `evaluate` | PlcMemory | unit tests suffice |
| PlcMemory | variables, I/O points (`PlcMemory.cpp` is a stub in this version) | get, set, sync | DeviceRegistry | type safety; values of an offline device |
| Event manager (`PlcEngine/Events`) | triggers, last values and times, ring of 100 events | loop, load, remove, enable; history, mark, clear | reads DeviceRegistry, runs programs | debounce; no change lost; schedule kept; history is the last 100 |
| DeviceRegistry (`Devices`) | endpoints, devices, I/O points, callbacks | register, remove, update, offline check | every protocol manager | status follows the device; no dangling names |
| DeviceConfigManager (`Devices`) | a JSON document per device, files | create, update, delete, save, load, ask | protocol managers | a device in memory is initialised; what is saved comes back |
| WiFi, Zigbee, RF433 managers (`Protocols`) | device tables, pairing window, codes | initialise, remove, read, write, loop | MQTT bridge, HTTP, radio, `millis()` | online means heard of lately; pairing ends; the switch is where it is shown |
| MeshDeviceManager (`Protocols/Mesh`) | nodes of the mesh | register, heartbeat, offline check | hub loop, PLC memory | offline is noticed within a round, and only then |
| ZoneManager, ZoneRouter | role, members, subscriptions, routes | election, beacons, discovery | broadcast | (not reached in this version) |
| ModuleManager (`Core`) | modules, enabled, autostart, file | register, enable, disable, restart, start and stop all | every module | what runs is enabled, and so is what it depends on |
| MqttManager | connection, back-off | start, stop, loop, reconnect | broker | subscriptions survive a reconnection |
| VariableRegistry, MqttExportManager (`Export`) | rules, topics, last publication | configure, remove, publish on change, periodic check, write | PlcMemory, MqttManager | latest value is published; topic and variable correspond |
| MeshExportManager | publish and subscribe rules, freshness | publish, request, receive, stale check | mesh, VariableRegistry | a change is sent in time; silence is noticed, a lost message is not |
| LocalIOManager (`LocalIO`) | five kinds of pin, mappings | load, loop, write, pulse, safe state | one PlcMemory, pulse counter units | debounced edges; every pulse accounted for; program and pins agree |
| MQTT discovery, web, users, OTA, logging, time, apps | little | I/O | — | thin wrappers |

What is hard in it: unlocked state shared by three kinds of thread; a scan of
several phases during which programs start, stop and disappear; tasks deleted
wherever they are; clocks that wrap after 49 days; a ring buffer; values
over a network that loses messages; a JSON library whose accessors clear what they
are asked for; retries that block the loop; module
dependencies; several maps that must stay consistent.

## 2. Modules

    PlcEngine     what the engine promises one caller; every handler atomic
      ^    ^
      |    PlcTasks        the same engine under its threads (refines PlcEngine)
      |      ^  PlcTasksProofs, MCPlcTasks
      IOEvents             event manager + engine + endpoints (EXTENDS both)
           |  ^ IOEventsProofs, MCIOEvents
           v
         EventHistory      the ring of events
           refines BoundedLog, the last N events

    PlcTimers    TON, TOF and TP             )
    PlcCounters  CTU, CTD, CTUD, SR, RS      )  ^ PlcBlocksProofs
    PlcSequencer steps with conditions       )
    PlcStatus    online and offline triggers )
    PlcFunctions blocks without a state      )  < MCPlcBlocks, one at a time,
    EventHistory                             )    or the ring alone

    MqttExport    variables exported over MQTT   ^ MqttExportProofs, MCMqttExport
    MeshExport    variables shared by hubs       ^ MeshExportProofs, MCMeshExport
    LocalPins <- LocalIO   pins and their manager  ^ LocalIOProofs, MCLocalIO

    HubClock <- ZigbeeDevices <- MeshDevices <- WiFiDevices  )  < MCDevices, one
    RadioDevices                                             )    part at a time
    DeviceConfigs                                            )  ^ DevicesProofs
    Modules       the life of modules                        )  ^ ModulesProofs

MCPlcBlocks and MCDevices choose a part at the start and let the others stand
still: the parts share no state, and the sum of their state spaces is checked,
not the product.

**PlcEngine.** `state[p]` is the program's entry in `programs` (`"absent"` when
there is none) and its `currentState`; `engine` is `currentEngineState`. One
action per handler of `PlcEngine.cpp:58-139`. A configuration that fails to
parse leaves no trace, so it is no action.

**PlcTasks.** `handle` is `plcEngineTaskHandle`, `alive` the tasks FreeRTOS
runs, `pc[t]` the place of thread `t` in a handler or a scan, `at[t]` the
program its pointer or map iterator is on, `stale[t]` whether that object has
been erased. The handlers are cut between accesses to shared state that another
core can get in between: `runProgram` into run / init / engine / start /
create, `stopProgram` into stop / check (one program at a time) / halt / kill /
clear, `deleteProgram` into delete / erase. A scan goes through READ, EXECUTE
(with EVAL while inside a program) and WRITE, one program at a time.
`xTaskCreatePinnedToCore` may fail; `vTaskDelete` stops its victim wherever it
is, and the caller if given NULL. The use of a dangling pointer is undefined: an
assignment through it is lost, and a call through it is a thread that only a
restart brings back. Inserting into or erasing from the map while another
thread walks it is treated as atomic.

**EventHistory / BoundedLog.** The ring of `IOEventManager` (`eventHistory`,
`historyHead`, `historyCount`) and the sequence of the last events it stands
for. A record is the event and its mark `mqttPublished`; the other fields are
text. A slot that was never written has no event.

**IOEvents.** The loop looks at one trigger per step, I/O triggers first as the
code does; commands to the engine (from the web thread) and endpoint updates
may come between any two of them, everything of the hub thread only between
rounds (`cursor = 1`). `uptime` is `millis()`, which wraps; `wall` is the local
time of day. Hours and minutes of a schedule are one set of minutes of the day;
days of the week and months are left out, as are the statistics (no decision
reads them) and the files. `age` is a history variable for the properties. A
threshold stays at the default because `loadConfig` never parses one.

**PlcTimers.** One block, evaluated by scans; between two scans the input may
change any number of times and the clock may advance by up to `MaxGap`. `q`
belongs to the block: no other block or init section writes its output variable.
`high`, `rose` and `fell` are history variables: how long every scan has seen
the input high, and how long ago a scan saw it rise and fall.

**PlcCounters.** One counter or latch, chosen at the start, on inputs that
change between scans. The count is a variable of the program and outlives the
block; `last_cu_state` and `last_cd_state` are the block's. `base`, `net` and
`ups` are history: the count at the last reset or load; the pulses up since
that met a count below the preset less the pulses down that met one above zero;
and all the pulses up. In one scan the pulse up is taken first, as in
`BlockCTUD.cpp:35-44`. `cv` is not wrapped to 16 bits, and `CountersTypeOK` says
that it need not be: the code counts up only below the preset, itself an
`int16_t`, and down only above zero. `MaxCount` is the largest `int16_t`; a
preset is any, a negative one is loaded as it is.

**PlcSequencer.** The current step with its condition and timeout. The action
of a step may change any variable of the program, among them the condition; its
values are left out. `step_start_time` starts anywhere: `configure` leaves it
uninitialised (`BlockSequencer.h:12`). `clean` is history: the steps that were
left once, or had 0 in memory to begin with, and so find no start time when
their turn comes. A sequence may have a single step, which follows itself; that
it was left then shows in `done`.

**PlcStatus.** `isOnline` is the registry as the block asks it (FALSE for an
endpoint that is not there); the rest are the block's fields and outputs.

**PlcFunctions.** What each block without a state computes; `AsNamed` says the
same from its name (a remainder by its defining equation, a parity by counting),
and `FunctionsAgree` compares the two over all inputs. Integers have `ByteBits` and
`IntBits`; a conversion does what the cast of the code does. The powers of two
(`Pow2`) and the loops over the inputs (`XOR`, `BoolArrayToInt8`) are recursive
functions, about which proofs can be made.

**MqttExport.** `MqttExportManager` with what it meets of `MqttManager` and
`VariableRegistry`. A round of `EspHub::loop` on the root node is `Connect`
(reconnect, if need be), `Receive` (at most one message, with the write, the
notification and the publication it causes), `Check` and `Export` (one rule
each); programs, clients, the clock and a lost connection come between any two
of them, configuration between rounds. `rules[v]` is the entry of `exportRules`
with its `lastPublish` and `lastValue`; `broker[v]` and `since[v]` are history:
the last value published under the rule and its age. Outside `src/`: the broker
returns to the hub what it publishes on a topic it subscribes, a new session
starts without subscriptions (the client asks for a clean one), and messages
are QoS 0. A value is a type and a number, a REAL in thousandths. `Same` is the
comparison of `shouldPublish` by type, `Payload` the text of a value (a REAL
with two decimals, a BYTE or DINT empty), `Parsed` the value of a text, which
the model keeps as what a reader makes of it; `Initial` is the BOOL false of a
new rule. A STRING is compared like an INT and left out. Messages reach the manager
by `EspHub::mqttCallback`, as its documentation asks of an application;
`main.cpp` installs a callback of its own that forwards only
`esphub/ota/update`, so in that firmware nothing is received. `value` is what
`readVariable` finds at the source: a program's memory taken as its header
declares it, a device, or a callback.

**Modules.** Each call of `ModuleManager` is one action: the manager has one
caller, and between two calls no module is ENABLED, STARTING or STOPPING.
`startable` is whether the settings of a module let `start` succeed (for
`MqttManager`, the only module: a server name, and certificates that can be
read); `file` is what `/config/modules.json` says, which a failed save leaves
alone. `Reboot` reads no file, as `initialize` does. Its definitions carry the
name of the module (`ModulesInit`, `ModulesNext`) because it is one of the parts
of MCDevices.

**LocalPins, LocalIO.** A pin object is a record with the fields its class
keeps; the operators of LocalPins are the methods (`update`, `write`,
`triggerPulse`, ...). LocalIO has the manager: `Round` is one `loop` (all pins,
then the inputs to the program, then the outputs from it), and pulses and levels
change between two rounds. Within a round pulses matter in one place: a
frequency sample reads the hardware (`PulseCounterPin.h:99`) and clears it
(`:117`), and any number may arrive in between (`Arrivals`), which
`Cleared` throws away. What a pin shows depends on the type it is mapped with: a
counter shows whether the hardware has counted, its frequency or period, or its
total (`CounterShown`); a PWM output its duty cycle or the duty value. A
frequency or a period is rounded down. `pcntUnitsUsed` is never given back, as
in the code: after a few configurations with counters none can begin. `seen`,
`pulses` and `missed` are history.

**MeshExport.** Each hub has its rules and runs one thread; a loop comes in
every tick, a message is delivered or lost within its tick. `net[h]` is what is
on its way to `h`. `alias` has what the registry's variable holds, FALSE for
whatever has been received (see the findings). `lostRow`, `calm` and `pending`
are history.

**HubClock, ZigbeeDevices, MeshDevices, WiFiDevices.** `millis` wraps, and a
round of `EspHub::loop` comes at most `MaxGap` ticks after the one before it.
A table maps a device to its record, `NoDevice` without one. The history
variables `heard`, `said` and `answered` are the true ages the code estimates
from `lastSeen`. External: what the bridge, the node or the device answers.

**RadioDevices.** `radio` is the table, `codeToDevice` the index by code,
`received` the one code RCSwitch holds; `lamp` is the switch in the world, which
hears the hub and remote controls, `"unknown"` where nobody can tell (see the
comment of `ShowsTheSwitch`). RCSwitch receives in an interrupt: `handleReceivedCode`
and `resetAvailable` are two steps, `handled` holds the code between them, and
a remote control may send in between, whose code is thrown away unseen. Devices
may use the same codes; whoever learned one last has it in `codeToDevice`, and
whoever gives it up erases it for all. `contested` is history: the codes that
two switches have shared and one of them still uses.

**DeviceConfigs.** `deviceConfigs[d]` is the document; `to` is ArduinoJson's
`to<JsonObject>()`, which empties the document it is asked of, so that every
access is an action that changes state (`Ask`). `managed` is what the protocol
managers were told, `files` the files, with two ids that share one file because
`generateDeviceFilename` replaces characters. A save may not open the file, or
open it and write nothing.

## 3. Runs

| Run | Question | Result |
|---|---|---|
| `plc_hub` | With all commands on the hub thread: do handle, task, engine state and programs stay consistent through every interleaving with the scans, do the cut handlers implement `PlcEngine`, and is a RUNNING program evaluated for ever? | holds, 9,510 states |
| `plc_web` | Also with the web thread: is there one engine task? | violated |
| `plc_blocks` | Do timers switch when they promise, counters count each pulse once where no limit stops them, steps keep their timeout, status triggers follow changes, blocks without a state compute what they are named for, and does the ring report the last events with their marks? | holds, 95,465 states |
| `io_events` | Debounce distance, and no lasting change unreported, with reloads, removals, disabling, a registry that changes, and a clock that wraps? | holds, 643,800 states |
| `mqtt_export` | Do publications keep their distance, does the broker end with a value that stays, and do the hub's own messages stop? | holds, 468,566 states |
| `mqtt_echo` | Do they stop also when two messages are on their way at once? | violated |
| `mesh_export` | Is a lasting change sent in time and silence noticed in time, and does a periodic variable survive a lost message? | holds, 786,008 states |
| `mesh_value` | Does an alias hold the value that was received? | violated |
| `local_io` | Do glitches never and lasting levels always show, is every pulse counted once or lost in a known place, and do program and pins agree after each round, whatever the types of the mappings? | holds, 255,528 states |
| `devices` | Who is silent is offline and nobody else; pairing ends; a switch with codes of its own is where it is shown; a device in memory is one its manager knows; what runs is enabled, and no call takes an enabled dependency from it? | holds, 903,886 states |
| `plc_ctu` | Does an up counter go on beyond its preset, as its unit test expects? | violated |
| `device_reload` | Is a saved device there again after a restart? | violated |

**Bounds.**

* *Engine.* Two programs are the fewest for "another program keeps the engine";
  the proofs cover any number. Two task identities leave room for the second
  task that must not exist.
* *Events.* `UptimeWrap` 3 with a debounce time of 2 is the tightest clock that
  still lets the time pass; the wrap falls into every position of the debounce
  time. `age` saturates at `MaxAge`, the debounce time. The ring has one slot
  here, where only its composition matters, and three in `plc_blocks` (wrap,
  full, partly full, marked in part).
* *Blocks.* `Wrap` 6, presets 0, 1, 3 and `MaxGap` 2 satisfy the assumption of
  `PlcTimers` that a scan comes before the clock laps (preset + MaxGap < Wrap);
  for the real clock: the preset and the longest pause between scans together
  stay below 49.7 days. They include the preset of zero, the one that ends
  between scans, and a start at each value of the clock. The sequencer has a
  step with a timeout, one without, and a shorter one, under the same
  assumption (`Timeouts`; a single step was checked, too). Presets of counters are -1, 0, 1 and 3: negative, empty, and room
  for counts that meet both limits, with `MaxCount` 3 the largest integer.
  `ByteBits` 2, `IntBits` 3 and three inputs
  have every sign, both ends of each range and a byte with more inputs than
  bits. `PlcCtu.cfg` has the preset of 3 of the unit test, in integers of 4 bits.
* *MQTT.* One variable and one topic: rules of different variables share
  nothing but the inbox. The variable is a BOOL, a BYTE, or a REAL of 0, 0.006
  or 0.02: two that the comparison takes for one, and one that it does not.
  Clients write "true" and "0.01"; a rule's range admits it or not. `MaxInbox` 2 is the least at which an echo and a newer
  write are on their way together; `Wrap` 4 with an interval of 2 puts the wrap
  into every position of the interval; `CheckPeriod` 0 (more than zero ticks, so
  every tick) is the shortest period that lets time pass between checks;
  `MaxAge`, where `since` saturates, is the interval.
* *Mesh export.* One publisher and one subscriber: hubs share no rules.
  `Timeout` 6 is (`MaxLost` + 1) times the interval and the check's period, the
  least for which `ToleratesLoss` promises anything; `Clock` 11 leaves room
  for an age to exceed it. One message at a time is on its way.
* *Modules*, one part of `devices`. A chain of three with the last one neither
  compatible with the hardware nor allowed to be disabled; the proofs cover any
  graph.
* *Local I/O.* One or two pins at a time (`SameRig` keeps a configuration to
  pins it has loaded before, or to a fresh manager without counter units: the
  pins of different configurations never meet in the code), with and without
  debounce time and filter; a fan mapped as an int and as a real; counters of
  each mode, mapped with each type, two units, one failing configuration, and a
  hardware counter that starts again at 2, of 3 pulses at most: every count is
  met with and without a wrap.
  `Clock` 5 is the least that holds the longest debounce time and the longest
  pause between two rounds together, which `LocalIOAssumption` asks for: an
  input that bounces is looked at before `millis()` laps it.
* *Devices.* Two of each kind, for what one does to another; three
  configurations, of which two share a file. `OfflineTimeout` 2, `MaxGap` 2 and
  `MaxAge` 5 below `Wrap` 6 are the least that satisfy `ClockAssumption`. One
  switch may learn the codes 1 and 2, the other 2 and 3, so that they share one
  or none, and a code nobody has learned is a stranger's.

Every run looks for deadlock.

**Fairness.** `PlcTasks`: every step of a handler and of a scan that can be
taken is taken (both cores schedule their tasks at equal priority; the engine
task sleeps 10 ms a round), and a scan begins again and again: `EspHub::loop`
scans in every round, however many commands that round handles, so strong
fairness of `ScanBegin` is what the loop gives. `IOEvents`: the loop goes on,
and so does time; `Tick` waits for the end of a round because a tick is longer
than a round, hence strong fairness. Both rest on `EspHub::loop` returning from
its managers. On a root node `MqttManager::reconnect` does not return until the
broker answers, so liveness is claimed for a broker that does. `MqttExport`
assumes the same two things: `Round` goes on, and time does. Nothing is assumed
of programs, clients or the connection; the liveness properties are about
behaviours in which they settle. The other modules state what must happen in
time as safety: `ChangeIsSent` and `SilenceIsSeen` by the ticks something has
waited, `LastingSeen`, `OnlineIsRight` and `PairingEnds` by rounds that come at
most `MaxGap` ticks apart.

## 4. Findings

Each is a run that TLC finds violated:

* `runProgram` tests and sets the engine state without a lock; two commands
  that overlap, from MQTT and the web, create two engine tasks (`plc_web`).
* What the hub publishes for a read_write variable comes back to it as a write.
  Alone it is the value the variable has, and stops there (`QuietOneByOne`);
  behind a newer write it overwrites it, is published again, and two values
  follow each other round for ever (`mqtt_echo`).
* The sender of a shared variable gives `type` to the number of the message, the
  receiver reads the type of the value there: every alias is FALSE (`mesh_value`).
* `loadDeviceFromFile` clears the document it has just parsed, so that no
  device comes back from its file (`device_reload`). The getters do the same to
  the document in memory: one that was asked is saved as `{}`.
* A CTU block counts a pulse only below its preset (`BlockCTU.cpp:28`); its unit
  test expects a fourth count with a preset of 3 ("Count 4 (Above PV)",
  `test_counter_blocks.cpp:63-69`). `CountsPulses` says what the block does,
  and `plc_ctu` that it is not what the test says.

Met on the way, modelled as the code has them, and without a run of their own:

* `EspHub::loop` and the engine task both call `evaluateAllPrograms`, and a
  program is evaluated twice at once (`PlcEngine.cpp:197`).
* Minutes since boot are compared with the minute of the day: a scheduled
  trigger fires on every round of its minute, and one for 00:00 never before
  its first firing (`IOEventManager.cpp:527`).
* `reconnect` subscribes two topics of the hub's own and none of the variables'
  (`MqttManager.cpp:341`).
* The configuration of the modules is saved and never loaded
  (`ModuleManager.cpp:18`).
* `PWMOutputPin::begin` sets the initial duty cycle before it marks the pin
  valid, and `setDutyCycle` returns on a pin that is not: a PWM output always
  starts at 0, whatever `initialDutyCycle` says (`PWMOutputPin.h:63`). Hence
  `BeginPWMOutput` starts it there.
* MQTT, against "published automatically when its value changes"
  (`docs/MQTT_EXPORT_SYSTEM.md:230`): a REAL that changes by less than 0.01 is
  not published, although its text may change (`MqttExportManager.cpp:769`); a
  BOOL that is FALSE when its rule is new is never published, because a new rule
  takes it for published; a BYTE or DINT is published again in every interval,
  with an empty text (`:721`, `:778`). A REAL with more than two decimals that
  is read_write is rounded by its own echo. `LatestPublished` says what is left:
  the broker ends with the text of the value, of a REAL within 0.015.
* A pulse counter has "overflow handling" (`PulseCounterPin.h:16`) that is not
  there: at its limit the hardware starts again at 0, the difference (`:102`)
  is negative, and the total loses a full count. The pulses between reading and
  clearing of a frequency sample (`:99`, `:117`) are lost. The frequency divides
  the pulses of the last round by the time of the whole sample window
  (`:102-113`), so that with several rounds in a window it is too low.
* "bool, real, int types automatically converted"
  (`docs/LocalIO_PLC_Integration_Summary.md:41`): an output mapped as an int is
  never written (`LocalIOManager.cpp:579-597`); a PWM output mapped as a bool is
  set to 1 %, TRUE being the duty cycle 1.0; a counter mapped as a bool says
  whether the hardware's own register is above 0, which a frequency sample
  clears.
* The triggers of the status block are TRUE "for one scan cycle"
  (`docs/INTEGRATION_EXAMPLE_MESH.md:217`, "one-shot" in
  `BlockStatusHandler.cpp:146`), but stay TRUE while the endpoint's name is empty
  and through the first scan of another endpoint, which returns or sets the
  status alone. One trigger also stays TRUE in the scan that raises the other:
  only a scan that finds no change clears them (`:115-122`).
  `TriggersOnChange` is about when they rise.
* The first timeout of a step is measured from what memory held before the
  block was made (`BlockSequencer.h:12`, `BlockSequencer.cpp:48`).
* Two 433 MHz devices may use one code (`RF433Manager.cpp:82`, `:129`): the last
  one to learn it has it, and it is nobody's when one of them gives it up. A code
  that arrives while another is handled is thrown away (`:37`).
* A periodic rule with an interval of 0 is published by every check, a tick more
  than `CheckPeriod` apart, and not every interval and period: the proof
  of `ToleratesLoss` does not go through for it, and the property now names
  the interval it is about.

## 5. Proofs

Every safety property the passing runs check is proved for every value of the
constants that satisfies the named assumptions. The properties are seldom
inductive; what follows says what had to be added to each, and why.
`PROJECT.json` lists the theorems.

Three things come up in all of them. *Clocks*: an age is a difference modulo the
range of `millis()`, which is one subtraction as long as the clock has not lapped
it; each proof module starts with these lemmas (`Laps`, `TickLaps`, `Distance`,
`Lap`), and most assumptions on constants are what keeps a clock from lapping.
*History variables*: the property counts true ticks, the code sees time stamps;
the invariant says when the two agree. *Induction*: the library's induction
theorems take an operator, but a set will do where what is proved is about
numbers (`SetInduction` in `LocalIOProofs` and `PlcBlocksProofs`, from the
well-foundedness of <), and `Iteration` uses it to show that a recursive function
exists and obeys its definition.

`PlcTasksProofs`, for any number of programs and task handles:

* `TypeCorrect`: `Spec => []TypeOK`, whichever threads command.
* Assuming `SoleCommander` (one of hub and web issues all commands; what
  happens without it is `plc_web`): `HandleCorrect`, `TaskNeedsEngine`,
  `NoSelfDelete`, `RunningEngine`, `EngineUsed` and `Refinement`
  (`Spec => HandlersLookAtomic`).

`IInv` adds what a handler may rely on at each of
its places (`CommandInv`): its program is still in the map, RUNNING between init
and create, all programs up to the iterator STOPPED in the check loop, the
engine STOPPED before a start, and so on; and how far a handler under way lets
program states, engine state, handle and task differ (`EngineInv`). Scans only
move their own control (`ScanLocal`), so they keep it (`ScanKeepsInv`);
`HandlerKeepsInv` has one step per handler action. The refinement maps the
engine state to the one the handler under way is about to write (`engineSeen`);
every step is then a step of `PlcEngine` or changes nothing it sees.

`PlcBlocksProofs`, each kind of block under its own specification, and the
program of `plc_blocks` with all of them:

* `TimersKeepTheirTime`, for any presets and clock (`TimersAssumption`: preset
  and longest pause together do not lap it). While a timer runs its start time
  is as long ago as the edge that started it, and the last scan found the preset
  not over yet: the property follows from what the next scan does (`TimerInv`).
* `StepsTimeOut`, for any steps, a single one included, and any timeouts.
  `step_start_time` is anything before a step has been left once, unless memory
  had 0 there: the property is about the turns of the other, `clean` steps,
  which begin without a start time, and `TurnInv` gives the time stamp's
  distance from the first scan. It can be a pause short: a scan at
  `millis() = 0` stores 0, which reads as no start, and the next scan stores it
  again. The first turn of a step that finds something else has no promise.
* `CounterCounts`, for any presets of the integers' type: each pulse that finds
  room counts once, one at a limit never, and no count leaves that type
  (`CountOfScan`).
* `StatusTriggers`, for any endpoints: what the program is shown is what the
  block compares with.
* `FunctionsCompute`, for any widths with `ByteBits <= IntBits`, any number of
  inputs of a gate and any REALs (`FunctionsAssumption`). `Powers`, `PowersAdd`
  and `PowersGrow` say what `Pow2` is; `SignedReads` and `UnsignedReads` read a
  number that is at most a lap out of its width, which covers every conversion
  and the ends of INC and DEC. `Remainder` is MOD: quotient and remainder are
  the only pair that fits (`Quotient`), with the sign of the dividend put back.
  `Parity` and `Bits` go along the inputs: the XOR of those so far is the parity
  of the set ones, and the sum of those so far has them as its bits and nothing
  above, which one power of two more does not disturb (`OneBitMore`), not even
  when the last bit turns the byte negative. What a block computes is then,
  block by block, what its name says (`BlocksRight`), and INC and DEC leave
  behind an input they can take.
* `PartsRun`: the program, whichever block it has, behaves as the specification
  of each part says. Hence `BlocksTypeCorrect` and `BlocksKeepPromises`: type
  correctness, and each block's property, of `BlocksSpec`, the one TLC runs.

The proof showed an invariant that the small instance did not: the count had
been given the range from -1, the least of the presets checked, where CTD and
CTUD load whatever preset they have. The type is now that of an integer.

`IOEventsProofs`, for any endpoints, triggers, programs and configurations:

* `HistoryTypeCorrect`, and `RingIsLog`: the ring implements `BoundedLog`, for
  every size of it, from `HistoryAssumption` (at least one slot).
  Indices never reach twice the size, so each remainder is at most one
  subtraction (`Wraps`, `Back`, `Forth`); `Ring` shows that the slots a reader
  visits are distinct and that the head is the slot after them, `Shift` how a
  new event moves them, and one lemma per operation gives the step of the log.
* `EventsTypeCorrect`, and `EventsLogged`: the steps of the whole component are
  steps of the ring or leave it alone.
* `EventsDebounced`. `QuietLongEnough`: what `millis()` shows of the time since
  a trigger fired is never more than the true time. A lapped clock makes it look
  younger, which can only delay the trigger.

`MqttExportProofs`, for any number of variables and topics, any rules and any
clock, from `ExportAssumption` (each interval is shorter than the clock's range
of 49.7 days and than `MaxAge`, so that `since` can tell):

* `ExportTypeCorrect`, and `IntervalKept`: `Spec => KeepsInterval`. The code
  looks at the time stamp, which a lapped clock makes young again, and the
  property at the true age. `Waiting` connects them: while the interval is not
  over, the stamp's age is the true one. `TickAge` is why a tick keeps that
  (the stamp cannot be lapped within an interval), and `PublishKeeps` why each
  publication does; the stamp of a rule that never published is unconstrained.
  What is published and received keeps its type (`PayloadIsText`,
  `ParsedIsValue`).

`MeshExportProofs`, for any hubs, variables, rules and intervals, from
`MeshExportAssumption` (finitely many published variables; the period of the
checks, alone and with any interval, is shorter than the clock's range):

* `ExportTypeCorrect`, for messages that are lost and come late.
* `ChangesSent`. A change that waits is younger than the last check, or the
  interval had not passed at that check (`Younger`); and a rule whose last
  publication the clock has lapped is bounded by the lap.
* `SilenceSeen`. What is fresh was fresh at the last check, and the checks run
  (`FreshWhenChecked`, `ChecksRun`).
* `LossTolerated`. `LossesCount` is the argument: each message lost in a row
  lets a subscription's silence grow by one interval and one period of the
  checks, and the message on its way closes the account; `ServedInTime` is why
  the publisher keeps these gaps, and `FromOthers` why a hub's own broadcast
  never reaches it.

`ModulesProofs`, for any modules, dependencies (cycles included), hardware and
failures:

* `ModulesTypeCorrect`, a part of `DevicesTypeOK` in the run; `ModulesRunEnabled`, inductive as it stands with the
  type; and `ModulesKeepDependencies`: what `disableModule` asks of the
  configuration is enough for what runs, because what runs is enabled.

`LocalIOProofs`, for any pins, configurations, mappings, counter units and
clocks, from `PinsAssumption` and `LocalIOAssumption` (for an input, debounce
time and longest pause together are shorter than the clock's range):

* `LocalTypeCorrect`. `loadConfig` makes the pins one after another, a recursive
  function; `Iteration` shows that it exists, and `SetInduction` that at each
  place the pins have their types and no two counters share a unit.
* `PulsesCounted`. `TotalsCount` keeps the account of each counter: the pulses
  there were are those counted, those `missed` by a clearing, and some number of
  full counts, one for each time the hardware started again. That the
  total is never below the last count read keeps it from being negative then;
  without samples the two are equal, and the total falls back to 0 with the
  hardware.
* `LastingLevelsSeen` and `InputsDebounced`. `Fits` relates a pin to the samples
  it was given: while the debounced level differs from the last one seen, the
  debounce time has been running for as long as that level has lasted, and the
  samples at the end of a filter are as many as agreed (`Ends`), which
  decides the majority once all samples of the filter agree.
* `ImagesConsistent`: of finitely many mappings to one place there is a last one
  (`Latest`), and driving the outputs leaves alone what the inputs show.

`DevicesProofs`, for any devices, codes, configurations and files and any
clocks that satisfy `ClockAssumption` (timeout and longest pause fit into
`MaxAge`, which fits into the range of `millis()`), the modules included, all
parts side by side:

* `DevicesTypeCorrect` and `OnlineMeansHeard`. As long as a device is online,
  what the table has noted of it is as old as its last sign of life, which is no
  older than the timeout and the time since the last round (`ZigbeeHeard`,
  `MeshSaid`); the tables of WiFi need their type only.
* `WindowsEnd`. `WindowInv` keeps an account of a window: what has passed and
  what is left are not more than what was asked for. A window that ends within a
  round of the wrap of `millis()` is left out, as in the property.
* `TalkersStayOnline`, from the same invariant.
* `SwitchShown`, whatever codes the devices share. The property is about a
  switch whose codes are its own and have been since it has them. `Wired` says
  that such codes lead back to it, which the order in `Remapped` (old codes out,
  then new ones in) is for; `OwnStays` that nobody else's change of codes
  touches them, since a code stays contested until nobody uses it; and
  `Followed` that the switch is where the code held in RCSwitch put it, or else
  where the hub believes it, between `handleReceivedCode` and `resetAvailable`
  as well.
* `KnownDevicesInitialised`. A failed update leaves the old device in memory
  with an empty document; it is still initialised because a manager that is
  looked up in an empty document is not found, and so is never told to drop it.

Only model-checked:

* liveness under fairness, which TLAPS does not prove: `RunningIsEvaluated`,
  `ChangeReported`, `LatestPublished`, `QuietOneByOne`.

## 6. Not modelled, and why

* PlcMemory: its source in this version has empty bodies (`syncIOPoints`,
  `getValueAsPlcValue`, `registerIOPoint`) and lacks the definition of most
  accessors. Where a model needs it, it keeps what is set, as its header says.
* The blocks on REAL numbers, strings and the time of day: one expression each.
* Mesh zones and routing: nothing runs them. `EspHub::loop` never calls
  `MeshDeviceManager::loop`, which would, and no sender fills in the checksum
  that `verifyChecksum` (`ZoneManager.cpp:708`) compares.
* The base class DeviceManager: no class derives from it.
* MQTT discovery, web pages, users, updates, logging, time, apps: wrappers over
  I/O.
* Statistics, and files and JSON except where a property is about them; a local
  time that is not set or is set back.
* Of the event manager: days of the week and months of a schedule.
* Of the MQTT export: commands, files, custom validators, the registry's own
  `exportToMqtt` topic, and the back-off times of `reconnect`.
* Of the devices: discovery, the bodies of requests and the parsing of replies,
  templates, import and export. The WiFi table is run for its type only: no
  loop looks at it, and only a question finds a device silent.
* Of local I/O: engineering units and edge flags, which nothing configures.
* A whole round of `EspHub::loop` in one module: each module has the part of
  the round that concerns it.

## 7. Plan

1. Refinements by composition: the ring and the engine inside `IOEvents` as
   one abstract specification of what a trigger does.
2. `MqttExport` with two variables on one topic: the mappings that
   `removeExportRule` and a replaced rule leave behind, and the commands.
3. A round of the hub composed of the engine, the event manager and the export,
   with the hazards of their order.
