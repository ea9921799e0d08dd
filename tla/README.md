# A TLA+ model of the Home Climate System firmware

The firmware (`src/firmware/`) turns an ESP32 or ESP8266 with an OpenTherm
shield into a heating controller: it polls a boiler, takes commands from a
head-end over MQTT and from its own web portal, keeps the house warm when the
head-end is lost, updates itself over the air, and on gateway builds sits
between a wall thermostat and the boiler. This directory holds TLA+ modules of
its control logic, the TLC configurations that check them, and theorems about
them that TLAPS checks.

Run, in this directory:

    tlc -workers 2 -config MCFailsafeDemand.cfg MCFailsafe.tla
    tlapm FailsafeProofs.tla

`PROJECT.json` lists the components, the runs and what each checks, a mutant of
the code for every property (the model with that bug in it violates the
property), the source lines behind each definition, the hazards the properties
aim at, and the theorems.

## 1. The system

There is one thread: `setup()` then `loop()` for ever (`main.cpp`). An iteration
of `loop()` runs, in this order, the status LED, the sensors, `net.loop` (the
rollback watchdog, the WiFi heal, a reboot that is due, at most one HTTP
request), the self-update check, the saving of weather-compensation changes,
`mqtt.loop` (reconnect, or incoming packets, or the rebind of an old session,
then telemetry), `failsafeLoop`, and the OpenTherm work of the role: a poll of
the boiler, or the thermostat's requests. The only preemption is the edge
interrupt of the gateway's slave endpoint. What interleaves with the stages of
the loop is the outside: WiFi, the broker, the owner's requests, the boiler, the
thermostat, power. RAM is lost at every restart; NVS (or EEPROM) and a LittleFS
file survive.

| Component | State | Operations | Talks to |
|---|---|---|---|
| Failsafe (`main.cpp:50-104`, `hcs_failsafe.h`) | `fs_state`, snapshot `fs_prev_*`, `lost_since_ms` | `failsafeLoop`, `applyFailsafe`, `onFailsafeCfg`, `/api/failsafe` | reads the link, forces the demand of OtMaster |
| OpenTherm master (`ot_master.*`, `hcs_ot_caps.h`) | demand (`ch_enable_`, `flow_setpoint_`, ...), `headend_cmd_`, `failsafe_`, the snapshot of the boiler, echo cap, rotation | setters, `doPoll_`, `sendRaw` | boiler; injected 1-Wire values |
| Gateway slave (`ot_slave.*`, `hcs_ot_fifo.h`) | decoder state, request ring, counters | `isr`, `loop`, `service`, `txAnswer_` | thermostat; calls the router |
| Gateway router (`hcs_gateway.h`, `ot_gateway.*`) | answer cache, link flag, override, probe time | `route`, `handleRequest` | slave, master |
| Role (`main.cpp:217-246, 498-517, 623-657`) | `gw_cfg`, `gw_probing`, `gw_active` | auto-detection, `requestGwMode` (restart) | slave, master, settings |
| MQTT bridge (`mqtt_bridge.*`) | session, backoff, change gates | `loop`, `reconnect`, `handleCommand`, publishing | broker; every setter |
| Network services (`net_services.*`) | WiFi heal counters, pending reboot, login sessions | `beginWifi`, `bulletproofWifiTick`, HTTP handlers | owner; every setter |
| OTA and rollback (`net_services.cpp:1671-2109`) | `/otaroll.json`, `roll_*`, `ota_busy_` | `startHttpUpdate`, `signedHttpUpdate`, `otaRollbackTick` | mirror, flash, MQTT and OT health |
| Settings (`settings_store.*`) | NVS keys or one EEPROM block | `load`, `save` | everyone |
| Weather compensation (`hcs_weather_comp.h`) | curve | target, parse | master |
| 1-Wire (`hcs_sensors.h`, `hcs_sensor_logic.h`) | slot table, devices, phase | scan, convert, read, `ow_assign` | master, MQTT |
| Boot and power health (`main.cpp:286-385, 562-577`) | `unclean_boots`, `ot_safe_mode` | at boot, at 90 s | master |

Left aside: the web pages, the command parser (pure, unit-tested), LED, logs,
texts, login, ArduinoOTA (a library), signature cryptography (its verdict is an
outcome of the update), the recovery image, the signing script.

### What is hard, and what makes each part correct

* **Failsafe.** Commands, settings edits, the loss and return of the link and
  learned boiler bounds arrive in any order between two calls of
  `failsafeLoop`; time is unsigned milliseconds that wrap, with 0 as a sentinel.
  Correct when it starts neither early nor late, when forced heat stands unless
  commanded away, and when the release neither loses a command nor a demand.
* **OTA rollback.** Every step can be cut by a power failure; the image that
  runs, the boot partition, the file and RAM may disagree. Correct when the
  watch survives restarts, attempts are capped, a live image is not reverted,
  and nothing stays pending for ever.
* **Gateway slave.** An interrupt against a three-step pop, a small ring, a
  blocking provider. Correct when the ring is a FIFO of what it accepted and
  everything accepted is answered.
* **Gateway router.** A link flag that only forwarding can set while the flag
  stops forwarding. Correct when the link recovers, a dead boiler is probed at
  the stated pace, and overrides reach every forwarded write.
* **OpenTherm master.** Closed loop with a boiler that has its own ceiling;
  several caches with different expiry. Correct when the boiler ends up holding
  the smaller of target and ceiling, writes respect learned bounds, and
  readings switch source when theirs dies.
* **WiFi heal and boot.** The heal restarts the device in the middle of an
  outage, and `setup()` blocks without WiFi. Correct when the heal is patient,
  when crashes of runs that lasted do not add up to the safe mode, and when a
  device that loses its broker to a save does not keep the forced heat.
* **MQTT bridge.** A session whose socket is dead, commands the broker repeats
  with every subscription, a will published after the next `online`. Correct
  when one-shots run once, dead sessions end, and a working device is shown as
  working.
* **Settings and 1-Wire slots.** Three copies of one table, written key by key
  while power may fail. Correct when no probe is ever in two slots, what the
  owner was told survives, and copies drift only where the code lets them.
* **1-Wire readings.** Last good values kept for display, bad readings, probes
  plugged, unplugged and reassigned. Correct when what is routed is the latest
  reading of the probe assigned and never a jump.

## 2. Modules

| Module | Models | Proofs |
|---|---|---|
| `Failsafe` | failsafe, demand, both command and settings paths, pulls that block the loop, restarts | `FailsafeProofs` |
| `Outage` | `Failsafe` with the WiFi heal, scheduled reboots, blocking boots, the count of crashes | `FailsafeProofs` |
| `OtaRollback` | updates, rollback watchdog, power failures | `OtaRollbackProofs` |
| `RequestQueue` | abstract: a bounded queue of requests | |
| `OtSlave` | decoder, ring, service, auto-detection; implements `RequestQueue` | `OtSlaveProofs` |
| `OtMaster` | poll cycle, learned cap and bounds, weather curve, outdoor source, with a boiler | `OtMasterProofs` |
| `Gateway` | request routing, answer cache, override, link probe, link hysteresis | `GatewayProofs` |
| `OwSlots` | the rules of the 1-Wire slot table, as operators | `SettingsProofs` |
| `ProbeLedger` | abstract: what each probe is used for, and what its owner was told | |
| `SettingsStore` | the table in RAM, in the sensors and in flash; saves cut by power failures; implements `ProbeLedger` | `SettingsProofs` |
| `Probes` | scans, conversions, the verdict on readings, what is routed | `ProbesProofs` |
| `MqttSession` | session, back-off, rebind, retained one-shots, availability, with a broker and a network | `MqttSessionProofs` |

`MC*` modules extend these for TLC; the `.cfg` files give the constants. In each
module the definitions named after a correct operation and a bug
(`ReleaseOverwriting`, `PushUnmasked`, ...) stand before the operation they
mutate and are used by the mutants only.

### Failsafe

`pc` is the stage of `loop()` that runs next (`setup`, `top`, `net`, `mqtt`,
`fs`). `Net` and `Mqtt` let one request or packet in: `Command` is
`noteHeadEndCommand` with `setChEnable` and `setFlowSetpoint`, `FailsafeCfg` is
`onFailsafeCfg` and `/api/failsafe`, `SettingsSaved` is `applySettingsJson`,
which replaces the broker in the running device. `SetupDone` is a join that
succeeded, with the broker the portal's form or the build gave. `FailsafeStep`
is `failsafeLoop`, with `Engage` and `Release` for `applyFailsafe`. `Tick` moves
`millis()` by one unit of the grace period and wraps it; an iteration that pulls
no image is shorter than a unit (the loop watchdog bounds it to 20 s, the unit
is a minute), so the clock moves at most once in it. `Pull` is an iteration that
does pull one: `startHttpUpdate` takes the loop off the watchdog, and up to
`PullTicks` units go by before `failsafeLoop` has its turn. `Restart` is every
way to lose RAM. `outage` is history: nothing in the model reads it, except the
properties. It remembers the demand an outage began with for as long as the
outage is quiet: without a command, and without FAILSAFE left by an edit.
Temperatures are whole degrees; `setFlowSetpoint` rounds to half
degrees, which changes none of them.

### Outage

Extends `Failsafe`: every action is one of its actions with what the other parts
do in the same stage, so that what is proved of `Failsafe` carries over.
`NetLoop` adds `bulletproofWifiTick` (`WifiTick`, with `HealDecide` for
`wifi_heal_decide`) to `Net`, `RebootDue` is the reboot that `scheduleReboot`
asked for (`NetLoopReboots`, `MqttLoopReboots`; a save of the settings replaces
the broker at once and restarts later, `Reboots`), `PullBlocks` a pull and the
reboot a good one ends in, `BootFails` and `BootDies` are the boots that do not
reach `loop()`. `LoopTop`, the first lines of `loop()`, forgets the unclean
boots once `millis()` is past 90 s: at some moment of tick 1, always later.
`Reset` is a crash or a power cycle, with `Boot` for what `setup()` makes of it
and `BootCount` for the counter, as the ESP32 keeps it (the ESP8266 counts to
one and never comes to the safe mode). A command of the heat demand changes
nothing here, so the requests are edits of the failsafe settings and reboots.
`seen` and `crashes` are history: how long the heal has found WiFi down, and how
many crashes came since a clean boot, or since `loop()` last began an iteration
at two minutes of uptime.

### OtaRollback

An image and its URL are one model value. `age` abstracts the uptime to what the
watchdog compares it with: before 90 s, between, after 180 s, and wrapping.
`Tick` is `otaRollbackTick` (one operator per way it ends), `Serve` the rest of
an iteration, `pull` and `flashed` the stages of `signedHttpUpdate` between
which power can fail, `Save` writes `/otaroll.json` if the file system is
mounted. A broken image never shows health.

### OtSlave

`wire` counts the thirds of the frame on the wire; `StartBit`, `DataBits`,
`StopBit` are what the interrupt does over them, including a decoder that is out
of step and eats a start bit. `LoopStart`, `PopRead`, `PopAdvance`, `Serve`,
`Answer` are the atomic steps of `loop`, `pop` and `service`, so that the
interrupt may run between the read of `buf_[tail_]` and the move of `tail_`.
`Decide` is the auto-detection of `main.cpp`. `IsAQueue` maps the module to
`RequestQueue`: what waits there is the request in the hands of `service()` and
then what the ring holds; taking a request is the interrupt's push, answering it
is the end of `txAnswer_`. `service()` can put a request back when the last
answer is younger than 20 ms (`PopAdvance`); the answer itself takes longer,
which is the assumption that keeps the branch dead, and without it
(`AnswerUntimed`) the refinement fails.

### OwSlots, SettingsStore, ProbeLedger

`Assign` is `ow_assign` with its early refusals and the late one, after the
channel has been taken from its holder (`Steal`); `Target` is the slot it
writes. `SettingsStore` has the table three times: `slots` is
`settings.ow_slots`, `sens` the copy `configure()` gave the sensors, `flash`
what is stored. `Start` is `load` with the migration of the two legacy keys, and
the save `beginWifi` ends with. A save of the ESP32 is one action per key in the
order of `save()` (`PutScalars`, `PutCount`, then `PutAddr`, `PutRole`,
`PutName` slot by slot, `PutLegacy`, which also stands for the failsafe's three
keys), one of the ESP8266 is `Erase` and `Program`; `PowerFail` comes between
any two. Of the scalars only the LED's setting is kept. On the ESP32 it is a key
whose save is debounced (`LedCommand`). On the ESP8266 `EepromBlob` has no field
for it: it is applied, never saved, and comes back as the default at every boot,
and a save made for it alone finds the image unchanged and writes nothing. The
other scalars interact with nothing here and are left out. `AssignRequest` and
`SaveRequest` are the requests. `behind`, `torn` and `promise` are history: what
a refusal or the debounce left behind, the channels whose assignment was cut
off, and what each probe's owner was told. `IsLedger` maps the module to
`ProbeLedger`, which knows no slots, keys or copies: the entry of a probe is
what the running table says of it (before the load of `Start`, what that will
bring), `told` is `promise`. `Give` is an accepted request, `TakeAway` one that
is refused after `Steal`, `Tell` the answer after the last key of a save,
`Restart` a power failure between any two writes; the writes themselves change
nothing the ledger has. The ESP8266 erases the image before it programs the new
one, and a power failure in between is the ledger's `Blank`: the whole table is
gone.

### Probes

`dev` is `devices_[]` by address, `Read` is `readAll`, `Verdict` what it makes
of one reading with `Classify` for `ow_classify`; `Scans` the lists `scan` may
leave when more devices answer than fit. `Request`, `ReadAll` are the two phases
of `loop()`, `SelfTest` and `Configure` come from requests, `PlugChanges` from
the owner's hands. The bus may return any value at any read. `Used` are the
probes `roleValue` and `customAt` look up, `Routed` those of them that have a
reading to hand on. `raw` (the last reading of each probe), `missed` and `shown`
(the last value each probe in use has handed on since it was listed) are
history.

### MqttSession

`pc` is the stage of the loop, `link` the device's socket: a dead one is open
and carries nothing, and the device cannot tell. `Reconnect` with
`TryReconnect` is `reconnect()` with its back-off, `ReadOne` one message of
`mqtt_.loop()` (`RunReboot`, `RunSettings`, `RunGwMode`, and `SkipEmpty` for
the echo of a clear), `Rebind` the end of a session that is too old,
`Telemetry` the heartbeat. The broker keeps retained commands, the will of a
session that ended, and of one that was taken over (`ghost`); it may restart
with or without its retained messages. The command `settings` stands for the
commands that are cleared and then applied, `reboot` for those that restart
first thing, `gw_mode` for the one that is not cleared. `credit`, `blind` and
`misled` are history. A connection that dies half-way through the messages of a
connect is `ConnectPartly`.

### OtMaster

A poll (`doPoll_`) is three steps, `pc` says which comes next: the Status
exchange (`StatusFails`, `StatusAnswered`), the TSet exchange of `writeTSet_`
(`NoHeat`, `WriteAcked`, `WriteLost`) and the slot of the rotation
(`OutdoorRead`, `OutdoorMissed`, `OtherSlot`). Between polls `SetDemand` and
`SyncSensor` stand for the rest of `loop()`. `Target` is what `writeTSet_`
wants, `Send` what it writes once the cap is applied, `Learn` is
`ot_tset_echo_learn`. The boiler is external: it stores the smaller of what it
is sent and its `ceiling`, acknowledges with what it stored, and `BoilerMoves`
turns its knob or changes, breaks or repairs its outdoor sensor at any time.
Failsafe bypasses the curve, which is the curve being off. Temperatures are
whole degrees where the code has half degrees and the fraction of a curve; the
echo's tolerance is one unit. Readings the code rejects, an outdoor temperature
of exactly 0 among them, are misses.

### Gateway

`frame` is the request on the boiler's wire; the exchange blocks `loop()`, so
only `Answered` or `Failed` can follow `Forward`. `Forward` is the first half of
`handleRequest` on a link that is up, or that `Probing` tries again;
`AnswerLocal` is the other branch of `route`. `Answered` chooses between an
answer with data, which `CachePut` keeps, and a refusal, which it does not;
`NoteOk` and `NoteFail` are the hysteresis of the link flag that telemetry
shows. Answers are not matched with requests in the code, so their data are
arbitrary. `newest` is history. Requests come from `OtSlave`'s ring one at a
time; the two modules share no state but that hand-over (`Serve` and `Answer`
there are one pass through `Gateway`), which is why they are checked apart.

## 3. Runs

| Run | Shows |
|---|---|
| `failsafe_demand` | `ForcedHeatStands`, `ReleaseKeepsCommands`, `QuietOutageRestored`: the demand through outages; `GraceRespected`, `FailsafeOnTime`, `OutageReachesFailsafe`: when the failsafe takes it over |
| `outage` | `HealAfterSolidOutage`, `WifiLossEndsInSetup`: the heal, its reboot and the `setup()` after it; `SafeModeMeansCrashLoop`: crash loops; `NoBrokerNoFailsafe`: saves that take the broker away |
| `failsafe_release` | violated: a command from before the outage suppresses the restore |
| `outage_reboot` | violated: a reboot with WiFi down never comes to the failsafe |
| `ota` | `RevertsCapped`, `AliveIsNotReverted`, `TargetSettles` |
| `ota_known_good` | violated: an image that never ran becomes known-good |
| `slave` | `IsAQueue`, `LatchedIsAnswered` |
| `gateway` | `CacheIsNewest`, `OverrideReachesBoiler`, `LinkRecovers`, `LossIsShown` |
| `master` | `CapIsACeiling`, `BoilerReadingWins`, `OutdoorTakeover`, `BoilerGetsWhatItTakes` |
| `settings` | `IsLedger`: the store implements `ProbeLedger`; `NoProbeTwice`, `ChannelsUnique`, `PromisesKept`, `CopiesAgree` |
| `probes` | `RoutedIsLastReading`, `GoneIsDropped`, `NoJumpRouted` |
| `session` | `OneShotOnce`, `ZombieBounded`, `OnlineTold`, `SessionComesBack` |

The violated properties state what a comment or a document of the repository
says; `findings` in `PROJECT.json` quotes each. What the runs say of each
component in a sentence is in `PROJECT.json`, as is the mutant of each property.

**Bounds and why they suffice.** `failsafe_demand`: the clock wraps after 3
units with a grace period of 1 and a pull of one unit, so that outages begin
before and after a wrap and in tick 0, a pull passes the end of the period, and
entry, hold and re-entry after a wrap all happen within the state space. One
commanded flow above every clamp, two failsafe flows, the default and the wire's
ceiling, and a boiler whose learned ceiling is the lower of the two give an edit
that moves the forced flow and a bound that moves a flow already forced. One
grace period: with several of them the theorems of section 4 say the same, and
`OutageReachesFailsafe` needs a period shorter than the wrap by more than a pull
(of the code's, 120 min is the longest, of 49 days). `outage`: the same clock
and a heal period of 2, so that the failsafe is forced before the heal restarts
the device and the clock wraps between the two; a threshold of two crashes and a
cap of two (the code: 3 and 20), so that a first crash, which may be of any run,
and a second one, which may not, differ. `ota`: three images, of which one
broken and one the factory's, are the cases the watchdog tells apart
(known-good, target, other); three attempts are the code's; three requests and
three faults allow an update, a second one that overtakes it and a reboot, each
cut by a power failure. `slave`: a ring of four (the code has eight) is filled,
wraps and rejects within six frames; the delays are the code's in units of 10
ms, scaled where only their order matters (`HealTicks` > `FrameTicks` >
`RespondTicks`, `WindowTicks` > two frames). `master`: the ceilings 59 and 64
and the wants 25, 45, 50, 63 and 70 (setpoint, curve, both clamped to the
learned 50..63 or not) put every want below, within the tolerance of, between
and above the ceilings, so that a cap is latched, lowered, raised and lifted;
two echoes latch (the code: three) and every second write probes (the code:
300th), three slots rotate (the code: eight), since only their order matters;
two outdoor temperatures tell the two sources apart. `gateway`: three ids over
two slots (the code: eight) force evictions and their return; the probe interval
and the hold time are 2 and 3 ticks, so that a probe comes before and after the
hold has expired. `settings`: three probes over two slots (the code: eight) make
the table full, refusals after a steal included, and give a save two slots to be
cut between; one custom name can be taken or free; two brightnesses can differ
or not; the probes are symmetric. `probes`: one probe and one device of another
family with room for one on the list, so that a scan chooses; six values of a
reading: gone, implausible, the power-on default, two good ones a step apart and
one that is a jump from the first; readings grow stale after two polls (the
code: six). `session`: sessions of three ticks and a back-off of one and two, so
that a rebind meets a back-off that has not run out and one that has; two orders
that are not yet acted on, so that a command is given again while its clear is
on the way.

**Fairness.** `Failsafe`: weak fairness of the stages of the loop, strong
fairness of the tick (an iteration that moves the clock happens again and
again): the loop runs and the clock counts, nothing is assumed of `setup()`, the
network or the owner. `OtaRollback`: weak fairness of the loop, strong
fairness of the due reboot and of time; faults and requests are bounded, which
`TargetSettles` needs (endless power failures inside 90 s settle nothing).
`OtSlave`: weak fairness of time and of the loop. `OtMaster`: weak fairness of a
poll that fails and of the rest of one that was answered (loop() polls for
ever), strong fairness of ageing; whether the boiler answers is a premise of
each liveness property, never assumed. `Gateway`: weak fairness of time and of
the end of an exchange; that the thermostat keeps asking is a premise. `Outage`:
weak fairness of the loop, strong fairness of the minute, of the due reboot and
of the reconnect that counts towards the heal (one is due each minute; an
iteration so slow that it misses its minute does not last for ever): nothing is
assumed of WiFi, whose loss `WifiLossEndsInSetup` has as its premise, and
nothing of `setup()`. `MqttSession`: weak fairness of the loop, strong fairness
of the tick, and of a connect that comes through: a broker in reach does not cut
every connect half-way. That it is in reach, and that the device does not crash
for ever, are premises. `SettingsStore` and `Probes` have safety properties
only.

## 4. Proofs

`FailsafeProofs` proves, for every clock modulus, every set of grace periods,
flows and learned bounds that satisfies the five assumptions of `Failsafe`:
`TypeOK`, `ForcedHeatStands`, `GraceRespected`, `FailsafeOnTime`,
`ReleaseKeepsCommands` and `QuietOutageRestored`.

None of these is inductive alone. The inductive invariant `IInv` adds

* `StandsIsMarked`: a field commanded during the outage implies that the
  head-end command mark is set, which is what makes the release keep the demand;
* `LoopLooks`: an outage is only on in a running loop;
* `ElapsedBelowTicks` and `TicksBelowElapsed`: modular elapsed time never
  exceeds the ticks counted, and falls short of them by at most one until the
  clock wraps (more only for an outage noticed in tick 0 and not looked at again
  in tick 1, which the history marks `untimed`); the first gives
  `GraceRespected`, the second `FailsafeOnTime`;
* `QuietSnapshot`: in a quiet outage the demand is the one it began with until
  FAILSAFE is entered, and from then on the snapshot is.

TLC checked `IInv` before it was proved. The proofs go stage by stage: one
lemma for each action and conjunct it can disturb, then the theorem by PTL.

For the device (`Outage`) a lemma (`DeviceSafety`) carries the theorems about
`Failsafe` over (`DeviceRespectsGrace`, `DeviceIsOnTime`, `DeviceHeatStands`);
it is no more than the way `Outage` is composed. The device's own theorems rest
on three invariants. `Counting`: a run that has come to two minutes has cleared
the counter, and the counter never exceeds the crashes in a row, up to the
threshold (`SafeModeIsEarned`: `setup()` takes the safe mode only after
`SafeModeAfter` crashes in a row, with no clean restart and no run of two
minutes between them; a `setup()` of any length counts, for only `loop()`
forgets). `Leaving`: a broker goes away only with a reboot on its way, or in
`setup()`, where no failsafe is in force (`StandaloneIsReleased`). `Timed`: the
heal's unsigned difference never exceeds the ticks it has found WiFi down, which
is `ElapsedBelowTicks` for the other clock (`HealIsPatient`).

`OtaRollbackProofs` proves `TypeOK`, `PendingIsPersisted`, `RevertsCapped` and
`AliveIsNotReverted` for any images, requests and power failures; the last is
about one boot, for a restart forgets the health it has seen. The
invariant adds `InStep` (a mounted watchdog holds in RAM what is in the file of
known-good and attempts), `UnmountedIsHarmless` (without a file system a target
was flashed in this very boot, so its reboot is pending and no pull starts),
`PullsAreCounted` (the attempts on file bound the pulls), `HealthIsRemembered`
(health seen in this boot is latched for the target, or a reboot is pending) and
`DownIsEmpty`.

`OtSlaveProofs` proves `TypeOK`, `RingIsFifo` and the refinement of
`RequestQueue` for every size of the ring and all delays with
`AnswerTicks >= RespondTicks`. `LoopInv` says that outside the provider the last
request is at least `RespondTicks` old, so that nothing is pushed back, and that
a pop reads what is there; `Counted` that a frame on the wire is newer than all
that were latched, which the queue's `Take` asks for.

`OtMasterProofs` proves `TypeOK` (inductive as it stands), `CapIsACeiling`,
`TSetWithinBounds` and `BoilerReadingWins` for all curves, setpoints, limits,
ceilings, tolerances and counts the four assumptions of `OtMaster` admit. The
argument for the cap: an echo lower than what was wanted was either of a full
write, and then is the ceiling, or of a write lowered to the old cap, and then a
cap that moves can only have moved down, to the ceiling (`SendRange`,
`LearnMoves`). For the bounds: `Target` is clamped after the curve, and `Send`
only lowers it (`TargetRange`). `ColderAsksForMore` is about the curve alone, for
every one the parser accepts: colder never asks for less, and what is asked lies
within the curve's flows (`QuotientGrows`, `CurveBetween`).

`GatewayProofs` proves `TypeOK`, `CacheIsNewest` and `OverrideReachesBoiler`
for every number of ids and slots; together they are inductive. `TypeOK` says
that no id sits in two slots (`PutPlace`: the slot `cachePut` chooses is the
only one that may hold the id), which turns the search of `cacheFind` into "the
slot of that id" (`NewestBySlot`).

`SettingsProofs` begins with what `ow_assign` does, as a theorem about every
table in which no probe sits twice (`AssignDoesWhatItIsAsked`): an accepted
request gives the probe the role and name asked for, makes it the only holder of
a channel, and changes nothing of any other probe but the former holder of that
channel. The lemmas under it (`TheHolder`, `StealTakes`, `AssignWrites`) turn
the searches for the first slot into "the slot". `LegacyKeysHoldTheChannels`:
migrating the two keys a save leaves for older firmware gives back the holders
of both channels.

Over these stand the properties of the store, for any number of slots, probes
and names. `TypeOK` (no run lists it, it is part of every proof), `NoProbeTwice`
and `CopiesAgree` rest on `IInv`. A save writes one slot at a time over an older
table, so old and new slots must be able to stand side by side: `Cross` says
that no probe is in one slot of the flash and in another of the RAM (`Apart`).
It is kept because an assignment moves no probe it finds and adds one only
where it is nowhere. `EachOnce` is `NoProbeTwice` over the table in flash
itself, `Migrated`, `Put`, `Saved` and `Routed` say how far a save has come.

`ChannelInv` makes `ChannelsUnique` inductive, channel by channel: the flash and
the slots still to be written may show two holders together only of the channel
whose assignment is being saved, and what a power failure leaves of that is
`torn` (`SaveSplits`). `PromiseInv` does the same for `PromisesKept`: of a probe
whose owner was told something, RAM and flash both say it at every key, because
a request about the probe voids the promise before its save begins (`Kept`,
`PromisePut`); on the ESP8266 what is stored, and what is about to be, is blank
or keeps every promise (`AllOrNothing`). `StoreIsALedger` puts them together
into the refinement of `ProbeLedger`: a request is a step of the ledger by
`AssignDoesWhatItIsAsked` (and `RefusalTakesTheChannel` for the late refusal), a
restart by the promises (`KeptInLedger`), and every write of a save stutters.

`ProbesProofs` proves `TypeOK`, `RoutedIsLastReading`, `GoneIsDropped` and
`NoJumpRouted` for all slots, probes and readings. `JudgedByShown` makes the
last one inductive: what a probe in use last handed on is still the value its
next reading is judged by, because a bad or absent reading (`Miss`) keeps it and
a change of role does not touch it. `ValidIsLast` says that a
probe whose last verdict was good shows the last value the bus returned (the
last good value is kept after a bad one, so that this is not true of every
probe), and `Dropped` that a probe found absent has no such verdict; what is
routed has one (`RoutedIsReading`, `ReadingIsValid`).

`MqttSessionProofs` proves `TypeOK`, `OneShotOnce`, `ZombieBounded` and
`OnlineTold` for every session age and back-off. `Paid`: each one-shot still to
be read, at the broker or in the socket, is covered by the credit. `Dying`: a
dead socket has been met for no longer than the session is old. `Shown`: when a
working session is shown as offline, that was the last will there was to
publish, and the heartbeat is due.

**Only model-checked.** Liveness rests on fairness and stays with TLC:
`OutageReachesFailsafe`, `WifiLossEndsInSetup`, `TargetSettles`,
`LatchedIsAnswered`, `OutdoorTakeover`, `BoilerGetsWhatItTakes`, `LinkRecovers`,
`LossIsShown`, `SessionComesBack`. Every safety property, action property and
refinement the passing runs check is also proved.

**Assumptions of the proofs** are the named `ASSUME`s of the modules: sizes and
delays are natural numbers, sets of inputs have their types, `OtSlave` has an
answer at least as long as the response delay, `MqttSession` a first back-off
no longer than its cap and a cap no longer than a session, `Failsafe` pulls
and `Outage` a heal period shorter than the clock's wrap.

## 5. Known disagreements

Three have a run, above. While modelling, more came up in which the code and the
repository's own text disagree; the models have what the code does.

* The repository disagrees with itself about the outdoor temperature:
  `docs/wiki/1-Wire-sensors.md:51,61` (with `Weather-compensation.md:92-95`,
  `Hardware.md:56` and `docs/hardware.md:121-123`) has an assigned, fresh and
  healthy 1-Wire probe override the boiler's value; `docs/wiki/Changelog.md:60-61`
  and `ot_master.h:104` have the boiler win whenever it has one. `applyInject_`
  (`ot_master.h:172-177`) does the second, which is `BoilerReadingWins`: the probe
  only fills in.
* The failsafe switched off while in force leaves the forced heat on:
  `failsafeLoop` (`main.cpp:95-104`) sets the state and undoes nothing;
  `hcs_failsafe.h:34` says of the switch "false -> always CONNECTED semantics".
* With the bus dead the 1-Wire probe never takes over the outdoor channel:
  the OpenTherm mark of the last reading expires in one slot of the rotation,
  which comes round only after a good Status (`ot_master.cpp:558`); the comment
  at `ot_master.cpp:507` says "Still allow 1-Wire backfill so outdoor/return
  stay live without OT".
* The stall heal can reset a frame that is being received, since it looks at the
  time of the last request and not of the last edge (`ot_slave.cpp:62-67`, "a
  COLLECTING frame that stalls (no stop edge) ages out").
* Auto-detection cannot find a thermostat: requests are counted in `service()`,
  which returns at once without a provider, and the provider is installed by the
  decision (`ot_slave.cpp:72`); `docs/design-gateway.md` says that two valid
  requests select the gateway.
* The rollback target is marked after the flash: `otaMarkTarget` comes when the
  image is written, verified and committed (`net_services.cpp:2000-2001`). The
  comment at `net_services.cpp:2027` ("Before every remote flash we persist the
  target URL") and `docs/wiki/OTA.md:57` ("Before flash: target URL saved") have
  it before; a power failure in between leaves the new image without its watch,
  which is a behaviour of `OtaRollback` (`Flash`, then `MarkTarget`).
* The sign of life is not MQTT alone: `docs/wiki/OTA.md:58-60` and the comment at
  `net_services.cpp:2028` name only MQTT, `otaRollbackTick` also takes a valid
  OpenTherm snapshot (`net_services.cpp:2078-2083`).
* The answer cache of the gateway has no age: `docs/design-gateway.md:141-142`
  says "never fabricate CH-on older than COMMAND_WATCHDOG_MS", and `route`
  answers from the cache for as long as the boiler is down; nothing uses that
  constant. `CacheIsNewest` is about the newest answer, however old.

Two things are surprising but contradict no text. An LED setting is lost at
every restart of an ESP8266, whose stored image has no field for it. A revert
whose download fails is not tried again in the same boot: nothing is pending in
RAM after it, which is all that `TargetSettles` says, and the target on file is
judged again by the next boot.

## 6. Not modelled

* **Payloads and text:** command parsing (pure, unit-tested on the host), JSON,
  pages, logs, boiler texts, discovery and the sensor topics. The change gates
  of the mirrors, which take a failed publish for a sent one, are a hazard
  without a property: no document promises that a mirror is repaired.
* **A retained `gw/set_mode`:** it restarts the device at each connect, and
  `MqttSession` has that behaviour, but no property covers it: each such restart
  is a `Crash`, and `SessionComesBack` has as its premise that those end.
* **What a refused read teaches:** `OtMaster` takes the bounds a boiler may
  report (`Limits`) as already filtered by `slowRead_`; that the filter keeps
  bad ones out is not checked.
* **Bits:** OpenTherm's encoding, the bit timing of `receiveFrame_`, the 1-Wire
  bus itself, LED patterns.
* **OtMaster's other writes:** the DHW setpoint, the throttled writes, the fault
  history and the diagnostics, which are independent exchanges of the rotation.
* **Composition of the failsafe with the boiler's write path:** in the gateway
  role and in the safe mode the forced demand reaches no boiler; the choice
  between the roles is made at boot, in `OtSlave` and in `Outage`.
* **Libraries and other images:** ArduinoOTA, cryptography, the recovery image,
  the signing script, login and lockout.
