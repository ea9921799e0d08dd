------------------------------- MODULE Outage -------------------------------
(***************************************************************************)
(* A network outage as the whole device lives it: the failsafe (Failsafe), *)
(* the WiFi self-heal of NetServices::loop, the reboot it schedules, a     *)
(* setup() that cannot finish without WiFi, and the count of unclean boots *)
(* that ends in the OpenTherm safe mode.                                   *)
(*                                                                         *)
(* Every action is one of Failsafe's with what the other parts do in the   *)
(* same stage, so that what holds of Failsafe holds of the device; the     *)
(* requests are the edits of the failsafe settings and those that end in a *)
(* reboot, for a command of the heat demand changes nothing here.          *)
(***************************************************************************)
EXTENDS Failsafe

CONSTANTS
  HealTicks,      \* kRestartAfterMs, in ticks (10 in the code)
  MinForced,      \* kMinForced (2)
  SafeModeAfter,  \* kOtSafeModeUnclean (3)
  UncleanCap      \* unclean_boots never exceeds this (20)

ASSUME OutageAssumption ==
  /\ HealTicks \in 1 .. ClockMod - 1 /\ MinForced \in Nat
  /\ SafeModeAfter \in Nat \ {0} /\ UncleanCap \in Nat /\ SafeModeAfter <= UncleanCap

VARIABLES
  wifi_down_since_ms_,  \* 0 while WiFi is up
  wifi_force_count_,    \* reconnects once a minute, counted up to MinForced
  reboot_pending_,
  unclean_boots,        \* in NVS
  ot_safe_mode,
  healed,               \* loop()'s static: this run has cleared unclean_boots
  seen,                 \* history: ticks net.loop has found WiFi down in one go
  crashes               \* history: crashes since a clean boot, or since loop() last
                        \* began an iteration at tick 2 or later

healVars == <<wifi_down_since_ms_, wifi_force_count_, reboot_pending_, seen>>
bootVars == <<unclean_boots, ot_safe_mode, healed, crashes>>
allVars  == <<vars, healVars, bootVars>>

NotSeen == [on |-> FALSE, ticks |-> 0]
Bump(n, top) == IF n < top THEN n + 1 ELSE n

WifiDownFor == IF now >= wifi_down_since_ms_ THEN now - wifi_down_since_ms_
                                             ELSE now + ClockMod - wifi_down_since_ms_
-----------------------------------------------------------------------------
OutageInit ==
  /\ Init
  /\ wifi_down_since_ms_ = 0 /\ wifi_force_count_ = 0 /\ reboot_pending_ = FALSE
  /\ seen = NotSeen
  /\ unclean_boots = 0 /\ ot_safe_mode = FALSE /\ healed = FALSE
  /\ crashes = 0

\* The boot counts itself: a panic, a watchdog or a brownout is unclean, a
\* power cycle and ESP.restart() are not.
BootCount(clean) == IF clean THEN 0 ELSE Bump(unclean_boots, UncleanCap)
Boot(clean) ==
  /\ unclean_boots' = BootCount(clean)
  /\ ot_safe_mode' = (unclean_boots' >= SafeModeAfter)
  /\ crashes' = IF clean THEN 0 ELSE Bump(crashes, SafeModeAfter)
  /\ healed' = FALSE
  /\ wifi_down_since_ms_' = 0 /\ wifi_force_count_' = 0 /\ reboot_pending_' = FALSE
  /\ seen' = NotSeen

\* A crash, a power cycle, or a restart that is not scheduled.
Reset == \E clean \in BOOLEAN : Restart /\ Boot(clean)

\* setup(): beginWifi gives up after its portal's timeout and the device
\* restarts; or it crashes; or it joins, and the loop begins.
BootFails == pc = "setup" /\ ~wifi /\ Boot(TRUE) /\ UNCHANGED vars
BootDies  == pc = "setup" /\ (\E clean \in BOOLEAN : Boot(clean)) /\ UNCHANGED vars

\* The first lines of loop() forget the unclean boots once, when millis() >
\* 90000: never in tick 0, at some moment of tick 1, always after it.
LoopTopForgetful ==
  /\ healed' = TRUE /\ UNCHANGED unclean_boots
  /\ crashes' = IF now' > 1 THEN 0 ELSE crashes
  /\ UNCHANGED ot_safe_mode
LoopTop ==
  /\ healed' \in IF healed \/ now' > 1 THEN {TRUE} ELSE IF now' = 1 THEN BOOLEAN ELSE {FALSE}
  /\ unclean_boots' = IF healed' /\ ~healed THEN 0 ELSE unclean_boots
  /\ crashes' = IF now' > 1 THEN 0 ELSE crashes
  /\ UNCHANGED ot_safe_mode

BootDone == SetupDone /\ LoopTop /\ UNCHANGED healVars

Outside == (WifiChanges \/ SessionDrops \/ LearnBounds) /\ UNCHANGED <<healVars, bootVars>>

SeenLonger(d) == [seen EXCEPT !.ticks = IF seen.on THEN ClampTo(0, ClockMod, @ + d) ELSE @]
MinutePasses ==
  /\ Tick /\ LoopTop
  /\ seen' = SeenLonger(1)
  /\ UNCHANGED <<wifi_down_since_ms_, wifi_force_count_, reboot_pending_>>
-----------------------------------------------------------------------------
(* NetServices::loop *)

\* wifi_heal_decide with connected = false.
HealDecide(down, forced, pending) == ~pending /\ down >= HealTicks /\ forced >= MinForced

\* bulletproofWifiTick(): one forced reconnect a minute at most, so only in an
\* iteration that followed a tick, and none in a minute of slow iterations.
WifiIsUpNoReset ==
  /\ wifi_force_count_' = 0 /\ seen' = NotSeen
  /\ UNCHANGED <<wifi_down_since_ms_, reboot_pending_>>
WifiIsUp ==
  /\ wifi_down_since_ms_' = 0 /\ wifi_force_count_' = 0 /\ seen' = NotSeen
  /\ UNCHANGED reboot_pending_
WifiIsDownRearming ==
  /\ seen' = [seen EXCEPT !.on = TRUE]
  /\ wifi_down_since_ms_' = now
  /\ wifi_force_count_' \in
       {wifi_force_count_} \cup
       (IF pc = "net" THEN {Bump(wifi_force_count_, MinForced)} ELSE {})
  /\ UNCHANGED reboot_pending_
WifiIsDown ==
  LET fresh == wifi_down_since_ms_ = 0
      down  == IF fresh THEN 0 ELSE WifiDownFor
  IN  /\ seen' = [seen EXCEPT !.on = TRUE]
      /\ IF HealDecide(down, wifi_force_count_, reboot_pending_)
           THEN /\ wifi_down_since_ms_' = 0 /\ wifi_force_count_' = 0
                /\ reboot_pending_' = TRUE
           ELSE /\ wifi_down_since_ms_' = IF fresh THEN now ELSE wifi_down_since_ms_
                /\ wifi_force_count_' \in
                     {wifi_force_count_} \cup
                     (IF pc = "net" THEN {Bump(wifi_force_count_, MinForced)} ELSE {})
                /\ UNCHANGED reboot_pending_
WifiTick == IF wifi THEN WifiIsUp ELSE WifiIsDown

\* A request that ends in scheduleReboot; a save of the settings is one of them.
RebootsUnlessRehosted == SettingsSaved /\ reboot_pending_' = (reboot_pending_ \/ mqtt_host' = mqtt_host)
Reboots == SettingsSaved /\ reboot_pending_' = TRUE

\* handleClient(): no request, an edit of the failsafe settings, or one that
\* ends in scheduleReboot.
NetLoop ==
  /\ pc \in {"top", "net"} /\ pc' = "mqtt"
  /\ WifiTick
  /\ NoRequest \/ (wifi /\ \E e \in BOOLEAN, f \in FsFlows, g \in Graces : FailsafeCfg(e, f, g))
  /\ UNCHANGED <<wifi, session, now, bounds, bootVars>>
NetLoopReboots ==
  /\ pc \in {"top", "net"} /\ pc' = "mqtt" /\ wifi
  /\ wifi_down_since_ms_' = 0 /\ wifi_force_count_' = 0 /\ seen' = NotSeen
  /\ Reboots
  /\ UNCHANGED <<wifi, session, now, bounds, bootVars>>

\* The scheduled reboot is due.
RebootDue == pc \in {"top", "net"} /\ reboot_pending_ /\ Restart /\ Boot(TRUE)

MqttLoop ==
  /\ pc = "mqtt"
  /\ \/ pc' = "fs" /\ ~(wifi /\ mqtt_host) /\ session' = session /\ NoRequest
     \/ pc' = "fs" /\ wifi /\ mqtt_host /\ session' \in BOOLEAN /\ NoRequest
     \/ /\ pc' \in {"mqtt", "fs"}
        /\ wifi /\ mqtt_host /\ session /\ session' = session
        /\ \E e \in BOOLEAN, f \in FsFlows, g \in Graces : FailsafeCfg(e, f, g)
  /\ UNCHANGED <<wifi, now, bounds, healVars, bootVars>>
MqttLoopReboots ==
  /\ pc = "mqtt" /\ pc' \in {"mqtt", "fs"}
  /\ wifi /\ mqtt_host /\ session /\ session' = session
  /\ Reboots
  /\ UNCHANGED <<wifi, now, bounds, wifi_down_since_ms_, wifi_force_count_, seen, bootVars>>

\* checkForAutoUpdate, or a pull asked for: none while a reboot is pending; one
\* that succeeds schedules its own.
PullBlocks ==
  /\ ~reboot_pending_ /\ reboot_pending_' \in BOOLEAN
  /\ \E d \in 1 .. PullTicks : Pull(d) /\ seen' = SeenLonger(d)
  /\ UNCHANGED <<wifi_down_since_ms_, wifi_force_count_, bootVars>>

\* failsafeLoop, and the next iteration begins.
FailsafeRuns == FailsafeStep /\ LoopTop /\ UNCHANGED healVars
-----------------------------------------------------------------------------
Iterate == NetLoop \/ NetLoopReboots \/ RebootDue \/ MqttLoop \/ MqttLoopReboots
             \/ PullBlocks \/ FailsafeRuns \/ MinutePasses
OutageNext == Iterate \/ Reset \/ BootFails \/ BootDies \/ BootDone \/ Outside

\* loop() keeps running and millis() counting; a scheduled reboot falls due; a
\* minute without WiFi ends in a reconnect.  Nothing is asked of setup().
Forced == NetLoop /\ wifi_force_count_' > wifi_force_count_
OutageFairness ==
  /\ WF_allVars(Iterate) /\ SF_allVars(MinutePasses)
  /\ SF_allVars(RebootDue) /\ SF_allVars(Forced)

OutageSpec == OutageInit /\ [][OutageNext]_allVars /\ OutageFairness
-----------------------------------------------------------------------------
(* Properties *)

OutageTypeOK ==
  /\ wifi_down_since_ms_ \in 0 .. ClockMod - 1 /\ wifi_force_count_ \in 0 .. MinForced
  /\ reboot_pending_ \in BOOLEAN
  /\ unclean_boots \in 0 .. UncleanCap /\ ot_safe_mode \in BOOLEAN /\ healed \in BOOLEAN
  /\ seen \in [on : BOOLEAN, ticks : 0 .. ClockMod]
  /\ crashes \in 0 .. SafeModeAfter

\* setup() takes the safe mode, which leaves the boiler without its master, only
\* after SafeModeAfter crashes in a row, with no clean restart between them and no
\* run whose loop() came to two minutes of uptime.  (Only loop() forgets: a
\* setup() that takes longer and crashes counts.)
SafeModeMeansCrashLoop == pc = "setup" /\ ot_safe_mode => crashes >= SafeModeAfter

\* main.cpp: "no broker configured = standalone, never failsafe".  A broker
\* taken away while FAILSAFE is in force leaves nobody to release the forced
\* demand, for failsafeLoop returns at once: the device must be restarting.
NoBrokerNoFailsafe == ~mqtt_host /\ fs_state = "FAILSAFE" => reboot_pending_

\* The heal schedules its restart only when net.loop has found WiFi down, without
\* one good sighting, for the whole heal period, wherever millis() wraps.
HealAfterSolidOutage ==
  [][~wifi /\ reboot_pending_' /\ ~reboot_pending_ =>
       seen.on /\ seen.ticks >= HealTicks]_allVars

\* WiFi lost for good ends the loop for good: the heal restarts the device, and
\* setup() does not come through without WiFi.
WifiLossEndsInSetup == <>[]~wifi => <>[](pc = "setup")
-----------------------------------------------------------------------------
(* What a document says and the code does not do *)

\* failsafe.md: "A reboot with the network still down re-enters the same path:
\* after boot + grace without a link, failsafe heating starts".  Not even on a
\* device that never crashes: while WiFi is down the only step setup() can take
\* is BootFails, back to where it was.
RebootReentersFailsafe ==
  [](unclean_boots = 0) =>
    (pc = "setup" /\ ~wifi /\ mqtt_host /\ settings.enable)
      ~> (fs_state = "FAILSAFE" \/ wifi \/ ~settings.enable)
=============================================================================
