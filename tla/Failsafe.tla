------------------------------ MODULE Failsafe ------------------------------
(***************************************************************************)
(* The connection-loss failsafe of the firmware: failsafeLoop and          *)
(* applyFailsafe (main.cpp), the heat demand of OtMaster it takes over,    *)
(* the two paths a head-end command can take (MQTT and the portal), the    *)
(* two paths that edit the failsafe settings, and restarts.                *)
(*                                                                         *)
(* loop() is one thread: an iteration is net.loop (one HTTP request), then *)
(* mqtt.loop (a reconnect or one packet), then failsafeLoop.  `pc' is the  *)
(* stage that runs next; WiFi and the broker change between any two        *)
(* stages.  A save of the other settings replaces the broker in the        *)
(* running device; the restart it schedules is Restart.                    *)
(* One tick of the clock is one grace-period unit, and millis()            *)
(* wraps after ClockMod ticks.  Temperatures are whole degrees, on which   *)
(* the rounding of setFlowSetpoint to half degrees changes nothing.        *)
(***************************************************************************)
EXTENDS Integers

CONSTANTS
  ClockMod,       \* millis() counts modulo this (2^32 ms in the code)
  PullTicks,      \* how long the pull of an image may block the loop, in ticks
  Graces,         \* grace periods the owner may set, in ticks
  FsFlows,        \* failsafe flow temperatures an edit may carry
  Flows,          \* flow setpoints a head-end command may carry
  LearnedBounds   \* MaxTSet bounds the boiler may report

DefaultFlow == 45                     \* DEFAULT_FLOW_SETPOINT_C
NAN == 0                              \* no temperature: outside every range
WireBounds == [lb |-> 10, ub |-> 90]  \* setFlowSetpoint, bounds not learned

ASSUME ClockAssumption == ClockMod \in Nat /\ ClockMod > 1
ASSUME PullAssumption  == PullTicks \in Nat /\ PullTicks < ClockMod
ASSUME GraceAssumption == Graces # {} /\ Graces \subseteq 1 .. ClockMod - 1
ASSUME FlowAssumption  == FsFlows # {} /\ FsFlows \subseteq Nat /\ Flows \subseteq Nat
ASSUME BoundsAssumption ==
  LearnedBounds \subseteq {b \in [lb : 0 .. 90, ub : 20 .. 90] : b.lb <= b.ub}

VARIABLES
  pc,             \* stage of loop() that runs next, or "setup"
  wifi, session,  \* WiFi.status() is WL_CONNECTED; mqtt.connected()
  mqtt_host,      \* settings.mqtt_host is not empty
  now,            \* millis()
  lost_since_ms,  \* failsafeLoop's static; 0 while the link is up
  fs_state, fs_prev,
  settings,       \* the persisted fs_enable, fs_flow_c, fs_grace_min
  demand,         \* OtMaster's ch_enable_ and flow_setpoint_
  failsafe_, headend_cmd_,
  bounds,         \* MaxTSet bounds setFlowSetpoint clamps to
  outage          \* history of the outage failsafeLoop is looking at

vars == <<pc, wifi, session, mqtt_host, now, lost_since_ms, fs_state, fs_prev,
          settings, demand, failsafe_, headend_cmd_, bounds, outage>>
linkVars   == <<wifi, session, mqtt_host>>
policyVars == <<lost_since_ms, fs_state, fs_prev>>
otVars     == <<demand, failsafe_, headend_cmd_>>

States    == {"CONNECTED", "HOLD", "FAILSAFE"}
Stages    == {"setup", "top", "net", "mqtt", "fs"}
Fields    == {"ch", "flow"}
Celsius   == 1 .. 90
Demand    == [ch : BOOLEAN, flow : Celsius]
AllBounds == LearnedBounds \cup {WireBounds}
NoSnapshot == [ch |-> FALSE, flow |-> NAN]
Snapshot  == Demand \cup {NoSnapshot}
Settings  == [enable : BOOLEAN, flow : 20 .. 90, grace : Graces]

(***************************************************************************)
(* The history: whether failsafeLoop has seen the link down and not up     *)
(* since, for how many ticks (counted up to ClockMod), the demand at that  *)
(* moment (none once a command was handled, or FAILSAFE left by disabling  *)
(* it: the outage is no longer quiet), and the fields commanded since the  *)
(* failsafe forced the demand; `untimed' when an outage noticed in tick 0  *)
(* of millis() may not have been looked at in tick 1: a pull blocked the   *)
(* loop, or it had no broker.                                              *)
(***************************************************************************)
Outages == [on : BOOLEAN, ticks : 0 .. ClockMod, before : Snapshot,
            stands : SUBSET Fields, untimed : BOOLEAN]
NoOutage == [on |-> FALSE, ticks |-> 0, before |-> NoSnapshot,
             stands |-> {}, untimed |-> FALSE]

LinkUp == wifi /\ session
-----------------------------------------------------------------------------
(* Pure helpers *)

ClampTo(lo, hi, v) == IF v < lo THEN lo ELSE IF v > hi THEN hi ELSE v

\* OtMaster::setFlowSetpoint under bounds b.
UnclampedFlow(b, c) == c
ClampFlow(b, c) == ClampTo(IF b.lb < 1 THEN 1 ELSE b.lb, b.ub, c)

\* now - lost_since_ms in unsigned arithmetic.
Elapsed == IF now >= lost_since_ms THEN now - lost_since_ms
                                   ELSE now + ClockMod - lost_since_ms

\* fs_evaluate with link_up = false.
Evaluate(elapsed) ==
  IF ~settings.enable THEN "CONNECTED"
  ELSE IF elapsed >= settings.grace THEN "FAILSAFE" ELSE "HOLD"

\* The demand the failsafe forces with settings s.
ForcedDemand(s) == [ch |-> TRUE, flow |-> ClampFlow(bounds, s.flow)]
-----------------------------------------------------------------------------
BootDemand == [ch |-> FALSE, flow |-> DefaultFlow]

Init ==
  /\ wifi \in BOOLEAN
  /\ mqtt_host \in BOOLEAN
  /\ settings \in [enable : BOOLEAN, flow : {ClampTo(20, 90, f) : f \in FsFlows},
                   grace : Graces]
  /\ pc = "setup"       /\ session = FALSE   /\ now = 0
  /\ lost_since_ms = 0  /\ fs_state = "CONNECTED"
  /\ fs_prev = NoSnapshot
  /\ demand = BootDemand /\ failsafe_ = FALSE /\ headend_cmd_ = FALSE
  /\ bounds = WireBounds /\ outage = NoOutage

\* Power loss, a panic, ESP.restart() from a command, an update or the WiFi
\* heal: RAM is initialised anew, the settings come back from flash.
Restart ==
  /\ pc # "setup"
  /\ pc' = "setup"       /\ session' = FALSE   /\ now' = 0
  /\ lost_since_ms' = 0  /\ fs_state' = "CONNECTED"
  /\ fs_prev' = NoSnapshot
  /\ demand' = BootDemand /\ failsafe_' = FALSE /\ headend_cmd_' = FALSE
  /\ bounds' = WireBounds /\ outage' = NoOutage
  /\ UNCHANGED <<wifi, mqtt_host, settings>>

\* beginWifi comes back only with WiFi up, after however long the join or the
\* portal took, and with the broker the portal's form or the build gave it;
\* without WiFi the device restarts into the same place.
SetupDone ==
  /\ pc = "setup" /\ wifi
  /\ pc' = "top"
  /\ now' \in 0 .. ClockMod - 1
  /\ mqtt_host' \in BOOLEAN
  /\ UNCHANGED <<wifi, session, policyVars, settings, otVars, bounds, outage>>
-----------------------------------------------------------------------------
(* The environment *)

WifiChanges ==
  /\ wifi' = ~wifi
  /\ UNCHANGED <<pc, session, mqtt_host, now, policyVars, settings, otVars, bounds, outage>>

SessionDrops ==
  /\ session /\ session' = FALSE
  /\ UNCHANGED <<pc, wifi, mqtt_host, now, policyVars, settings, otVars, bounds, outage>>

\* slowRead_ learns the boiler's MaxTSet bounds (ID 49).
LearnBounds ==
  /\ pc # "setup"
  /\ bounds' \in LearnedBounds
  /\ UNCHANGED <<pc, linkVars, now, policyVars, settings, otVars, outage>>
-----------------------------------------------------------------------------
(* What a message or a request does *)

\* A command for the fields fs: noteHeadEndCommand, setChEnable, setFlowSetpoint.
Command(fs, ch, flow) ==
  /\ demand' = [ch   |-> IF "ch" \in fs THEN ch ELSE demand.ch,
                flow |-> IF "flow" \in fs THEN ClampFlow(bounds, flow) ELSE demand.flow]
  /\ headend_cmd_' = TRUE
  /\ outage' = [outage EXCEPT !.before = NoSnapshot,
                              !.stands = IF fs_state = "FAILSAFE" THEN @ \cup fs ELSE @]
  /\ UNCHANGED <<mqtt_host, settings, policyVars, failsafe_>>

\* An edit of the failsafe settings, saved at once (onFailsafeCfg, /api/failsafe).
EditWithoutForce(enable, flow, grace) ==
  /\ settings' = [enable |-> enable, flow |-> ClampTo(20, 90, flow), grace |-> grace]
  /\ outage' = IF fs_state = "FAILSAFE" /\ enable THEN [outage EXCEPT !.stands = {}] ELSE outage
  /\ UNCHANGED <<mqtt_host, demand, headend_cmd_, policyVars, failsafe_>>
FailsafeCfg(enable, flow, grace) ==
  /\ settings' = [enable |-> enable, flow |-> ClampTo(20, 90, flow), grace |-> grace]
  /\ IF fs_state = "FAILSAFE" /\ enable
       THEN /\ demand' = ForcedDemand(settings')
            /\ outage' = [outage EXCEPT !.stands = {}]
       ELSE UNCHANGED <<demand, outage>>
  /\ UNCHANGED <<mqtt_host, headend_cmd_, policyVars, failsafe_>>

\* applySettingsJson: the broker is replaced at once, the restart comes 1.5 s
\* after the last save.
SettingsSaved == mqtt_host' \in BOOLEAN /\ UNCHANGED <<settings, otVars, policyVars, outage>>

\* /api/control clamps the flow it is given before setFlowSetpoint does.
PortalRequest ==
  \/ \E fs \in SUBSET Fields \ {{}}, ch \in BOOLEAN, f \in Flows :
       Command(fs, ch, ClampTo(20, 90, f))
  \/ \E e \in BOOLEAN, f \in FsFlows, g \in Graces : FailsafeCfg(e, f, g)
  \/ SettingsSaved

MqttMessage ==
  \/ \E ch \in BOOLEAN : Command({"ch"}, ch, demand.flow)
  \/ \E f \in Flows : Command({"flow"}, demand.ch, f)
  \/ \E e \in BOOLEAN, f \in FsFlows, g \in Graces : FailsafeCfg(e, f, g)
  \/ SettingsSaved

NoRequest == UNCHANGED <<mqtt_host, settings, otVars, policyVars, outage>>
-----------------------------------------------------------------------------
(* One iteration of loop() *)

\* d ticks of millis(), also on the history's account.
Later(d)   == IF now + d < ClockMod THEN now + d ELSE now + d - ClockMod
Counted(d) == IF outage.on THEN ClampTo(0, ClockMod, outage.ticks + d) ELSE outage.ticks

\* d ticks let all of tick 1 go by without a look at an outage noticed in tick 0.
Unlooked(d) == outage.untimed \/ (outage.on /\ outage.ticks = now /\ now <= 1 /\ now + d > 1)

\* The clock moves at most one tick in an iteration that pulls no image: the
\* loop watchdog bounds it to 20 s and a tick is a minute.
Tick ==
  /\ pc = "top" /\ pc' = "net"
  /\ now' = Later(1)
  /\ outage' = [outage EXCEPT !.ticks = Counted(1)]
  /\ UNCHANGED <<linkVars, policyVars, settings, otVars, bounds>>

\* A pull takes the loop off the watchdog and blocks it, before failsafeLoop
\* has its turn; the session may be gone after it, or just made.
Pull(d) ==
  /\ pc = "mqtt" /\ pc' = "fs" /\ wifi
  /\ now' = Later(d)
  /\ outage' = [outage EXCEPT !.ticks = Counted(d), !.untimed = Unlooked(d)]
  /\ session' \in IF mqtt_host THEN BOOLEAN ELSE {session}
  /\ UNCHANGED <<wifi, mqtt_host, policyVars, settings, otVars, bounds>>

\* net.loop: at most one HTTP request.
Net ==
  /\ pc \in {"top", "net"} /\ pc' = "mqtt"
  /\ NoRequest \/ (wifi /\ PortalRequest)
  /\ UNCHANGED <<wifi, session, now, bounds>>

\* mqtt.loop: reconnect when the session is gone, a packet when it is not (more
\* than one when a publish fails and drains the socket), or a rebind of an old
\* session.
Mqtt ==
  /\ pc = "mqtt"
  /\ \/ pc' = "fs" /\ ~(wifi /\ mqtt_host) /\ session' = session /\ NoRequest
     \/ pc' = "fs" /\ wifi /\ mqtt_host /\ session' \in BOOLEAN /\ NoRequest
     \/ /\ pc' \in {"mqtt", "fs"}
        /\ wifi /\ mqtt_host /\ session /\ session' = session /\ MqttMessage
  /\ UNCHANGED <<wifi, now, bounds>>

\* applyFailsafe(true)
EngageLateSnapshot ==
  /\ demand' = ForcedDemand(settings)
  /\ fs_prev' = demand'
  /\ failsafe_' = TRUE
Engage ==
  /\ fs_prev' = demand
  /\ failsafe_' = TRUE
  /\ demand' = ForcedDemand(settings)

\* applyFailsafe(false): put the snapshot back unless a command came.
ReleaseOverwriting ==
  /\ failsafe_' = FALSE
  /\ headend_cmd_' = FALSE
  /\ demand' = [ch   |-> demand.ch /\ fs_prev.ch,
                flow |-> ClampFlow(bounds, fs_prev.flow)]
Release ==
  /\ failsafe_' = FALSE
  /\ headend_cmd_' = FALSE
  /\ demand' = IF headend_cmd_ THEN demand
               ELSE [ch   |-> demand.ch /\ fs_prev.ch,
                     flow |-> IF fs_prev.flow = NAN THEN demand.flow
                              ELSE ClampFlow(bounds, fs_prev.flow)]

\* failsafeLoop(true)
LinkIsUpNoReset ==
  /\ IF fs_state = "FAILSAFE" THEN Release ELSE UNCHANGED otVars
  /\ fs_state' = "CONNECTED"
  /\ outage' = NoOutage
  /\ UNCHANGED <<fs_prev, lost_since_ms>>
LinkIsUp ==
  /\ lost_since_ms' = 0
  /\ IF fs_state = "FAILSAFE" THEN Release ELSE UNCHANGED otVars
  /\ fs_state' = "CONNECTED"
  /\ outage' = NoOutage
  /\ UNCHANGED fs_prev

\* The history of an outage when failsafeLoop(false) has evaluated to st.
OutageSeen(st) ==
  LET o == IF outage.on THEN outage
           ELSE [NoOutage EXCEPT !.on = TRUE, !.before = demand]
  IN  [o EXCEPT !.before = IF fs_state = "FAILSAFE" /\ st # "FAILSAFE" THEN NoSnapshot ELSE @,
                !.stands = IF st = fs_state THEN @ ELSE {}]

\* failsafeLoop(false)
LinkIsDownRearming ==
  /\ lost_since_ms' = now
  /\ LET st == Evaluate(0)
     IN  /\ fs_state' = st
         /\ outage' = OutageSeen(st)
  /\ UNCHANGED <<otVars, fs_prev>>
LinkIsDown ==
  /\ lost_since_ms' = IF lost_since_ms = 0 THEN now ELSE lost_since_ms
  /\ LET st == Evaluate(IF lost_since_ms = 0 THEN 0 ELSE Elapsed)
     IN  /\ fs_state' = st
         /\ outage' = OutageSeen(st)
         /\ IF st = "FAILSAFE" /\ fs_state # "FAILSAFE"
              THEN Engage /\ UNCHANGED headend_cmd_
              ELSE UNCHANGED <<otVars, fs_prev>>

FailsafeStep ==
  /\ pc = "fs" /\ pc' = "top"
  /\ \/ /\ ~mqtt_host /\ UNCHANGED <<policyVars, otVars>>
        /\ outage' = [outage EXCEPT !.untimed = Unlooked(1)]
     \/ mqtt_host /\ LinkUp /\ LinkIsUp
     \/ mqtt_host /\ ~LinkUp /\ LinkIsDown
  /\ UNCHANGED <<linkVars, now, settings, bounds>>

LoopStep    == Tick \/ Net \/ Mqtt \/ (\E d \in 1 .. PullTicks : Pull(d)) \/ FailsafeStep
Environment == WifiChanges \/ SessionDrops \/ LearnBounds \/ Restart
Next        == LoopStep \/ SetupDone \/ Environment

\* loop() never stops running, so that a pull ends, and millis() never stops
\* counting; nothing is asked of setup(), the network, the owner or the boiler.
Fairness == WF_vars(LoopStep) /\ SF_vars(Tick)

Safety == Init /\ [][Next]_vars
Spec   == Safety /\ Fairness
-----------------------------------------------------------------------------
(* Properties *)

\* Every variable keeps its type: no command, edit, restore or learned bound
\* puts a demand or a setting outside what the boiler may be sent.
TypeOK ==
  /\ pc \in Stages
  /\ wifi \in BOOLEAN /\ session \in BOOLEAN /\ mqtt_host \in BOOLEAN
  /\ now \in 0 .. ClockMod - 1 /\ lost_since_ms \in 0 .. ClockMod - 1
  /\ fs_state \in States
  /\ fs_prev \in Snapshot
  /\ settings \in Settings
  /\ demand \in Demand /\ failsafe_ \in BOOLEAN /\ headend_cmd_ \in BOOLEAN
  /\ bounds \in AllBounds
  /\ outage \in Outages

\* While the failsafe is in force, weather compensation is bypassed, and
\* whatever no command has touched since the demand was last forced is still
\* CH on at the owner's failsafe flow (as some bounds clamp it), through every
\* edit of the settings, restart and re-entry.
ForcedHeatStands ==
  fs_state = "FAILSAFE" =>
    /\ failsafe_ /\ outage.on
    /\ "ch" \notin outage.stands => demand.ch
    /\ "flow" \notin outage.stands /\ settings.enable =>
         \E b \in AllBounds : demand.flow = ClampFlow(b, settings.flow)

\* FAILSAFE is entered only by an enabled device whose loop has seen the link
\* down without a break for the grace period in force, wherever millis() wraps
\* and whenever the owner edits the period.
GraceRespected ==
  [][fs_state # "FAILSAFE" /\ fs_state' = "FAILSAFE" =>
       settings.enable /\ outage.on /\ outage.ticks >= settings.grace]_vars

\* And it is entered on time: a failsafeLoop that finds the link down one tick
\* beyond the grace period ends in FAILSAFE, however long a pull kept the loop
\* from looking, up to the wrap of millis().  The tick covers an outage first
\* seen when millis() is 0, which the sentinel takes for no outage until the
\* next look; when that look is kept waiting too, the outage is left out.
FailsafeOnTime ==
  [][FailsafeStep /\ mqtt_host /\ ~LinkUp /\ settings.enable /\ outage.on
       /\ ~outage.untimed /\ outage.ticks > settings.grace /\ outage.ticks < ClockMod
       => fs_state' = "FAILSAFE"]_vars

Quiet    == outage.before # NoSnapshot
Releases == fs_state = "FAILSAFE" /\ FailsafeStep /\ mqtt_host /\ LinkUp

\* A command handled after the failsafe forced the demand survives the release
\* (main.cpp: restoring the snapshot used to throw it away).
ReleaseKeepsCommands ==
  [][Releases => /\ "ch" \in outage.stands => demand'.ch = demand.ch
                 /\ "flow" \in outage.stands => demand'.flow = demand.flow]_vars

\* When no command was handled since the last release and FAILSAFE, once entered,
\* stood for the rest of the outage, the release puts back the demand there was when
\* the outage was noticed, as the bounds now known clamp it.
QuietOutageRestored ==
  [][Releases /\ ~headend_cmd_ /\ Quiet =>
       demand' = [ch |-> outage.before.ch, flow |-> ClampFlow(bounds, outage.before.flow)]]_vars

\* A link lost for good ends in FAILSAFE, and keeps coming back to it, on an
\* enabled device that has left setup() for good.
OutageReachesFailsafe ==
  <>[](mqtt_host /\ ~LinkUp /\ settings.enable /\ pc # "setup") =>
    []<>(fs_state = "FAILSAFE")
-----------------------------------------------------------------------------
(* What the code's comments and documents say and the code does not do *)

\* main.cpp: "A command that arrived while the link was down is the head-end's
\* current wish [...] If nothing arrived, put the previous demand back."
ReleaseRestores ==
  [][Releases /\ Quiet =>
       demand' = [ch |-> outage.before.ch, flow |-> ClampFlow(bounds, outage.before.flow)]]_vars
=============================================================================
