--------------------------- MODULE FailsafeProofs ---------------------------
(***************************************************************************)
(* Proofs about Failsafe for every clock width, every set of grace         *)
(* periods, temperatures and boiler bounds.  IInv is the inductive         *)
(* invariant; the theorems of the end read the properties off it.  They    *)
(* are about Safety, which Spec implies, and so does the specification of  *)
(* the whole device in Outage: the second half shows that the device with  *)
(* its self-heal, reboots and failing boots implements Failsafe, so that   *)
(* what is proved of the heat demand holds there, and that the OpenTherm   *)
(* safe mode is only for crash loops and the heal only for outages that    *)
(* net.loop has seen without a break.                                      *)
(***************************************************************************)
EXTENDS Outage, TLAPS

\* A command that stands against the failsafe is remembered by headend_cmd_.
StandsIsMarked == outage.stands # {} => headend_cmd_

\* An outage is only ever looked at by a running loop.
LoopLooks == outage.on => pc # "setup"

\* The unsigned difference never runs ahead of the true length of the outage.
ElapsedBelowTicks == lost_since_ms # 0 => outage.on /\ Elapsed <= outage.ticks

\* Before the clock wraps it runs at most one tick behind: the tick lost when
\* the outage is first seen at millis() = 0 (an untimed one loses more).
TicksBelowElapsed ==
  outage.on /\ ~outage.untimed /\ outage.ticks < ClockMod =>
    IF lost_since_ms = 0
      THEN outage.ticks = now /\ now <= 1 /\ (pc = "top" => now = 0)
      ELSE outage.ticks - 1 <= Elapsed

\* In a quiet outage the demand is still the one of its beginning until FAILSAFE
\* is entered, and from then on the snapshot is.
QuietSnapshot ==
  Quiet => outage.before = IF fs_state = "FAILSAFE" THEN fs_prev ELSE demand

IInv == /\ TypeOK /\ ForcedHeatStands /\ StandsIsMarked /\ LoopLooks
        /\ ElapsedBelowTicks /\ TicksBelowElapsed /\ QuietSnapshot

USE ClockAssumption, PullAssumption, GraceAssumption, FlowAssumption, BoundsAssumption
-----------------------------------------------------------------------------
(* The helpers *)

\* Clamping ends inside the range.
LEMMA ClampToRange ==
  ASSUME NEW lo \in Int, NEW hi \in Int, lo <= hi, NEW v \in Int
  PROVE  ClampTo(lo, hi, v) \in lo .. hi
BY DEF ClampTo

\* What setFlowSetpoint leaves is a temperature the boiler may be sent,
\* whichever bounds it knows.
LEMMA ClampFlowRange ==
  ASSUME NEW b \in AllBounds, NEW c \in Nat
  PROVE  ClampFlow(b, c) \in Celsius
<1>1. b.lb \in 0 .. 90 /\ b.ub \in 20 .. 90 /\ b.lb <= b.ub
  BY DEF AllBounds, WireBounds
<1> QED BY <1>1 DEF ClampFlow, ClampTo, Celsius

\* The failsafe's own demand is a demand.
LEMMA ForcedDemandType ==
  ASSUME bounds \in AllBounds, NEW s, s.flow \in Nat
  PROVE  ForcedDemand(s) \in Demand
BY ClampFlowRange DEF ForcedDemand, Demand
-----------------------------------------------------------------------------
(* Type correctness *)

\* A snapshot is a demand whose flow may be missing.
LEMMA SnapshotFields ==
  ASSUME NEW d \in Snapshot
  PROVE  d \in [ch : BOOLEAN, flow : Celsius \cup {NAN}]
<1>1. CASE d \in Demand
  BY <1>1 DEF Demand
<1>2. CASE d = [ch |-> FALSE, flow |-> NAN]
  BY <1>2
<1> QED BY <1>1, <1>2 DEF Snapshot, NoSnapshot

\* What OutageSeen and Command do to the history keeps it an outage.
LEMMA SeenType ==
  ASSUME NEW o \in Outages, NEW b \in Snapshot, NEW fs \in SUBSET Fields
  PROVE  [o EXCEPT !.before = b, !.stands = fs] \in Outages
BY DEF Outages

LEMMA CommandType ==
  ASSUME TypeOK, NEW fs \in SUBSET Fields, NEW ch \in BOOLEAN, NEW f \in Nat,
         Command(fs, ch, f)
  PROVE  /\ settings' \in Settings /\ demand' \in Demand /\ failsafe_' \in BOOLEAN
         /\ headend_cmd_' \in BOOLEAN /\ outage' \in Outages
         /\ UNCHANGED <<policyVars, mqtt_host>>
<1>1. ClampFlow(bounds, f) \in Celsius  BY ClampFlowRange DEF TypeOK
<1>2. demand' \in Demand  BY <1>1 DEF Command, TypeOK, Demand
<1>3. outage' \in Outages
  <2> DEFINE touched == IF fs_state = "FAILSAFE" THEN outage.stands \cup fs ELSE outage.stands
  <2>1. outage \in Outages /\ touched \in SUBSET Fields /\ NoSnapshot \in Snapshot
    BY DEF TypeOK, Outages, Snapshot
  <2>2. outage' = [outage EXCEPT !.before = NoSnapshot, !.stands = touched]
    BY DEF Command
  <2> HIDE DEF touched
  <2> QED BY <2>1, <2>2, SeenType
<1> QED BY <1>2, <1>3 DEF Command, TypeOK

LEMMA FailsafeCfgType ==
  ASSUME TypeOK, NEW e \in BOOLEAN, NEW f \in FsFlows, NEW g \in Graces,
         FailsafeCfg(e, f, g)
  PROVE  /\ settings' \in Settings /\ demand' \in Demand /\ failsafe_' \in BOOLEAN
         /\ headend_cmd_' \in BOOLEAN /\ outage' \in Outages
         /\ UNCHANGED <<policyVars, mqtt_host>>
<1>0. f \in Nat  OBVIOUS
<1>1. ClampTo(20, 90, f) \in 20 .. 90  BY <1>0 DEF ClampTo
<1>2. settings' \in Settings  BY <1>1 DEF FailsafeCfg, Settings
<1>3. ForcedDemand(settings') \in Demand  BY <1>2, ForcedDemandType DEF TypeOK, Settings
<1>4. outage' \in Outages  BY DEF FailsafeCfg, TypeOK, Outages
<1> QED BY <1>2, <1>3, <1>4 DEF FailsafeCfg, TypeOK

\* So does the passing of time.
LEMMA CountedType ==
  ASSUME TypeOK, NEW d \in 1 .. ClockMod - 1, NEW u \in BOOLEAN,
         outage' = [outage EXCEPT !.ticks = Counted(d), !.untimed = u], now' = Later(d)
  PROVE  outage' \in Outages /\ now' \in 0 .. ClockMod - 1
<1>1. outage \in Outages /\ outage.ticks \in 0 .. ClockMod /\ now \in 0 .. ClockMod - 1
  BY DEF TypeOK, Outages
<1>2. Counted(d) \in 0 .. ClockMod
  BY <1>1 DEF Counted, ClampTo
<1>3. now' \in 0 .. ClockMod - 1
  BY <1>1 DEF Later
<1> HIDE DEF TypeOK
<1> QED BY <1>1, <1>2, <1>3 DEF Outages

LEMMA OutageSeenType ==
  ASSUME TypeOK, NEW st
  PROVE  OutageSeen(st) \in Outages
<1>0. NoOutage \in Outages
  BY DEF NoOutage, NoSnapshot, Snapshot, Outages
<1>1. [NoOutage EXCEPT !.on = TRUE, !.before = demand] \in Outages
  BY <1>0 DEF TypeOK, Outages, Snapshot
<1> DEFINE o  == IF outage.on THEN outage
                 ELSE [NoOutage EXCEPT !.on = TRUE, !.before = demand]
           b  == IF fs_state = "FAILSAFE" /\ st # "FAILSAFE" THEN NoSnapshot ELSE o.before
           fs == IF st = fs_state THEN o.stands ELSE {}
<1>2. o \in Outages
  BY <1>1 DEF TypeOK
<1>3. b \in Snapshot /\ fs \in SUBSET Fields
  BY <1>2 DEF Outages, Snapshot
<1>4. OutageSeen(st) = [o EXCEPT !.before = b, !.stands = fs]
  BY DEF OutageSeen
<1> HIDE DEF o, b, fs
<1>5. [o EXCEPT !.before = b, !.stands = fs] \in Outages
  BY <1>2, <1>3, SeenType
<1> QED BY <1>4, <1>5

\* No step of the loop, of setup(), or of the environment leaves the types.
LEMMA TypeInductive == TypeOK /\ [Next]_vars => TypeOK'
<1> SUFFICES ASSUME TypeOK, [Next]_vars PROVE TypeOK'
  OBVIOUS
<1>types. /\ NoOutage \in Outages /\ BootDemand \in Demand /\ WireBounds \in AllBounds
         /\ NoSnapshot \in Snapshot
  BY DEF NoOutage, NoSnapshot, Snapshot, Outages, Demand, Celsius, DefaultFlow, BootDemand,
         Fields, AllBounds
<1>0. CASE UNCHANGED vars
  BY <1>0 DEF vars, TypeOK
<1>1. CASE Tick
  <2>1. outage' = [outage EXCEPT !.ticks = Counted(1), !.untimed = outage.untimed]
    BY <1>1 DEF Tick, TypeOK, Outages
  <2>2. 1 \in 1 .. ClockMod - 1 /\ outage.untimed \in BOOLEAN
    BY DEF TypeOK, Outages
  <2>3. now' \in 0 .. ClockMod - 1 /\ outage' \in Outages
    BY <1>1, <2>1, <2>2, CountedType DEF Tick
  <2> QED BY <1>1, <2>3 DEF Tick, TypeOK, Stages, linkVars, policyVars, otVars
<1>10. ASSUME NEW d \in 1 .. PullTicks, Pull(d) PROVE TypeOK'
  <2>1. d \in 1 .. ClockMod - 1 /\ Unlooked(d) \in BOOLEAN
    BY DEF TypeOK, Outages, Unlooked
  <2>2. now' \in 0 .. ClockMod - 1 /\ outage' \in Outages
    BY <1>10, <2>1, CountedType DEF Pull
  <2> QED BY <1>10, <2>2 DEF Pull, TypeOK, Stages, policyVars, otVars
<1>2. CASE Net
  <2>1. CASE NoRequest
    BY <1>2, <2>1 DEF Net, NoRequest, TypeOK, Stages, linkVars, policyVars, otVars
  <2>3. CASE SettingsSaved
    BY <1>2, <2>3 DEF Net, SettingsSaved, TypeOK, Stages, policyVars, otVars
  <2>2. CASE PortalRequest
    <3>1. ASSUME NEW fs \in SUBSET Fields \ {{}}, NEW ch \in BOOLEAN, NEW f \in Flows,
                 Command(fs, ch, ClampTo(20, 90, f))
          PROVE  TypeOK'
      <4>1. ClampTo(20, 90, f) \in Nat  BY DEF ClampTo
      <4> QED BY <1>2, <3>1, <4>1, CommandType
              DEF Net, TypeOK, Stages, linkVars, policyVars
    <3>2. ASSUME NEW e \in BOOLEAN, NEW f \in FsFlows, NEW g \in Graces,
                 FailsafeCfg(e, f, g)
          PROVE  TypeOK'
      BY <1>2, <3>2, FailsafeCfgType DEF Net, TypeOK, Stages, linkVars, policyVars
    <3> QED BY <2>2, <2>3, <3>1, <3>2 DEF PortalRequest
  <2> QED BY <1>2, <2>1, <2>2 DEF Net
<1>3. CASE Mqtt
  <2>1. CASE NoRequest
    BY <1>3, <2>1 DEF Mqtt, NoRequest, TypeOK, Stages, policyVars, otVars
  <2>2. CASE MqttMessage /\ session' = session
    <3>1. ASSUME NEW ch \in BOOLEAN, Command({"ch"}, ch, demand.flow)
          PROVE  TypeOK'
      <4>1. demand.flow \in Nat /\ {"ch"} \in SUBSET Fields
        BY DEF TypeOK, Demand, Celsius, Fields
      <4> QED BY <1>3, <2>2, <3>1, <4>1, CommandType DEF Mqtt, TypeOK, Stages, policyVars
    <3>2. ASSUME NEW f \in Flows, Command({"flow"}, demand.ch, f)
          PROVE  TypeOK'
      <4>1. demand.ch \in BOOLEAN /\ {"flow"} \in SUBSET Fields
        BY DEF TypeOK, Demand, Fields
      <4> QED BY <1>3, <2>2, <3>2, <4>1, CommandType DEF Mqtt, TypeOK, Stages, policyVars
    <3>3. ASSUME NEW e \in BOOLEAN, NEW f \in FsFlows, NEW g \in Graces,
                 FailsafeCfg(e, f, g)
          PROVE  TypeOK'
      BY <1>3, <2>2, <3>3, FailsafeCfgType DEF Mqtt, TypeOK, Stages, policyVars
    <3>4. CASE SettingsSaved
      BY <1>3, <3>4 DEF Mqtt, SettingsSaved, TypeOK, Stages, policyVars, otVars
    <3> QED BY <2>2, <3>1, <3>2, <3>3, <3>4 DEF MqttMessage
  <2> QED BY <1>3, <2>1, <2>2 DEF Mqtt
<1>4. CASE FailsafeStep
  <2>1. CASE ~mqtt_host
    <3>1. Unlooked(1) \in BOOLEAN /\ outage \in Outages
      BY DEF TypeOK, Outages, Unlooked
    <3>2. outage' = [outage EXCEPT !.untimed = Unlooked(1)]
      BY <1>4, <2>1 DEF FailsafeStep
    <3>3. outage' \in Outages
      BY <3>1, <3>2 DEF Outages
    <3> QED BY <1>4, <2>1, <3>3 DEF FailsafeStep, TypeOK, Stages, linkVars, policyVars, otVars
  <2>2. CASE LinkIsUp
    <3>1. Release => demand' \in Demand
      <4>1. fs_prev \in [ch : BOOLEAN, flow : Celsius \cup {NAN}]
        BY SnapshotFields DEF TypeOK
      <4>2. fs_prev.flow # NAN => ClampFlow(bounds, fs_prev.flow) \in Celsius
        BY <4>1, ClampFlowRange DEF TypeOK, Celsius
      <4> QED BY <4>1, <4>2 DEF Release, TypeOK, Demand
    <3>2. /\ demand' \in Demand /\ failsafe_' \in BOOLEAN /\ headend_cmd_' \in BOOLEAN
      BY <2>2, <3>1 DEF LinkIsUp, Release, TypeOK, otVars
    <3> QED BY <1>4, <2>2, <3>2, <1>types
            DEF LinkIsUp, FailsafeStep, TypeOK, Stages, States, linkVars
  <2>3. CASE LinkIsDown
    <3>1. \A st \in States : OutageSeen(st) \in Outages
      BY OutageSeenType
    <3>2. \A n : Evaluate(n) \in States
      BY DEF Evaluate, States
    <3>3. outage' \in Outages /\ fs_state' \in States
      BY <2>3, <3>1, <3>2 DEF LinkIsDown
    <3>4. Engage => demand' \in Demand /\ failsafe_' \in BOOLEAN
                    /\ fs_prev' \in Snapshot
      BY ForcedDemandType DEF Engage, TypeOK, Snapshot, Settings
    <3>5. /\ demand' \in Demand /\ failsafe_' \in BOOLEAN /\ headend_cmd_' \in BOOLEAN
          /\ fs_prev' \in Snapshot
      BY <2>3, <3>4 DEF LinkIsDown, TypeOK, otVars
    <3>6. lost_since_ms' \in 0 .. ClockMod - 1
      BY <2>3 DEF LinkIsDown, TypeOK
    <3> QED BY <1>4, <3>3, <3>5, <3>6 DEF FailsafeStep, TypeOK, Stages, linkVars
  <2> QED BY <1>4, <2>1, <2>2, <2>3 DEF FailsafeStep
<1>5. CASE SetupDone
  BY <1>5 DEF SetupDone, TypeOK, Stages, policyVars, otVars
<1>6. CASE WifiChanges
  BY <1>6 DEF WifiChanges, TypeOK, policyVars, otVars
<1>7. CASE SessionDrops
  BY <1>7 DEF SessionDrops, TypeOK, policyVars, otVars
<1>8. CASE LearnBounds
  BY <1>8 DEF LearnBounds, TypeOK, AllBounds, linkVars, policyVars, otVars
<1>9. CASE Restart
  <2>1. 0 \in 0 .. ClockMod - 1
    OBVIOUS
  <2> QED BY <1>9, <1>types, <2>1 DEF Restart, TypeOK, Stages, States
<1> QED BY <1>0, <1>1, <1>2, <1>3, <1>4, <1>5, <1>6, <1>7, <1>8, <1>9, <1>10
        DEF Next, LoopStep, Environment

\* The initial states have their types.
LEMMA TypeInit == Init => TypeOK
<1> SUFFICES ASSUME Init PROVE TypeOK
  OBVIOUS
<1>1. \A f \in FsFlows : ClampTo(20, 90, f) \in 20 .. 90
  <2> SUFFICES ASSUME NEW f \in FsFlows PROVE ClampTo(20, 90, f) \in 20 .. 90
    OBVIOUS
  <2>1. f \in Nat  OBVIOUS
  <2> QED BY <2>1 DEF ClampTo
<1>2. settings \in Settings
  BY <1>1 DEF Init, Settings
<1>3. NoOutage \in Outages /\ BootDemand \in Demand /\ WireBounds \in AllBounds
         /\ NoSnapshot \in Snapshot
  BY DEF NoOutage, NoSnapshot, Snapshot, Outages, Demand, Celsius, DefaultFlow, BootDemand,
         Fields, AllBounds
<1>4. 0 \in 0 .. ClockMod - 1
  OBVIOUS
<1> QED BY <1>2, <1>3, <1>4 DEF Init, TypeOK, Stages, States

\* Every reachable state has the types: no sequence of commands, edits,
\* outages, releases, learned bounds and restarts leaves the boiler's range.
THEOREM TypeCorrect == Safety => []TypeOK
BY TypeInit, TypeInductive, PTL DEF Safety
-----------------------------------------------------------------------------
(* The inductive invariant *)

LEMMA IInvInit == Init => IInv
<1> SUFFICES ASSUME Init PROVE IInv
  OBVIOUS
<1>1. TypeOK  BY TypeInit
<1> QED BY <1>1 DEF Init, IInv, NoOutage, ForcedHeatStands, StandsIsMarked, LoopLooks,
           ElapsedBelowTicks, TicksBelowElapsed, QuietSnapshot, Quiet

\* A command keeps every part: it marks the fields it touches and itself.
LEMMA CommandKeeps ==
  ASSUME IInv, TypeOK', NEW fs \in SUBSET Fields, NEW ch, NEW f,
         Command(fs, ch, f), pc' \in {"mqtt", "fs"}, UNCHANGED <<now, bounds>>
  PROVE  IInv'
<1> USE DEF IInv
<1>1. /\ outage'.on = outage.on /\ outage'.ticks = outage.ticks
      /\ outage'.before = NoSnapshot /\ outage'.untimed = outage.untimed
      /\ outage'.stands = IF fs_state = "FAILSAFE" THEN outage.stands \cup fs
                                                   ELSE outage.stands
  BY DEF Command, TypeOK, Outages
<1>2. /\ "ch" \notin fs => demand'.ch = demand.ch
      /\ "flow" \notin fs => demand'.flow = demand.flow
  BY DEF Command
<1>3. ForcedHeatStands'
  <2> SUFFICES ASSUME fs_state' = "FAILSAFE"
               PROVE  /\ failsafe_' /\ outage'.on
                      /\ "ch" \notin outage'.stands => demand'.ch
                      /\ "flow" \notin outage'.stands /\ settings'.enable =>
                           \E b \in AllBounds : demand'.flow = ClampFlow(b, settings'.flow)
    BY DEF ForcedHeatStands
  <2>1. fs_state = "FAILSAFE" /\ settings' = settings /\ failsafe_' = failsafe_
    BY DEF Command, policyVars
  <2> QED BY <1>1, <1>2, <2>1 DEF ForcedHeatStands
<1>4. headend_cmd_'
  BY DEF Command
<1>5. Elapsed' = Elapsed /\ lost_since_ms' = lost_since_ms
  BY DEF Command, policyVars, Elapsed
<1>6. LoopLooks'
  BY <1>1 DEF LoopLooks, Command, policyVars
<1>7. ElapsedBelowTicks' /\ TicksBelowElapsed'
  BY <1>1, <1>5 DEF ElapsedBelowTicks, TicksBelowElapsed
<1>8. QuietSnapshot'
  BY <1>1 DEF QuietSnapshot, Quiet, NoSnapshot
<1> QED BY <1>3, <1>4, <1>6, <1>7, <1>8 DEF StandsIsMarked

\* So does an edit: one that forces the demand again does it while FAILSAFE
\* has been entered.
LEMMA FailsafeCfgKeeps ==
  ASSUME IInv, TypeOK', NEW e \in BOOLEAN, NEW f \in FsFlows, NEW g \in Graces,
         FailsafeCfg(e, f, g), pc' \in {"mqtt", "fs"}, UNCHANGED <<now, bounds>>
  PROVE  IInv'
<1> USE DEF IInv
<1>1. /\ outage'.on = outage.on /\ outage'.ticks = outage.ticks
      /\ outage'.before = outage.before
      /\ outage'.stands \subseteq outage.stands /\ outage'.untimed = outage.untimed
  BY DEF FailsafeCfg, TypeOK, Outages
<1>2. /\ fs_state' = fs_state /\ fs_prev' = fs_prev /\ lost_since_ms' = lost_since_ms
      /\ headend_cmd_' = headend_cmd_ /\ failsafe_' = failsafe_ /\ Elapsed' = Elapsed
  BY DEF FailsafeCfg, policyVars, Elapsed
<1>3. settings'.enable = e
  BY DEF FailsafeCfg
<1>4. CASE fs_state = "FAILSAFE" /\ e
  <2>1. demand' = [ch |-> TRUE, flow |-> ClampFlow(bounds, settings'.flow)]
    BY <1>4 DEF FailsafeCfg, ForcedDemand
  <2>2. bounds \in AllBounds
    BY DEF TypeOK
  <2>3. ForcedHeatStands'
    BY <1>1, <1>2, <2>1, <2>2 DEF ForcedHeatStands
  <2>4. QuietSnapshot'
    BY <1>1, <1>2, <1>4 DEF QuietSnapshot, Quiet
  <2> QED BY <1>1, <1>2, <2>3, <2>4
          DEF StandsIsMarked, LoopLooks, ElapsedBelowTicks, TicksBelowElapsed
<1>5. CASE ~(fs_state = "FAILSAFE" /\ e)
  <2>1. demand' = demand /\ outage' = outage
    BY <1>5 DEF FailsafeCfg
  <2>2. ForcedHeatStands'
    BY <1>2, <1>3, <1>5, <2>1 DEF ForcedHeatStands
  <2> QED BY <1>2, <2>1, <2>2
          DEF StandsIsMarked, LoopLooks, ElapsedBelowTicks, TicksBelowElapsed,
              QuietSnapshot, Quiet
<1> QED BY <1>4, <1>5

\* Clock arithmetic: d ticks move the unsigned difference forward by d, modulo
\* the clock.
LEMMA LaterElapsed ==
  ASSUME TypeOK, NEW d \in 1 .. ClockMod - 1, now' = Later(d), UNCHANGED lost_since_ms
  PROVE  /\ Elapsed \in 0 .. ClockMod - 1
         /\ Elapsed' = IF Elapsed + d < ClockMod THEN Elapsed + d ELSE Elapsed + d - ClockMod
<1>1. now \in 0 .. ClockMod - 1 /\ lost_since_ms \in 0 .. ClockMod - 1
  BY DEF TypeOK
<1>2. now' = IF now + d < ClockMod THEN now + d ELSE now + d - ClockMod
  BY DEF Later
<1> QED BY <1>1, <1>2 DEF Elapsed

\* Time passes: the loop's own, or a pull's.
LEMMA TimeKeeps ==
  ASSUME IInv, TypeOK', NEW d \in 1 .. ClockMod - 1, NEW u \in BOOLEAN, now' = Later(d),
         outage' = [outage EXCEPT !.ticks = Counted(d), !.untimed = u],
         outage.untimed => u, pc # "setup", pc' \in {"net", "fs"},
         outage.on /\ ~u /\ outage.ticks < ClockMod /\ lost_since_ms = 0 => now + d <= 1,
         UNCHANGED <<demand, failsafe_, headend_cmd_, fs_state, fs_prev, lost_since_ms>>,
         UNCHANGED <<settings, bounds>>
  PROVE  IInv'
<1>0. TypeOK
  BY DEF IInv
<1>1. /\ outage'.on = outage.on /\ outage'.before = outage.before
      /\ outage'.stands = outage.stands /\ outage'.untimed = u /\ outage'.ticks = Counted(d)
  BY <1>0 DEF TypeOK, Outages
<1>2. outage.ticks \in 0 .. ClockMod /\ now \in 0 .. ClockMod - 1
  BY <1>0 DEF TypeOK, Outages
<1>3. ForcedHeatStands' /\ StandsIsMarked' /\ LoopLooks' /\ QuietSnapshot'
  BY <1>1 DEF IInv, ForcedHeatStands, StandsIsMarked, LoopLooks, QuietSnapshot, Quiet
<1>4. outage.on => outage'.ticks = IF outage.ticks + d > ClockMod THEN ClockMod
                                                                    ELSE outage.ticks + d
  BY <1>1, <1>2 DEF Counted, ClampTo
<1>5. /\ Elapsed \in 0 .. ClockMod - 1
      /\ Elapsed' = IF Elapsed + d < ClockMod THEN Elapsed + d ELSE Elapsed + d - ClockMod
  BY <1>0, LaterElapsed
<1>6. ElapsedBelowTicks'
  BY <1>1, <1>2, <1>4, <1>5 DEF IInv, ElapsedBelowTicks
<1>7. TicksBelowElapsed'
  <2> SUFFICES ASSUME outage.on, ~u, outage'.ticks < ClockMod
               PROVE  IF lost_since_ms = 0
                        THEN outage'.ticks = now' /\ now' <= 1 /\ (pc' = "top" => now' = 0)
                        ELSE outage'.ticks - 1 <= Elapsed'
    BY <1>1 DEF TicksBelowElapsed
  <2>1. outage.ticks + d < ClockMod /\ outage'.ticks = outage.ticks + d /\ ~outage.untimed
    BY <1>2, <1>4
  <2>2. CASE lost_since_ms = 0
    <3>1. outage.ticks = now /\ now + d <= 1
      BY <1>2, <2>1, <2>2 DEF IInv, TicksBelowElapsed
    <3>2. now' = now + d
      BY <1>2, <3>1 DEF Later
    <3> QED BY <2>1, <2>2, <3>1, <3>2
  <2>3. CASE lost_since_ms # 0
    <3>1. outage.ticks - 1 <= Elapsed /\ Elapsed <= outage.ticks
      BY <1>2, <2>1, <2>3 DEF IInv, TicksBelowElapsed, ElapsedBelowTicks
    <3> QED BY <1>2, <1>5, <2>1, <2>3, <3>1
  <2> QED BY <2>2, <2>3
<1> QED BY <1>3, <1>6, <1>7 DEF IInv

LEMMA TickKeeps ==
  ASSUME IInv, TypeOK', Tick
  PROVE  IInv'
<1>1. outage' = [outage EXCEPT !.ticks = Counted(1), !.untimed = outage.untimed]
  BY DEF Tick, IInv, TypeOK, Outages
<1>2. /\ 1 \in 1 .. ClockMod - 1 /\ outage.untimed \in BOOLEAN /\ now \in 0 .. ClockMod - 1
  BY DEF IInv, TypeOK, Outages
<1>3. outage.on /\ ~outage.untimed /\ outage.ticks < ClockMod /\ lost_since_ms = 0
        => now + 1 <= 1
  BY <1>2 DEF IInv, TicksBelowElapsed, Tick
<1>4. /\ now' = Later(1) /\ pc = "top" /\ pc' = "net"
      /\ UNCHANGED <<demand, failsafe_, headend_cmd_, fs_state, fs_prev, lost_since_ms>>
      /\ UNCHANGED <<settings, bounds>>
  BY DEF Tick, policyVars, otVars
<1> QED BY <1>1, <1>2, <1>3, <1>4, TimeKeeps

LEMMA PullKeeps ==
  ASSUME IInv, TypeOK', NEW d \in 1 .. PullTicks, Pull(d)
  PROVE  IInv'
<1>1. d \in 1 .. ClockMod - 1 /\ Unlooked(d) \in BOOLEAN /\ now \in 0 .. ClockMod - 1
  BY DEF IInv, TypeOK, Outages, Unlooked
<1>2. outage.untimed => Unlooked(d)
  BY DEF Unlooked
<1>3. outage.on /\ ~Unlooked(d) /\ outage.ticks < ClockMod /\ lost_since_ms = 0
        => now + d <= 1
  BY <1>1 DEF IInv, TicksBelowElapsed, Unlooked
<1>4. /\ now' = Later(d) /\ pc = "mqtt" /\ pc' = "fs"
      /\ outage' = [outage EXCEPT !.ticks = Counted(d), !.untimed = Unlooked(d)]
      /\ UNCHANGED <<demand, failsafe_, headend_cmd_, fs_state, fs_prev, lost_since_ms>>
      /\ UNCHANGED <<settings, bounds>>
  BY DEF Pull, policyVars, otVars
<1> QED BY <1>1, <1>2, <1>3, <1>4, TimeKeeps

\* failsafeLoop(true) ends the outage and what was kept about it.
LEMMA LinkIsUpKeeps ==
  ASSUME IInv, TypeOK', LinkIsUp
  PROVE  IInv'
<1>1. /\ fs_state' # "FAILSAFE" /\ lost_since_ms' = 0
      /\ ~outage'.on /\ outage'.stands = {} /\ ~Quiet'
  BY DEF LinkIsUp, NoOutage, Quiet, NoSnapshot
<1> QED BY <1>1 DEF IInv, ForcedHeatStands, StandsIsMarked, LoopLooks,
                ElapsedBelowTicks, TicksBelowElapsed, QuietSnapshot

\* failsafeLoop(false): the first one starts the history, the one that enters
\* FAILSAFE takes the snapshot.
LEMMA LinkIsDownKeeps ==
  ASSUME IInv, TypeOK', LinkIsDown, mqtt_host, pc = "fs", pc' = "top",
         UNCHANGED <<mqtt_host, now, settings, bounds>>
  PROVE  IInv'
<1> DEFINE st == Evaluate(IF lost_since_ms = 0 THEN 0 ELSE Elapsed)
           enters == st = "FAILSAFE" /\ fs_state # "FAILSAFE"
<1>1. /\ fs_state' = st /\ headend_cmd_' = headend_cmd_
      /\ outage' = OutageSeen(st)
      /\ lost_since_ms' = IF lost_since_ms = 0 THEN now ELSE lost_since_ms
      /\ enters => Engage
      /\ ~enters => UNCHANGED <<demand, failsafe_, fs_prev>>
  BY DEF LinkIsDown, otVars
<1> HIDE DEF st
<1>2. /\ outage'.on
      /\ outage'.ticks = IF outage.on THEN outage.ticks ELSE 0
      /\ outage.on => outage'.untimed = outage.untimed
      /\ outage'.stands = IF outage.on /\ st = fs_state THEN outage.stands ELSE {}
  BY <1>1 DEF OutageSeen, NoOutage, IInv, TypeOK, Outages
<1>3. outage'.before = IF fs_state = "FAILSAFE" /\ st # "FAILSAFE" THEN NoSnapshot
                       ELSE IF outage.on THEN outage.before ELSE demand
  BY <1>1 DEF OutageSeen, NoOutage, IInv, TypeOK, Outages
<1>4. enters => /\ fs_prev' = demand /\ failsafe_'
                /\ demand' = [ch |-> TRUE, flow |-> ClampFlow(bounds, settings.flow)]
  BY <1>1 DEF Engage, ForcedDemand
<1>5. StandsIsMarked'
  BY <1>1, <1>2 DEF IInv, StandsIsMarked
<1>6. ForcedHeatStands'
  <2>1. CASE enters
    <3>1. bounds \in AllBounds
      BY DEF IInv, TypeOK
    <3> QED BY <1>1, <1>2, <1>4, <2>1, <3>1 DEF ForcedHeatStands
  <2>2. CASE ~enters
    BY <1>1, <1>2, <2>2 DEF IInv, ForcedHeatStands
  <2> QED BY <2>1, <2>2
<1>7. LoopLooks'
  BY <1>1, <1>2 DEF IInv, LoopLooks
<1>8. now \in 0 .. ClockMod - 1 /\ lost_since_ms \in 0 .. ClockMod - 1
      /\ outage.ticks \in 0 .. ClockMod /\ now' = now
  BY DEF IInv, TypeOK, Outages
<1>9. Elapsed' = IF lost_since_ms = 0 THEN 0 ELSE Elapsed
  BY <1>1, <1>8 DEF Elapsed
<1>10. ElapsedBelowTicks'
  BY <1>1, <1>2, <1>8, <1>9 DEF IInv, ElapsedBelowTicks
<1>11. TicksBelowElapsed'
  BY <1>1, <1>2, <1>8, <1>9 DEF IInv, TicksBelowElapsed, ElapsedBelowTicks
<1>12. QuietSnapshot'
  BY <1>1, <1>3, <1>4 DEF IInv, QuietSnapshot, Quiet, ForcedHeatStands
<1> QED BY <1>5, <1>6, <1>7, <1>10, <1>11, <1>12 DEF IInv

\* failsafeLoop of a device without a broker.
LEMMA BlindKeeps ==
  ASSUME IInv, TypeOK', pc = "fs", pc' = "top", UNCHANGED <<now, settings, bounds>>,
         UNCHANGED <<policyVars, otVars>>, outage' = [outage EXCEPT !.untimed = Unlooked(1)]
  PROVE  IInv'
<1>1. /\ UNCHANGED <<lost_since_ms, fs_state, fs_prev, demand, failsafe_, headend_cmd_>>
      /\ Elapsed' = Elapsed
  BY DEF policyVars, otVars, Elapsed
<1>2. /\ outage'.on = outage.on /\ outage'.before = outage.before
      /\ outage'.stands = outage.stands
      /\ outage'.ticks = outage.ticks /\ outage'.untimed = Unlooked(1)
  BY DEF IInv, TypeOK, Outages
<1>3. ForcedHeatStands' /\ StandsIsMarked' /\ QuietSnapshot' /\ LoopLooks'
  BY <1>1, <1>2 DEF IInv, ForcedHeatStands, StandsIsMarked, QuietSnapshot, Quiet, LoopLooks
<1>4. ElapsedBelowTicks'
  BY <1>1, <1>2 DEF IInv, ElapsedBelowTicks
<1>5. now \in 0 .. ClockMod - 1
  BY DEF IInv, TypeOK
<1>6. TicksBelowElapsed'
  <2>1. CASE Unlooked(1)
    BY <1>2, <2>1 DEF TicksBelowElapsed
  <2>2. CASE ~Unlooked(1)
    <3>1. ~outage.untimed /\ (outage.on /\ outage.ticks = now /\ now <= 1 => now = 0)
      BY <1>5, <2>2 DEF Unlooked
    <3> QED BY <1>1, <1>2, <3>1 DEF IInv, TicksBelowElapsed
  <2> QED BY <2>1, <2>2
<1> QED BY <1>3, <1>4, <1>6 DEF IInv

\* Steps that touch nothing the invariant speaks of.
LEMMA QuietKeeps ==
  ASSUME IInv, TypeOK',
         UNCHANGED <<now, settings, lost_since_ms, fs_state, fs_prev,
                     demand, failsafe_, headend_cmd_, outage>>,
         pc' = "setup" => pc = "setup", pc' = "top" => pc = "top" \/ pc = "setup"
  PROVE  IInv'
<1>1. Elapsed' = Elapsed
  BY DEF Elapsed
<1>2. ForcedHeatStands' /\ StandsIsMarked' /\ QuietSnapshot' /\ LoopLooks'
  BY DEF IInv, ForcedHeatStands, StandsIsMarked, QuietSnapshot, Quiet, NoSnapshot, LoopLooks
<1>3. ElapsedBelowTicks'
  BY <1>1 DEF IInv, ElapsedBelowTicks
<1>4. TicksBelowElapsed'
  BY <1>1 DEF IInv, TicksBelowElapsed, LoopLooks
<1> QED BY <1>2, <1>3, <1>4 DEF IInv

LEMMA RestartKeeps ==
  ASSUME TypeOK', Restart
  PROVE  IInv'
<1>1. /\ fs_state' # "FAILSAFE" /\ lost_since_ms' = 0
      /\ ~outage'.on /\ outage'.stands = {} /\ ~Quiet'
  BY DEF Restart, NoOutage, Quiet, NoSnapshot
<1> QED BY <1>1 DEF IInv, ForcedHeatStands, StandsIsMarked, LoopLooks,
                ElapsedBelowTicks, TicksBelowElapsed, QuietSnapshot

\* setup() moves the clock while no outage is looked at.
LEMMA SetupKeeps ==
  ASSUME IInv, TypeOK', SetupDone
  PROVE  IInv'
<1>1. lost_since_ms = 0 /\ ~outage.on
  BY DEF IInv, LoopLooks, ElapsedBelowTicks, SetupDone
<1>2. /\ UNCHANGED <<settings, lost_since_ms, fs_state, fs_prev, demand, failsafe_,
                    headend_cmd_, outage>>
      /\ pc' = "top"
  BY DEF SetupDone, policyVars, otVars
<1>3. QuietSnapshot'
  BY <1>2 DEF IInv, QuietSnapshot, Quiet, NoSnapshot
<1> QED BY <1>1, <1>2, <1>3 DEF IInv, ForcedHeatStands, StandsIsMarked, LoopLooks,
                ElapsedBelowTicks, TicksBelowElapsed

LEMMA IInvInductive == IInv /\ [Next]_vars => IInv'
<1> SUFFICES ASSUME IInv, [Next]_vars PROVE IInv'
  OBVIOUS
<1>type. TypeOK'
  BY TypeInductive DEF IInv
<1>0. CASE UNCHANGED vars
  BY <1>0, <1>type, QuietKeeps DEF vars
<1>1. CASE Tick
  BY <1>1, <1>type, TickKeeps
<1>2. CASE Net
  <2>1. pc' = "mqtt" /\ UNCHANGED <<now, bounds>>
    BY <1>2 DEF Net
  <2>2. CASE NoRequest
    BY <1>type, <2>1, <2>2, QuietKeeps DEF NoRequest, otVars, policyVars
  <2>3. CASE PortalRequest
    <3>1. CASE SettingsSaved
      BY <1>type, <2>1, <3>1, QuietKeeps DEF SettingsSaved, otVars, policyVars
    <3> QED BY <1>type, <2>1, <2>3, <3>1, CommandKeeps, FailsafeCfgKeeps DEF PortalRequest
  <2> QED BY <1>2, <2>2, <2>3 DEF Net
<1>3. CASE Mqtt
  <2>1. pc' \in {"mqtt", "fs"} /\ UNCHANGED <<now, bounds>>
    BY <1>3 DEF Mqtt
  <2>2. CASE NoRequest
    BY <1>type, <2>1, <2>2, QuietKeeps DEF NoRequest, otVars, policyVars
  <2>3. CASE MqttMessage
    <3>1. {"ch"} \in SUBSET Fields /\ {"flow"} \in SUBSET Fields
      BY DEF Fields
    <3>2. CASE SettingsSaved
      BY <1>type, <2>1, <3>2, QuietKeeps DEF SettingsSaved, otVars, policyVars
    <3> QED BY <1>type, <2>1, <2>3, <3>1, <3>2, CommandKeeps, FailsafeCfgKeeps DEF MqttMessage
  <2> QED BY <1>3, <2>2, <2>3 DEF Mqtt
<1>4. CASE FailsafeStep
  <2>1. /\ pc = "fs" /\ pc' = "top"
        /\ UNCHANGED <<mqtt_host, now, settings, bounds>>
    BY <1>4 DEF FailsafeStep, linkVars
  <2>2. CASE ~mqtt_host
    <3>1. UNCHANGED <<policyVars, otVars>> /\ outage' = [outage EXCEPT !.untimed = Unlooked(1)]
      BY <1>4, <2>2 DEF FailsafeStep
    <3> QED BY <1>type, <2>1, <3>1, BlindKeeps
  <2>3. CASE LinkIsUp
    BY <1>type, <2>3, LinkIsUpKeeps
  <2>4. CASE mqtt_host /\ LinkIsDown
    BY <1>type, <2>1, <2>4, LinkIsDownKeeps
  <2> QED BY <1>4, <2>2, <2>3, <2>4 DEF FailsafeStep
<1>5. CASE SetupDone
  BY <1>5, <1>type, SetupKeeps
<1>6. CASE WifiChanges
  BY <1>6, <1>type, QuietKeeps DEF WifiChanges, policyVars, otVars
<1>7. CASE SessionDrops
  BY <1>7, <1>type, QuietKeeps DEF SessionDrops, policyVars, otVars
<1>8. CASE LearnBounds
  BY <1>8, <1>type, QuietKeeps DEF LearnBounds, linkVars, policyVars, otVars
<1>9. CASE Restart
  BY <1>9, <1>type, RestartKeeps
<1>10. ASSUME NEW d \in 1 .. PullTicks, Pull(d) PROVE IInv'
  BY <1>10, <1>type, PullKeeps
<1> QED BY <1>0, <1>1, <1>2, <1>3, <1>4, <1>5, <1>6, <1>7, <1>8, <1>9, <1>10
        DEF Next, LoopStep, Environment

LEMMA Invariance == Safety => []IInv
BY IInvInit, IInvInductive, PTL DEF Safety
-----------------------------------------------------------------------------
(* The properties *)

\* The house stays heated for as long as the failsafe is in force.
THEOREM HeatStands == Safety => []ForcedHeatStands
<1>1. IInv => ForcedHeatStands
  BY DEF IInv
<1> QED BY <1>1, Invariance, PTL

\* A step of failsafeLoop is one of three; only the one that finds the link
\* down enters FAILSAFE.
LEMMA OnlyLinkIsDownEnters ==
  ASSUME [Next]_vars, fs_state # "FAILSAFE", fs_state' = "FAILSAFE"
  PROVE  LinkIsDown /\ FailsafeStep
<1>1. FailsafeStep
  BY DEF Next, LoopStep, Environment, vars, Tick, Pull, Net, Mqtt, NoRequest, SettingsSaved,
         PortalRequest, MqttMessage, Command, FailsafeCfg, SetupDone, WifiChanges, SessionDrops,
         LearnBounds, Restart, policyVars
<1>2. ~LinkIsUp
  BY DEF LinkIsUp
<1> QED BY <1>1, <1>2 DEF FailsafeStep, policyVars

LEMMA TimesInRange ==
  ASSUME TypeOK
  PROVE  /\ settings.grace \in 1 .. ClockMod - 1 /\ outage.ticks \in 0 .. ClockMod
         /\ now \in 0 .. ClockMod - 1 /\ lost_since_ms \in 0 .. ClockMod - 1
<1>1. settings.grace \in Graces
  BY DEF TypeOK, Settings
<1>2. outage.ticks \in 0 .. ClockMod
  BY DEF TypeOK, Outages
<1> QED BY <1>1, <1>2 DEF TypeOK

\* No FAILSAFE before the grace period is over, in spite of the wrap of
\* millis() and of edits of the period while it runs.
THEOREM GraceIsRespected == Safety => GraceRespected
<1> DEFINE G == fs_state # "FAILSAFE" /\ fs_state' = "FAILSAFE" =>
                  settings.enable /\ outage.on /\ outage.ticks >= settings.grace
<1>1. IInv /\ [Next]_vars => [G]_vars
  <2> SUFFICES ASSUME IInv, [Next]_vars, fs_state # "FAILSAFE", fs_state' = "FAILSAFE"
               PROVE  settings.enable /\ outage.on /\ outage.ticks >= settings.grace
    OBVIOUS
  <2>1. LinkIsDown
    BY OnlyLinkIsDownEnters
  <2> DEFINE lost == IF lost_since_ms = 0 THEN 0 ELSE Elapsed
  <2>2. Evaluate(lost) = "FAILSAFE"
    BY <2>1 DEF LinkIsDown
  <2>3. settings.enable /\ lost >= settings.grace
    <3> HIDE DEF lost
    <3> QED BY <2>2 DEF Evaluate
  <2>4. settings.grace \in 1 .. ClockMod - 1 /\ outage.ticks \in 0 .. ClockMod
        /\ now \in 0 .. ClockMod - 1 /\ lost_since_ms \in 0 .. ClockMod - 1
    BY TimesInRange DEF IInv
  <2>5. lost_since_ms # 0
    BY <2>3, <2>4
  <2>6. outage.on /\ Elapsed <= outage.ticks
    BY <2>5 DEF IInv, ElapsedBelowTicks
  <2> QED BY <2>3, <2>4, <2>5, <2>6 DEF Elapsed
<1> QED BY <1>1, Invariance, PTL DEF Safety, GraceRespected

\* And it is entered once the period is over, up to the wrap.
THEOREM FailsafeIsOnTime == Safety => FailsafeOnTime
<1> DEFINE G == FailsafeStep /\ mqtt_host /\ ~LinkUp /\ settings.enable /\ outage.on
                  /\ ~outage.untimed /\ outage.ticks > settings.grace /\ outage.ticks < ClockMod
                  => fs_state' = "FAILSAFE"
<1>1. IInv /\ [Next]_vars => [G]_vars
  <2> SUFFICES ASSUME IInv, FailsafeStep, mqtt_host, ~LinkUp, settings.enable, outage.on,
                      ~outage.untimed, outage.ticks > settings.grace, outage.ticks < ClockMod
               PROVE  fs_state' = "FAILSAFE"
    OBVIOUS
  <2>1. settings.grace \in 1 .. ClockMod - 1 /\ outage.ticks \in 0 .. ClockMod
        /\ now \in 0 .. ClockMod - 1 /\ lost_since_ms \in 0 .. ClockMod - 1
    BY TimesInRange DEF IInv
  <2>2. lost_since_ms # 0 /\ outage.ticks - 1 <= Elapsed
    BY <2>1 DEF IInv, TicksBelowElapsed
  <2>3. Elapsed >= settings.grace
    BY <2>1, <2>2 DEF Elapsed
  <2>4. LinkIsDown
    BY DEF FailsafeStep
  <2> QED BY <2>2, <2>3, <2>4 DEF LinkIsDown, Evaluate
<1> QED BY <1>1, Invariance, PTL DEF Safety, FailsafeOnTime

\* A release is the one of applyFailsafe(false).
LEMMA ReleaseStep ==
  ASSUME Releases
  PROVE  Release
BY DEF Releases, FailsafeStep, LinkIsUp, LinkUp

\* The head-end's wish survives the end of the failsafe.
THEOREM CommandsSurvive == Safety => ReleaseKeepsCommands
<1> DEFINE G == Releases => /\ "ch" \in outage.stands => demand'.ch = demand.ch
                            /\ "flow" \in outage.stands => demand'.flow = demand.flow
<1>1. IInv => [G]_vars
  BY ReleaseStep DEF IInv, StandsIsMarked, Release
<1> QED BY <1>1, Invariance, PTL DEF ReleaseKeepsCommands

\* An outage nobody interferes with leaves the demand as it was.
THEOREM QuietOutagesRestore == Safety => QuietOutageRestored
<1> DEFINE G == Releases /\ ~headend_cmd_ /\ Quiet =>
                  demand' = [ch   |-> outage.before.ch,
                             flow |-> ClampFlow(bounds, outage.before.flow)]
<1>1. IInv => [G]_vars
  <2> SUFFICES ASSUME IInv, Releases, ~headend_cmd_, Quiet
               PROVE  demand' = [ch   |-> outage.before.ch,
                                 flow |-> ClampFlow(bounds, outage.before.flow)]
    OBVIOUS
  <2>1. fs_state = "FAILSAFE"
    BY DEF Releases
  <2>2. fs_prev = outage.before
    BY <2>1 DEF IInv, QuietSnapshot
  <2>3. outage.stands = {}
    BY DEF IInv, StandsIsMarked
  <2>4. demand.ch
    BY <2>1, <2>3 DEF IInv, ForcedHeatStands
  <2>5. demand.ch \in BOOLEAN /\ outage.before.ch \in BOOLEAN /\ outage.before.flow # NAN
    BY DEF IInv, TypeOK, Outages, Snapshot, NoSnapshot, Quiet, Demand, Celsius, NAN
  <2>6. demand' = [ch |-> demand.ch /\ fs_prev.ch, flow |-> ClampFlow(bounds, fs_prev.flow)]
    BY <2>2, <2>5, ReleaseStep DEF Release
  <2>7. (demand.ch /\ fs_prev.ch) = outage.before.ch
    BY <2>2, <2>4, <2>5
  <2> QED BY <2>2, <2>6, <2>7
<1> QED BY <1>1, Invariance, PTL DEF QuietOutageRestored

-----------------------------------------------------------------------------
(* The whole device (Outage).  That the heal is patient is an argument     *)
(* about the clock: the unsigned difference it computes never exceeds the  *)
(* ticks WiFi has been seen down (Timed).                                  *)

\* A run that has come to two minutes has cleared the counter, whatever it was;
\* so the counter never exceeds the row of crashes, up to the threshold.
Counting == /\ healed => unclean_boots = 0
            /\ unclean_boots <= crashes \/ crashes >= SafeModeAfter
            /\ SafeModeMeansCrashLoop

\* A broker is taken away only by a save that schedules a restart.
Leaving == /\ pc = "setup" => fs_state # "FAILSAFE"
           /\ NoBrokerNoFailsafe

Timed == /\ pc = "setup" => wifi_down_since_ms_ = 0
         /\ wifi_down_since_ms_ # 0 => seen.on /\ WifiDownFor <= seen.ticks

OInv == TypeOK /\ OutageTypeOK /\ Counting /\ Leaving /\ Timed

-----------------------------------------------------------------------------
(* Every step is a step of Failsafe *)

LEMMA DeviceSteps == [OutageNext]_allVars => [Next]_vars
<1> SUFFICES ASSUME [OutageNext]_allVars PROVE [Next]_vars
  OBVIOUS
<1> USE DEF Next, LoopStep, Environment
<1>1. CASE NetLoop \/ NetLoopReboots
  <2>1. NoRequest \/ (wifi /\ PortalRequest)
    BY <1>1 DEF NetLoop, NetLoopReboots, Reboots, PortalRequest
  <2>2. Net
    BY <1>1, <2>1 DEF NetLoop, NetLoopReboots, Net
  <2> QED
    BY <2>2
<1>3. CASE MqttLoop \/ MqttLoopReboots
  <2>1. ASSUME NEW e \in BOOLEAN, NEW f \in FsFlows, NEW g \in Graces, FailsafeCfg(e, f, g)
        PROVE  MqttMessage
    BY <2>1 DEF MqttMessage
  <2>2. Reboots => MqttMessage
    BY DEF Reboots, MqttMessage
  <2>3. Mqtt
    BY <1>3, <2>1, <2>2 DEF MqttLoop, MqttLoopReboots, Mqtt
  <2> QED
    BY <2>3
<1>4. CASE RebootDue \/ Reset
  BY <1>4 DEF RebootDue, Reset
<1>5. CASE FailsafeRuns
  BY <1>5 DEF FailsafeRuns
<1>6. CASE MinutePasses \/ PullBlocks
  BY <1>6 DEF MinutePasses, PullBlocks
<1>7. CASE BootFails \/ BootDies
  BY <1>7 DEF BootFails, BootDies
<1>8. CASE BootDone
  BY <1>8 DEF BootDone
<1>9. CASE Outside
  BY <1>9 DEF Outside
<1>10. CASE UNCHANGED allVars
  BY <1>10 DEF allVars
<1> QED
  BY <1>1, <1>3, <1>4, <1>5, <1>6, <1>7, <1>8, <1>9, <1>10 DEF OutageNext, Iterate

\* So each of its behaviours is one of Failsafe.
LEMMA DeviceSafety == OutageSpec => Safety
<1>1. OutageInit => Init
  BY DEF OutageInit
<1> QED
  BY <1>1, DeviceSteps, PTL DEF OutageSpec, Safety

\* So on the whole device FAILSAFE is entered only after the grace period, ...
THEOREM DeviceRespectsGrace == OutageSpec => GraceRespected
BY DeviceSafety, GraceIsRespected

\* ... on time when it is entered in this run of the device at all, ...
THEOREM DeviceIsOnTime == OutageSpec => FailsafeOnTime
BY DeviceSafety, FailsafeIsOnTime

\* ... and what it forces stands.
THEOREM DeviceHeatStands == OutageSpec => []ForcedHeatStands
BY DeviceSafety, HeatStands

LEMMA DeviceTyped == OutageSpec => []TypeOK
BY DeviceSafety, TypeCorrect

-----------------------------------------------------------------------------
(* The inductive invariant *)

More == OutageTypeOK /\ Counting /\ Leaving /\ Timed

LEMMA Numbers ==
  /\ ClockMod \in Nat /\ ClockMod > 1 /\ HealTicks \in 1 .. ClockMod - 1
  /\ PullTicks \in Nat /\ PullTicks < ClockMod
  /\ MinForced \in Nat /\ SafeModeAfter \in Nat /\ SafeModeAfter >= 1 /\ UncleanCap \in Nat
BY ClockAssumption, PullAssumption, OutageAssumption

LEMMA MoreInit == OutageInit => More
<1> SUFFICES ASSUME OutageInit PROVE More
  OBVIOUS
<1>1. seen \in [on : BOOLEAN, ticks : 0 .. ClockMod]
  BY Numbers DEF OutageInit, NotSeen
<1>2. /\ wifi_down_since_ms_ \in 0 .. ClockMod - 1 /\ wifi_force_count_ \in 0 .. MinForced
      /\ unclean_boots \in 0 .. UncleanCap /\ crashes \in 0 .. SafeModeAfter
  BY Numbers DEF OutageInit
<1>3. /\ reboot_pending_ \in BOOLEAN /\ ot_safe_mode \in BOOLEAN /\ healed \in BOOLEAN
  BY DEF OutageInit
<1>4. Counting
  BY DEF OutageInit, Counting, SafeModeMeansCrashLoop
<1>5. Timed /\ Leaving
  BY DEF OutageInit, Init, Timed, Leaving, NoBrokerNoFailsafe
<1> QED
  BY <1>1, <1>2, <1>3, <1>4, <1>5 DEF More, OutageTypeOK

\* A boot, however the last run ended.
LEMMA BootKeeps ==
  ASSUME More, NEW clean \in BOOLEAN, Boot(clean), fs_state' # "FAILSAFE"
  PROVE  More'
<1>1. /\ unclean_boots \in Nat /\ unclean_boots <= UncleanCap
      /\ crashes \in Nat /\ crashes <= SafeModeAfter
  BY Numbers DEF More, OutageTypeOK, Counting
<1>2. /\ unclean_boots' = IF clean THEN 0
                          ELSE IF unclean_boots < UncleanCap THEN unclean_boots + 1
                                                             ELSE unclean_boots
      /\ crashes' = IF clean THEN 0
                    ELSE IF crashes < SafeModeAfter THEN crashes + 1 ELSE crashes
  BY DEF Boot, BootCount, Bump
<1>3. /\ ot_safe_mode' = (unclean_boots' >= SafeModeAfter) /\ healed' = FALSE
      /\ wifi_down_since_ms_' = 0 /\ wifi_force_count_' = 0 /\ reboot_pending_' = FALSE
      /\ seen' = NotSeen
  BY DEF Boot
<1>4. unclean_boots' \in 0 .. UncleanCap /\ crashes' \in 0 .. SafeModeAfter
  BY <1>1, <1>2, Numbers
<1>5. unclean_boots' <= crashes' \/ crashes' >= SafeModeAfter
  <2>1. unclean_boots <= crashes \/ crashes >= SafeModeAfter
    BY DEF More, Counting
  <2> QED
    BY <1>1, <1>2, <2>1, Numbers
<1>6. (unclean_boots' >= SafeModeAfter) \in BOOLEAN
  BY Numbers
<1>7. Counting'
  <2>1. unclean_boots' >= SafeModeAfter => crashes' >= SafeModeAfter
    BY <1>4, <1>5, Numbers
  <2>2. ot_safe_mode' => crashes' >= SafeModeAfter
    BY <1>3, <2>1
  <2> QED
    BY <1>3, <1>5, <2>2 DEF Counting, SafeModeMeansCrashLoop
<1>8. Timed'
  BY <1>3 DEF Timed
<1>9. OutageTypeOK'
  <2>1. /\ ot_safe_mode' \in BOOLEAN /\ healed' \in BOOLEAN /\ reboot_pending_' \in BOOLEAN
    BY <1>3, <1>6
  <2>2. wifi_down_since_ms_' \in 0 .. ClockMod - 1 /\ wifi_force_count_' \in 0 .. MinForced
    BY <1>3, Numbers
  <2>3. seen' \in [on : BOOLEAN, ticks : 0 .. ClockMod]
    BY <1>3, Numbers DEF NotSeen
  <2> QED
    BY <1>4, <2>1, <2>2, <2>3 DEF OutageTypeOK
<1>10. Leaving'
  BY DEF Leaving, NoBrokerNoFailsafe
<1> QED
  BY <1>7, <1>8, <1>9, <1>10 DEF More

\* The first lines of loop().
LEMMA LoopTopKeeps ==
  ASSUME OutageTypeOK, Counting, LoopTop, pc' # "setup"
  PROVE  /\ Counting' /\ unclean_boots' \in 0 .. UncleanCap /\ ot_safe_mode' \in BOOLEAN
         /\ healed' \in BOOLEAN /\ crashes' \in 0 .. SafeModeAfter
<1>1. healed' \in BOOLEAN /\ (healed => healed') /\ (now' > 1 => healed')
  BY DEF LoopTop
<1>2. /\ unclean_boots' = IF healed' /\ ~healed THEN 0 ELSE unclean_boots
      /\ crashes' = IF now' > 1 THEN 0 ELSE crashes
      /\ ot_safe_mode' = ot_safe_mode
  BY DEF LoopTop
<1>3. unclean_boots \in 0 .. UncleanCap /\ crashes \in 0 .. SafeModeAfter
  BY DEF OutageTypeOK
<1>4. unclean_boots' \in 0 .. UncleanCap /\ crashes' \in 0 .. SafeModeAfter
  BY <1>2, <1>3, Numbers
<1>5. healed' => unclean_boots' = 0
  BY <1>1, <1>2 DEF Counting
<1>6. unclean_boots' <= crashes' \/ crashes' >= SafeModeAfter
  <2>1. CASE now' > 1
    BY <1>1, <1>2, <1>5, <2>1
  <2>2. CASE ~(now' > 1)
    BY <1>2, <1>3, <2>2, Numbers DEF Counting
  <2> QED
    BY <2>1, <2>2
<1> QED
  BY <1>1, <1>2, <1>4, <1>5, <1>6 DEF OutageTypeOK, Counting, SafeModeMeansCrashLoop

\* bulletproofWifiTick().
LEMMA WifiTickKeeps ==
  ASSUME TypeOK, More, WifiTick, now' = now, pc # "setup", UNCHANGED bootVars,
         pc' # "setup", UNCHANGED <<fs_state, mqtt_host>>
  PROVE  More'
<1>1. /\ now \in 0 .. ClockMod - 1 /\ wifi_down_since_ms_ \in 0 .. ClockMod - 1
      /\ wifi_force_count_ \in 0 .. MinForced /\ reboot_pending_ \in BOOLEAN
      /\ seen.on \in BOOLEAN /\ seen.ticks \in 0 .. ClockMod
      /\ seen \in [on : BOOLEAN, ticks : 0 .. ClockMod]
  BY DEF TypeOK, More, OutageTypeOK
<1>2. Bump(wifi_force_count_, MinForced) \in 0 .. MinForced
  BY <1>1, Numbers DEF Bump
<1>3. Counting'
  BY DEF More, Counting, SafeModeMeansCrashLoop, bootVars
<1>4. /\ unclean_boots' \in 0 .. UncleanCap /\ ot_safe_mode' \in BOOLEAN
      /\ healed' \in BOOLEAN /\ crashes' \in 0 .. SafeModeAfter
  BY DEF More, OutageTypeOK, bootVars
<1>7. Leaving'
  <2>1. reboot_pending_ => reboot_pending_'
    BY DEF WifiTick, WifiIsUp, WifiIsDown, HealDecide
  <2> QED
    BY <2>1 DEF More, Leaving, NoBrokerNoFailsafe
<1>5. CASE wifi
  <2>1. /\ wifi_down_since_ms_' = 0 /\ wifi_force_count_' = 0 /\ seen' = NotSeen
        /\ reboot_pending_' = reboot_pending_
    BY <1>5 DEF WifiTick, WifiIsUp
  <2>2. seen' \in [on : BOOLEAN, ticks : 0 .. ClockMod]
    BY <2>1, Numbers DEF NotSeen
  <2>3. wifi_down_since_ms_' \in 0 .. ClockMod - 1 /\ wifi_force_count_' \in 0 .. MinForced
    BY <2>1, Numbers
  <2>4. OutageTypeOK'
    BY <1>1, <1>4, <2>1, <2>2, <2>3 DEF OutageTypeOK
  <2>5. Timed'
    BY <2>1 DEF Timed
  <2> QED
    BY <1>3, <1>7, <2>4, <2>5 DEF More
<1>6. CASE ~wifi
  <2>1. WifiIsDown
    BY <1>6 DEF WifiTick
  <2>2. /\ seen'.on = TRUE /\ seen'.ticks = seen.ticks
        /\ seen' \in [on : BOOLEAN, ticks : 0 .. ClockMod]
    BY <1>1, <2>1 DEF WifiIsDown
  <2>3. \/ wifi_down_since_ms_' = 0
        \/ wifi_down_since_ms_ = 0 /\ wifi_down_since_ms_' = now
        \/ wifi_down_since_ms_ # 0 /\ wifi_down_since_ms_' = wifi_down_since_ms_
    BY <2>1 DEF WifiIsDown
  <2>4. wifi_force_count_' \in 0 .. MinForced
    BY <1>1, <1>2, <2>1, Numbers DEF WifiIsDown
  <2>5. reboot_pending_' \in BOOLEAN
    BY <1>1, <2>1 DEF WifiIsDown
  <2>6. wifi_down_since_ms_' \in 0 .. ClockMod - 1
    BY <1>1, <2>3, Numbers
  <2>7. OutageTypeOK'
    BY <1>4, <2>2, <2>4, <2>5, <2>6 DEF OutageTypeOK
  <2>8. wifi_down_since_ms_' # 0 => WifiDownFor' <= seen'.ticks
    <3>1. CASE wifi_down_since_ms_' = now
      BY <1>1, <2>2, <3>1, Numbers DEF WifiDownFor
    <3>2. CASE wifi_down_since_ms_ # 0 /\ wifi_down_since_ms_' = wifi_down_since_ms_
      BY <1>1, <2>2, <3>2 DEF WifiDownFor, More, Timed
    <3> QED
      BY <2>3, <3>1, <3>2
  <2>9. Timed'
    BY <2>2, <2>8 DEF Timed
  <2> QED
    BY <1>3, <1>7, <2>7, <2>9 DEF More
<1> QED
  BY <1>5, <1>6

\* Time passes: the true length of the outage grows with the computed one.
LEMMA LongerKeeps ==
  ASSUME TypeOK, OutageTypeOK, Timed, NEW d \in 1 .. ClockMod - 1, now' = Later(d),
         seen' = SeenLonger(d), UNCHANGED wifi_down_since_ms_, pc # "setup", pc' # "setup"
  PROVE  Timed' /\ seen' \in [on : BOOLEAN, ticks : 0 .. ClockMod]
<1>1. /\ now \in 0 .. ClockMod - 1 /\ wifi_down_since_ms_ \in 0 .. ClockMod - 1
      /\ seen.on \in BOOLEAN /\ seen.ticks \in 0 .. ClockMod
      /\ seen \in [on : BOOLEAN, ticks : 0 .. ClockMod]
  BY DEF TypeOK, OutageTypeOK
<1>2. now' = IF now + d < ClockMod THEN now + d ELSE now + d - ClockMod
  BY DEF Later
<1> DEFINE t == IF seen.on THEN ClampTo(0, ClockMod, seen.ticks + d) ELSE seen.ticks
<1>3. t \in 0 .. ClockMod /\ (seen.on => t = IF seen.ticks + d > ClockMod
                                                THEN ClockMod ELSE seen.ticks + d)
  BY <1>1, Numbers DEF ClampTo
<1>4. seen' = [seen EXCEPT !.ticks = t]
  BY DEF SeenLonger
<1> HIDE DEF t
<1>5. /\ seen'.on = seen.on /\ seen'.ticks = t
      /\ seen' \in [on : BOOLEAN, ticks : 0 .. ClockMod]
  BY <1>1, <1>3, <1>4
<1>6. ASSUME wifi_down_since_ms_ # 0 PROVE seen.on /\ WifiDownFor' <= t
  <2>1. seen.on /\ WifiDownFor <= seen.ticks
    BY <1>6 DEF Timed
  <2> QED
    BY <1>1, <1>2, <1>3, <2>1, Numbers DEF WifiDownFor
<1> QED
  BY <1>5, <1>6 DEF Timed

LEMMA MinuteKeeps ==
  ASSUME TypeOK, More, MinutePasses
  PROVE  More'
<1>1. /\ now' = Later(1) /\ pc = "top" /\ pc' = "net" /\ LoopTop /\ seen' = SeenLonger(1)
      /\ UNCHANGED <<wifi_down_since_ms_, wifi_force_count_, reboot_pending_, fs_state, mqtt_host>>
  BY DEF MinutePasses, Tick, policyVars, linkVars
<1>2. 1 \in 1 .. ClockMod - 1
  BY Numbers
<1>3. Timed' /\ seen' \in [on : BOOLEAN, ticks : 0 .. ClockMod]
  BY <1>1, <1>2, LongerKeeps DEF More
<1>4. Counting' /\ OutageTypeOK'
  BY <1>1, <1>3, LoopTopKeeps DEF More, OutageTypeOK
<1>5. Leaving'
  BY <1>1 DEF More, Leaving, NoBrokerNoFailsafe
<1> QED
  BY <1>3, <1>4, <1>5 DEF More

LEMMA PullBlocksKeeps ==
  ASSUME TypeOK, More, PullBlocks
  PROVE  More'
<1>1. PICK d \in 1 .. PullTicks : Pull(d) /\ seen' = SeenLonger(d)
  BY DEF PullBlocks
<1>2. /\ now' = Later(d) /\ pc = "mqtt" /\ pc' = "fs"
      /\ ~reboot_pending_ /\ reboot_pending_' \in BOOLEAN
      /\ UNCHANGED <<wifi_down_since_ms_, wifi_force_count_, bootVars>>
      /\ UNCHANGED <<fs_state, mqtt_host>>
  BY <1>1 DEF PullBlocks, Pull, policyVars
<1>3. d \in 1 .. ClockMod - 1
  BY Numbers
<1>4. Timed' /\ seen' \in [on : BOOLEAN, ticks : 0 .. ClockMod]
  BY <1>1, <1>2, <1>3, LongerKeeps DEF More
<1>5. Counting' /\ OutageTypeOK'
  BY <1>2, <1>4 DEF More, OutageTypeOK, Counting, SafeModeMeansCrashLoop, bootVars
<1>6. Leaving'
  BY <1>2 DEF More, Leaving, NoBrokerNoFailsafe
<1> QED
  BY <1>4, <1>5, <1>6 DEF More

\* A step of the rest of the device, which leaves the heal and the boots alone.
LEMMA RestKeeps ==
  ASSUME More, UNCHANGED <<healVars, bootVars, fs_state, mqtt_host>>,
         pc' = "setup" => pc = "setup", now' = now
  PROVE  More'
<1>1. OutageTypeOK' /\ Counting'
  BY DEF More, OutageTypeOK, Counting, SafeModeMeansCrashLoop, healVars, bootVars
<1>2. Timed'
  BY DEF More, Timed, WifiDownFor, healVars
<1>3. Leaving'
  BY DEF More, Leaving, NoBrokerNoFailsafe, healVars
<1> QED
  BY <1>1, <1>2, <1>3 DEF More

\* A request that ends in a reboot.
LEMMA RebootsKeeps ==
  ASSUME More, Reboots, UNCHANGED <<now, bootVars>>, pc # "setup", pc' # "setup",
         \/ UNCHANGED <<wifi_down_since_ms_, wifi_force_count_, seen>>
         \/ wifi_down_since_ms_' = 0 /\ wifi_force_count_' = 0 /\ seen' = NotSeen
  PROVE  More'
<1>1. reboot_pending_' = TRUE /\ fs_state' = fs_state
  BY DEF Reboots, SettingsSaved, policyVars
<1>0. NotSeen \in [on : BOOLEAN, ticks : 0 .. ClockMod]
  BY Numbers DEF NotSeen
<1>2. seen' \in [on : BOOLEAN, ticks : 0 .. ClockMod]
  BY <1>0 DEF More, OutageTypeOK
<1>3. wifi_down_since_ms_' \in 0 .. ClockMod - 1 /\ wifi_force_count_' \in 0 .. MinForced
  BY Numbers DEF More, OutageTypeOK
<1>4. OutageTypeOK' /\ Counting'
  BY <1>1, <1>2, <1>3 DEF More, OutageTypeOK, Counting, SafeModeMeansCrashLoop, bootVars
<1>5. Timed'
  BY DEF More, Timed, WifiDownFor
<1>6. Leaving'
  BY <1>1 DEF Leaving, NoBrokerNoFailsafe
<1> QED
  BY <1>4, <1>5, <1>6 DEF More

\* The end of setup(): the clock starts, and so does loop().
LEMMA BootDoneKeeps ==
  ASSUME More, BootDone
  PROVE  More'
<1>1. /\ LoopTop /\ UNCHANGED healVars /\ pc = "setup" /\ pc' = "top" /\ fs_state' = fs_state
  BY DEF BootDone, SetupDone, policyVars
<1>2. Counting' /\ OutageTypeOK'
  BY <1>1, LoopTopKeeps DEF More, OutageTypeOK, healVars
<1>3. Timed' /\ Leaving'
  BY <1>1 DEF More, Timed, Leaving, NoBrokerNoFailsafe, healVars
<1> QED
  BY <1>2, <1>3 DEF More

\* failsafeLoop enters FAILSAFE only with a broker.
LEMMA FailsafeRunsKeeps ==
  ASSUME More, FailsafeRuns
  PROVE  More'
<1>1. /\ LoopTop /\ UNCHANGED healVars /\ pc = "fs" /\ pc' = "top" /\ now' = now
      /\ mqtt_host' = mqtt_host /\ (~mqtt_host => fs_state' = fs_state)
  BY DEF FailsafeRuns, FailsafeStep, linkVars, policyVars
<1>2. Counting' /\ OutageTypeOK'
  BY <1>1, LoopTopKeeps DEF More, OutageTypeOK, healVars
<1>3. Timed'
  BY <1>1 DEF More, Timed, WifiDownFor, healVars
<1>4. Leaving'
  BY <1>1 DEF More, Leaving, NoBrokerNoFailsafe, healVars
<1> QED
  BY <1>2, <1>3, <1>4 DEF More

LEMMA MoreStep == TypeOK /\ More /\ [OutageNext]_allVars => More'
<1> SUFFICES ASSUME TypeOK, More, [OutageNext]_allVars PROVE More'
  OBVIOUS
<1>1. CASE NetLoop
  <2>1. UNCHANGED <<fs_state, mqtt_host>>
    BY <1>1 DEF NetLoop, NoRequest, FailsafeCfg, policyVars
  <2> QED
    BY <1>1, <2>1, WifiTickKeeps DEF NetLoop
<1>2. CASE NetLoopReboots \/ MqttLoopReboots
  <2>1. /\ Reboots /\ UNCHANGED <<now, bootVars>> /\ pc # "setup" /\ pc' # "setup"
        /\ \/ UNCHANGED <<wifi_down_since_ms_, wifi_force_count_, seen>>
           \/ wifi_down_since_ms_' = 0 /\ wifi_force_count_' = 0 /\ seen' = NotSeen
    BY <1>2 DEF NetLoopReboots, MqttLoopReboots
  <2> QED
    BY <2>1, RebootsKeeps
<1>3. CASE MqttLoop
  <2>1. UNCHANGED <<healVars, bootVars, fs_state, mqtt_host>> /\ now' = now /\ pc' # "setup"
    BY <1>3 DEF MqttLoop, NoRequest, FailsafeCfg, policyVars
  <2> QED
    BY <2>1, RestKeeps
<1>4. CASE RebootDue \/ Reset
  <2>1. (\E clean \in BOOLEAN : Boot(clean)) /\ fs_state' # "FAILSAFE"
    BY <1>4 DEF RebootDue, Reset, Restart
  <2> QED
    BY <2>1, BootKeeps
<1>10. CASE BootFails \/ BootDies
  <2>1. (\E clean \in BOOLEAN : Boot(clean)) /\ fs_state' = fs_state /\ pc = "setup"
    BY <1>10 DEF BootFails, BootDies, vars
  <2>2. fs_state' # "FAILSAFE"
    BY <2>1 DEF More, Leaving
  <2> QED
    BY <2>1, <2>2, BootKeeps
<1>5. CASE FailsafeRuns
  BY <1>5, FailsafeRunsKeeps
<1>6. CASE MinutePasses \/ PullBlocks
  BY <1>6, MinuteKeeps, PullBlocksKeeps
<1>7. CASE BootDone
  BY <1>7, BootDoneKeeps
<1>8. CASE Outside
  <2>1. UNCHANGED <<healVars, bootVars, fs_state, mqtt_host>> /\ now' = now /\ pc' = pc
    BY <1>8 DEF Outside, WifiChanges, SessionDrops, LearnBounds, policyVars, linkVars
  <2> QED
    BY <2>1, RestKeeps
<1>9. CASE UNCHANGED allVars
  <2>1. UNCHANGED <<healVars, bootVars, fs_state, mqtt_host>> /\ now' = now /\ pc' = pc
    BY <1>9 DEF allVars, vars
  <2> QED
    BY <2>1, RestKeeps
<1> QED
  BY <1>1, <1>2, <1>3, <1>4, <1>5, <1>6, <1>7, <1>8, <1>9, <1>10 DEF OutageNext, Iterate

LEMMA AlwaysOInv == OutageSpec => []OInv
<1>1. OutageSpec => []More
  BY MoreInit, MoreStep, DeviceTyped, PTL DEF OutageSpec
<1>2. TypeOK /\ More => OInv
  BY DEF OInv, More
<1> QED
  BY <1>1, <1>2, DeviceTyped, PTL

-----------------------------------------------------------------------------
(* The theorems *)

\* Only SafeModeAfter crashes in a row lead to the safe mode, with no clean restart
\* and no run of two minutes between them.
THEOREM SafeModeIsEarned == OutageSpec => []SafeModeMeansCrashLoop
<1>1. OInv => SafeModeMeansCrashLoop
  BY DEF OInv, Counting
<1> QED
  BY <1>1, AlwaysOInv, PTL

\* No device without a broker heats for the failsafe, but one that is restarting.
THEOREM StandaloneIsReleased == OutageSpec => []NoBrokerNoFailsafe
<1>1. OInv => NoBrokerNoFailsafe
  BY DEF OInv, Leaving
<1> QED
  BY <1>1, AlwaysOInv, PTL

\* The heal restarts the device only after HealTicks without one good sighting.
THEOREM HealIsPatient == OutageSpec => HealAfterSolidOutage
<1> DEFINE G == ~wifi /\ reboot_pending_' /\ ~reboot_pending_ =>
                  seen.on /\ seen.ticks >= HealTicks
<1>1. OInv /\ [OutageNext]_allVars => [G]_allVars
  <2> SUFFICES ASSUME OInv, OutageNext, ~wifi, reboot_pending_', ~reboot_pending_
               PROVE  seen.on /\ seen.ticks >= HealTicks
    OBVIOUS
  <2>1. NetLoop
    BY DEF OutageNext, Iterate, NetLoopReboots, MqttLoop, MqttLoopReboots, RebootDue, Reset,
           BootFails, BootDies, BootDone, Outside, PullBlocks, Pull, FailsafeRuns, MinutePasses,
           Boot, healVars
  <2>2. WifiIsDown
    BY <2>1 DEF NetLoop, WifiTick
  <2> DEFINE down == IF wifi_down_since_ms_ = 0 THEN 0 ELSE WifiDownFor
  <2>3. HealDecide(down, wifi_force_count_, reboot_pending_)
    BY <2>2 DEF WifiIsDown
  <2>4. down >= HealTicks
    BY <2>3 DEF HealDecide
  <2>5. wifi_down_since_ms_ # 0
    BY <2>4, Numbers
  <2>6. seen.on /\ WifiDownFor <= seen.ticks
    BY <2>5 DEF OInv, Timed
  <2>7. /\ now \in 0 .. ClockMod - 1 /\ wifi_down_since_ms_ \in 0 .. ClockMod - 1
        /\ seen.ticks \in 0 .. ClockMod
    BY DEF OInv, TypeOK, OutageTypeOK
  <2> QED
    BY <2>4, <2>5, <2>6, <2>7, Numbers DEF WifiDownFor
<1> QED
  BY <1>1, AlwaysOInv, PTL DEF OutageSpec, HealAfterSolidOutage
=============================================================================
