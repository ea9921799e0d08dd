------------------------------- MODULE Gateway ------------------------------
(***************************************************************************)
(* The gateway's path from a thermostat request to the boiler:             *)
(* OtGateway::handleRequest, GatewayRouter (answer cache, setpoint         *)
(* override, link flag) and OtMaster::sendRaw with the link hysteresis     *)
(* that telemetry shows.  OtSlave hands the requests over, one at a time;  *)
(* the counters and what sendRaw only displays are left out.               *)
(*                                                                         *)
(* The one exchange with the boiler blocks loop(), so that nothing but the *)
(* boiler moves while a frame is out.  Nothing matches an answer with its  *)
(* request: the data may be those of an earlier, late one, that is, any.   *)
(* A tick is a fraction of kGwLinkProbeMs; ages stop where no comparison   *)
(* tells them apart (a wrap of millis() delays one probe by 5 s).          *)
(***************************************************************************)
EXTENDS Integers

CONSTANTS
  Ids,         \* message ids the thermostat uses
  TSet,        \* kIdTSet
  Values,      \* payloads
  Overrides,   \* setpoints the owner forces
  CacheN,      \* kCacheN
  ProbeTicks,  \* kGwLinkProbeMs
  HoldTicks,   \* kOtLinkHoldMs
  Threshold    \* kOtLinkFailThreshold

ASSUME IdAssumption    == TSet \in Ids
ASSUME ValueAssumption == -1 \notin Values \cup Overrides
ASSUME CountAssumption ==
  /\ CacheN \in Nat \ {0} /\ ProbeTicks \in Nat \ {0}
  /\ HoldTicks \in Nat /\ Threshold \in Nat \ {0}

VARIABLES
  boiler_up_,      \* the router's link flag
  cache_,          \* the answers kept: slot -> [used, id, data]
  ov_setpoint_c_,  \* NAN when released
  since,           \* age of last_probe_ms_
  frame,           \* the request on the boiler's wire
  link,            \* snap_.valid, status_fail_streak_, the age of last_ok_ms
  newest           \* history: the last data the boiler gave for each id

vars == <<boiler_up_, cache_, ov_setpoint_c_, since, frame, link, newest>>

NAN   == -1
Slots == 1 .. CacheN
Empty == [used |-> FALSE, id |-> TSet, data |-> NAN]
Quiet == [out |-> FALSE, write |-> FALSE, id |-> TSet, data |-> NAN]

Requests == [out : {TRUE}, write : BOOLEAN, id : Ids, data : Values \cup Overrides]
Links    == [valid : BOOLEAN, streak : 0 .. Threshold, age : 0 .. HoldTicks + 1]
-----------------------------------------------------------------------------
LesserOf(a, b) == IF a < b THEN a ELSE b

\* cacheFind: the first slot of that id; 0 when there is none.
Holding(id) == {s \in Slots : cache_[s].used /\ cache_[s].id = id}
First(S)    == IF S = {} THEN 0 ELSE CHOOSE s \in S : \A t \in S : s <= t

\* cachePut: the slot of that id, else the first free one, else the first.
CachePutFresh(id, data) ==
  LET free == First({s \in Slots : ~cache_[s].used})
      slot == IF free # 0 THEN free ELSE 1
  IN  [cache_ EXCEPT ![slot] = [used |-> TRUE, id |-> id, data |-> data]]
CachePutOnce(id, data) ==
  IF Holding(id) # {} THEN cache_ ELSE CachePutFresh(id, data)
CachePut(id, data) ==
  LET free == First({s \in Slots : ~cache_[s].used})
      slot == IF Holding(id) # {} THEN First(Holding(id)) ELSE IF free # 0 THEN free ELSE 1
  IN  [cache_ EXCEPT ![slot] = [used |-> TRUE, id |-> id, data |-> data]]

\* noteStatusOk_, noteStatusFail_
NoteOk == [valid |-> TRUE, streak |-> 0, age |-> 0]
NoteFailShort ==
  LET streak == LesserOf(link.streak + 1, Threshold)
  IN  [link EXCEPT !.streak = streak, !.valid = @ /\ streak <= Threshold]
NoteFail ==
  LET streak == LesserOf(link.streak + 1, Threshold)
  IN  [link EXCEPT !.streak = streak,
                   !.valid  = @ /\ streak < Threshold /\ link.age <= HoldTicks]
-----------------------------------------------------------------------------
\* activate() resets the router; the master polled for itself until then.
Init ==
  /\ boiler_up_ = TRUE /\ cache_ = [s \in Slots |-> Empty] /\ ov_setpoint_c_ = NAN
  /\ since \in 0 .. ProbeTicks
  /\ frame = Quiet
  /\ link \in [valid : BOOLEAN, streak : {0}, age : {0}]
  /\ newest = [id \in Ids |-> NAN]

\* MQTT's gw/override_setpoint and the portal's /api/gw/override.
SetOverride ==
  /\ ~frame.out
  /\ ov_setpoint_c_' \in Overrides \cup {NAN}
  /\ UNCHANGED <<boiler_up_, cache_, since, frame, link, newest>>

Tick ==
  /\ ~frame.out
  /\ since' = LesserOf(since + 1, ProbeTicks)
  /\ link' = [link EXCEPT !.age = LesserOf(@ + 1, HoldTicks + 1)]
  /\ UNCHANGED <<boiler_up_, cache_, ov_setpoint_c_, frame, newest>>

\* handleRequest tries a link that is down again every ProbeTicks.
ProbingNever == FALSE
Probing == ~boiler_up_ /\ since >= ProbeTicks

\* route on a link that is down: answered from the cache or refused.
AnswerLocal ==
  /\ ~frame.out /\ ~boiler_up_ /\ ~Probing
  /\ UNCHANGED vars

\* route on a link that is up, or is tried: a write of TSet carries the override.
Routed(write, id, data) ==
  [out |-> TRUE, write |-> write, id |-> id,
   data |-> IF id = TSet /\ write /\ ov_setpoint_c_ # NAN THEN ov_setpoint_c_ ELSE data]
ForwardProbeVerbatim ==
  /\ ~frame.out /\ (boiler_up_ \/ Probing)
  /\ \E write \in BOOLEAN, id \in Ids, data \in Values :
       frame' = IF Probing THEN [out |-> TRUE, write |-> write, id |-> id, data |-> data]
                ELSE Routed(write, id, data)
  /\ since' = IF Probing THEN 0 ELSE since
  /\ boiler_up_' = TRUE
  /\ UNCHANGED <<cache_, ov_setpoint_c_, link, newest>>
Forward ==
  /\ ~frame.out /\ (boiler_up_ \/ Probing)
  /\ \E write \in BOOLEAN, id \in Ids, data \in Values : frame' = Routed(write, id, data)
  /\ since' = IF Probing THEN 0 ELSE since
  /\ boiler_up_' = TRUE
  /\ UNCHANGED <<cache_, ov_setpoint_c_, link, newest>>

\* A frame comes back.  Whatever is no refusal is cached (noteBoilerResponse).
Answered ==
  /\ frame.out /\ frame' = Quiet
  /\ boiler_up_' = TRUE /\ link' = NoteOk
  /\ \/ \E data \in Values :
          /\ cache_' = CachePut(frame.id, data)
          /\ newest' = [newest EXCEPT ![frame.id] = data]
     \/ UNCHANGED <<cache_, newest>>
  /\ UNCHANGED <<ov_setpoint_c_, since>>

\* Silence or a broken frame: the thermostat gets a local answer.
Failed ==
  /\ frame.out /\ frame' = Quiet
  /\ boiler_up_' = FALSE /\ link' = NoteFail
  /\ UNCHANGED <<cache_, ov_setpoint_c_, since, newest>>

Next == SetOverride \/ Tick \/ AnswerLocal \/ Forward \/ Answered \/ Failed

\* Time passes and a blocking exchange ends; nobody has to ask or to answer.
Fairness == WF_vars(Tick) /\ WF_vars(Answered \/ Failed)

Spec == Init /\ [][Next]_vars /\ Fairness
-----------------------------------------------------------------------------
(* Properties *)

\* Types; and no two slots of the cache hold one id.
TypeOK ==
  /\ boiler_up_ \in BOOLEAN /\ since \in 0 .. ProbeTicks /\ link \in Links
  /\ cache_ \in [Slots -> [used : BOOLEAN, id : Ids, data : Values \cup {NAN}]]
  /\ ov_setpoint_c_ \in Overrides \cup {NAN}
  /\ frame \in Requests \cup {Quiet}
  /\ newest \in [Ids -> Values \cup {NAN}]
  /\ \A s, t \in Slots : cache_[s].used /\ cache_[t].used /\ cache_[s].id = cache_[t].id => s = t

\* What the thermostat is told while the boiler is away is the newest the boiler
\* gave for that id, however many ids the eight slots were shared by
\* (cacheFind and cachePut of GatewayRouter).
CacheIsNewest ==
  \A id \in Ids : Holding(id) # {} => cache_[First(Holding(id))].data = newest[id]

\* While an override is set no TSet of the thermostat's own reaches the boiler,
\* not even the frame that tries a dead link again (route, handleRequest).
OverrideReachesBoiler ==
  frame.out /\ frame.write /\ frame.id = TSet /\ ov_setpoint_c_ # NAN
    => frame.data = ov_setpoint_c_

\* A lost frame does not wedge the gateway: if the thermostat keeps asking and
\* the boiler loses nothing more, requests are forwarded again for good (the
\* self-heal of handleRequest).
LinkRecovers ==
  WF_vars(Forward) /\ <>[][~Failed]_vars => <>[]boiler_up_

\* A boiler that never answers again is shown as lost, although most requests
\* are answered locally and no longer touch the link's state (noteStatusFail_
\* is only reached by the probes).
LossIsShown ==
  WF_vars(Forward) /\ <>[][~Answered]_vars => <>[](~link.valid)
=============================================================================
