------------------------------- MODULE OtMaster ------------------------------
(***************************************************************************)
(* The poll cycle of the OpenTherm master (ot_master.cpp): doPoll_ with    *)
(* its Status exchange, writeTSet_ with the weather curve and the ceiling  *)
(* learned from the boiler's echoes (hcs_ot_caps.h, hcs_weather_comp.h),   *)
(* the slot that rotates, and the outdoor temperature, which comes from    *)
(* the boiler or from a 1-Wire probe.  The return temperature has the same *)
(* two sources and nothing depends on it; what a poll only displays, the   *)
(* link flag included, is left out.                                        *)
(*                                                                         *)
(* A poll is three steps, one for each exchange that matters; the rest of  *)
(* loop() runs between polls, the boiler changes at any time.  The age of  *)
(* the boiler's outdoor reading is compared with one limit, 60 s, so that  *)
(* it is young or old.                                                     *)
(* Flow temperatures are whole units, as is the echo's tolerance.          *)
(***************************************************************************)
EXTENDS Integers

CONSTANTS
  Flows,         \* flow setpoints the setters are given
  Curves,        \* weather curves weather_comp_cfg accepts
  Outdoors,      \* outdoor temperatures
  Ceilings,      \* flow temperatures the boiler may stop at
  Limits,        \* MaxTSet bounds the boiler may report
  Slots,         \* slots the rotation has, 8 in the code
  Tol,           \* 0.45 K
  Confirmations, \* lower echoes that latch or lower the cap
  ProbeEvery     \* writes between two without the cap

NAN     == -1000                       \* no reading, no curve target
NoCurve == [ref |-> 0, design |-> 0, fmax |-> 0, fmin |-> 0]
Unknown == [known |-> FALSE, lb |-> 20, ub |-> 90]  \* writeTSet_ until the boiler tells

ASSUME FlowAssumption == Flows \subseteq 1 .. 90 /\ Flows # {} /\ Ceilings \subseteq 1 .. 90 /\ Ceilings # {}
\* hcs_weather_comp_parse_cfg
ASSUME CurveAssumption ==
  /\ Outdoors \subseteq -60 .. 125
  /\ \A c \in Curves :
       /\ DOMAIN c = {"ref", "design", "fmax", "fmin"}
       /\ c.ref \in Int /\ c.design \in Int /\ c.design < c.ref
       /\ c.fmin \in 10 .. 90 /\ c.fmax \in c.fmin .. 90
\* slowRead_, ID 49
ASSUME LimitAssumption == Limits \subseteq {b \in [known : {TRUE}, lb : 0 .. 90, ub : 20 .. 90] : b.lb <= b.ub}
ASSUME CountAssumption ==
  /\ Tol \in Nat /\ Confirmations \in Nat \ {0} /\ ProbeEvery \in Nat \ {0}
  /\ Slots \in Nat \ 0 .. 2

VARIABLES
  pc,           \* "idle", "write", "slot"
  demand,       \* ch_enable_, flow_setpoint_, wc_ (NoCurve when disabled, or failsafe_)
  inj,          \* the 1-Wire outdoor reading, NAN when not valid
  outdoor,      \* snap_.outdoor_temp, outdoor_from_ot, its age more than 60 s
  bounds,       \* snap_.maxtset_*, Unknown until learned
  cap,          \* valid_tset_cap_, tset_cap_, tset_confirm_
  probe,        \* tset_probe_ctr_, modulo ProbeEvery
  rot,          \* rot_, modulo Slots
  wire,         \* the last TSet written
  ceiling, report  \* the boiler: where it stops, its outdoor reading

vars == <<pc, demand, inj, outdoor, bounds, cap, probe, rot, wire, ceiling, report>>
boilerVars == <<ceiling, report>>
tsetVars   == <<cap, probe, wire>>

Demands  == [ch : BOOLEAN, flow : 1 .. 90, curve : Curves \cup {NoCurve}]
Readings == Outdoors \cup {NAN}
Caps     == [have : BOOLEAN, at : 0 .. 90, confirm : 0 .. Confirmations - 1]
-----------------------------------------------------------------------------
(* Pure helpers *)

LesserOf(a, b) == IF a < b THEN a ELSE b

\* ot_clamp_with_bounds
Clamp(b, v) == IF v < b.lb THEN b.lb ELSE IF v > b.ub THEN b.ub ELSE v

\* setFlowSetpoint clamps to 10..90 or to the learned bounds, from 1 degree up.
Setpoint(c) ==
  Clamp(IF ~bounds.known THEN [lb |-> 10, ub |-> 90]
        ELSE [lb |-> IF bounds.lb < 1 THEN 1 ELSE bounds.lb, ub |-> bounds.ub], c)

\* hcs_weather_comp_target
CurveTarget(c, t) ==
  IF c = NoCurve \/ t = NAN THEN NAN
  ELSE IF t >= c.ref THEN c.fmin
  ELSE IF t <= c.design THEN c.fmax
  ELSE c.fmin + ((c.ref - t) * (c.fmax - c.fmin)) \div (c.ref - c.design)

\* What writeTSet_ wants the boiler to hold.
Target ==
  LET wc == CurveTarget(demand.curve, outdoor.temp)
  IN  Clamp(bounds, IF wc = NAN THEN demand.flow ELSE wc)

\* applyInject_ on the outdoor reading o.
Injected(o) == IF ~o.from_ot /\ inj # NAN THEN [o EXCEPT !.temp = inj] ELSE o

\* ot_tset_echo_learn
LearnEager(c, want, echoed) ==
  IF ~c.have /\ c.confirm + 1 >= Confirmations
    THEN [have |-> TRUE, at |-> echoed, confirm |-> 0]
  ELSE IF echoed >= want - Tol /\ want > c.at + Tol
    THEN [have |-> FALSE, at |-> 0, confirm |-> 0]
  ELSE [c EXCEPT !.confirm = IF c.have THEN 0 ELSE @ + 1]
Learn(c, want, echoed) ==
  LET lower  == echoed < want - Tol
      enough == c.confirm + 1 >= Confirmations
      again  == [c EXCEPT !.confirm = @ + 1]
      over   == [c EXCEPT !.confirm = 0]
      latch  == [have |-> TRUE, at |-> echoed, confirm |-> 0]
  IN  IF ~c.have THEN IF ~lower THEN over ELSE IF enough THEN latch ELSE again
      ELSE IF ~lower
        THEN IF want > c.at + Tol THEN [have |-> FALSE, at |-> 0, confirm |-> 0] ELSE over
      ELSE IF echoed + Tol < c.at THEN IF enough THEN latch ELSE again
      ELSE IF echoed > c.at + Tol THEN latch ELSE over
-----------------------------------------------------------------------------
Init ==
  /\ pc = "idle"
  /\ demand \in [ch : {FALSE}, flow : {45}, curve : Curves \cup {NoCurve}]
  /\ inj = NAN
  /\ outdoor = [temp |-> NAN, from_ot |-> FALSE, old |-> FALSE]
  /\ bounds = Unknown /\ cap = [have |-> FALSE, at |-> 0, confirm |-> 0]
  /\ probe = 0 /\ rot = 0 /\ wire = 0
  /\ ceiling \in Ceilings /\ report \in Readings

(* The rest of loop(), between two polls *)

\* The setters of a command, of the failsafe or of the settings.
SetDemand ==
  /\ pc = "idle"
  /\ \/ \E ch \in BOOLEAN : demand' = [demand EXCEPT !.ch = ch]
     \/ \E f \in Flows : demand' = [demand EXCEPT !.flow = Setpoint(f)]
     \/ \E c \in Curves \cup {NoCurve} : demand' = [demand EXCEPT !.curve = c]
  /\ UNCHANGED <<pc, inj, outdoor, bounds, tsetVars, rot, boilerVars>>

\* syncSensorInject hands over the reading; a poll takes it.
SyncSensor ==
  /\ pc = "idle"
  /\ inj' \in Readings
  /\ UNCHANGED <<pc, demand, outdoor, bounds, tsetVars, rot, boilerVars>>

\* Sixty seconds after the boiler's last outdoor reading.
Age ==
  /\ pc = "idle" /\ outdoor.from_ot
  /\ outdoor' = [outdoor EXCEPT !.old = TRUE]
  /\ UNCHANGED <<pc, demand, inj, bounds, tsetVars, rot, boilerVars>>

BoilerMoves ==
  /\ \/ ceiling' \in Ceilings /\ UNCHANGED report
     \/ report' \in Readings /\ UNCHANGED ceiling
  /\ UNCHANGED <<pc, demand, inj, outdoor, bounds, tsetVars, rot>>
-----------------------------------------------------------------------------
(* doPoll_ *)

StatusFails ==
  /\ pc = "idle"
  /\ outdoor' = Injected(outdoor)
  /\ UNCHANGED <<pc, demand, inj, bounds, tsetVars, rot, boilerVars>>

StatusAnswered ==
  /\ pc = "idle" /\ pc' = "write"
  /\ outdoor' = Injected(outdoor)
  /\ UNCHANGED <<demand, inj, bounds, tsetVars, rot, boilerVars>>

\* writeTSet_ without heat demand writes nothing; the boiler keeps the last value.
NoHeat ==
  /\ pc = "write" /\ ~demand.ch
  /\ pc' = "slot"
  /\ UNCHANGED <<demand, inj, outdoor, bounds, tsetVars, rot, boilerVars>>

\* The TSet that goes on the wire: every ProbeEvery-th write ignores the cap.
SendCapped ==
  /\ probe' = IF cap.have THEN (probe + 1) % ProbeEvery ELSE probe
  /\ wire' = IF cap.have THEN LesserOf(cap.at, Target) ELSE Target
Send ==
  /\ probe' = IF cap.have THEN (probe + 1) % ProbeEvery ELSE probe
  /\ wire' = IF cap.have /\ probe' # 0 THEN LesserOf(cap.at, Target) ELSE Target

\* The boiler stores what it can and says so, or its answer is lost.
WriteAcked ==
  /\ pc = "write" /\ demand.ch
  /\ pc' = "slot"
  /\ Send
  /\ cap' = Learn(cap, Target, LesserOf(wire', ceiling))
  /\ UNCHANGED <<demand, inj, outdoor, bounds, rot, boilerVars>>

WriteLost ==
  /\ pc = "write" /\ demand.ch
  /\ pc' = "slot"
  /\ Send
  /\ UNCHANGED <<cap, demand, inj, outdoor, bounds, rot, boilerVars>>

Rotate == rot' = (rot + 1) % Slots

OutdoorRead ==
  /\ pc = "slot" /\ rot = 1 /\ report \in -40 .. 60 \ {0}
  /\ pc' = "idle" /\ Rotate
  /\ outdoor' = [temp |-> report, from_ot |-> TRUE, old |-> FALSE]
  /\ UNCHANGED <<demand, inj, bounds, tsetVars, boilerVars>>

\* No answer, or none readFloat_ takes (it rejects 0): the mark expires, the number stays.
OutdoorMissedHasty ==
  /\ pc = "slot" /\ rot = 1
  /\ pc' = "idle" /\ Rotate
  /\ outdoor' = Injected([outdoor EXCEPT !.from_ot = FALSE, !.old = FALSE])
  /\ UNCHANGED <<demand, inj, bounds, tsetVars, boilerVars>>
OutdoorMissedForever ==
  /\ pc = "slot" /\ rot = 1
  /\ pc' = "idle" /\ Rotate
  /\ outdoor' = Injected(outdoor)
  /\ UNCHANGED <<demand, inj, bounds, tsetVars, boilerVars>>
OutdoorMissed ==
  /\ pc = "slot" /\ rot = 1
  /\ pc' = "idle" /\ Rotate
  /\ outdoor' = Injected(IF outdoor.old THEN [outdoor EXCEPT !.from_ot = FALSE, !.old = FALSE]
                                        ELSE outdoor)
  /\ UNCHANGED <<demand, inj, bounds, tsetVars, boilerVars>>

\* The other slots display; slowRead_, in the last, asks for ID 49 once in seven.
\* It once took the zeroes of a refusal (DATA_INVALID, UNKNOWN-DATA-ID) for limits.
OtherSlotUnchecked ==
  /\ pc = "slot" /\ rot # 1
  /\ pc' = "idle" /\ Rotate
  /\ bounds' \in {bounds, [known |-> TRUE, lb |-> 0, ub |-> 0]}
  /\ outdoor' = Injected(outdoor)
  /\ UNCHANGED <<demand, inj, tsetVars, boilerVars>>
OtherSlot ==
  /\ pc = "slot" /\ rot # 1
  /\ pc' = "idle" /\ Rotate
  /\ bounds' \in {bounds} \cup IF rot = Slots - 1 THEN Limits ELSE {}
  /\ outdoor' = Injected(outdoor)
  /\ UNCHANGED <<demand, inj, tsetVars, boilerVars>>

Write    == NoHeat \/ WriteAcked \/ WriteLost
Slot     == OutdoorRead \/ OutdoorMissed \/ OtherSlot
Poll     == StatusFails \/ StatusAnswered \/ Write \/ Slot
Next     == Poll \/ SetDemand \/ SyncSensor \/ Age \/ BoilerMoves

\* loop() polls for ever, and a poll that gets no answer is a StatusFails; one that
\* was answered runs to its end; readings age.  What the boiler answers is its own
\* affair: no fairness makes it answer.
Fairness == WF_vars(StatusFails) /\ WF_vars(Write \/ Slot) /\ SF_vars(Age)

Spec == Init /\ [][Next]_vars /\ Fairness
-----------------------------------------------------------------------------
(* Properties *)

\* Every variable stays in its type: no clamp lets a setpoint out of 0..90, the
\* confirmation counter of ot_tset_echo_learn never reaches its threshold, and
\* only a reading of the boiler is marked old.
TypeOK ==
  /\ pc \in {"idle", "write", "slot"} /\ demand \in Demands
  /\ inj \in Readings /\ report \in Readings /\ ceiling \in Ceilings
  /\ outdoor \in [temp : Readings, from_ot : BOOLEAN, old : BOOLEAN]
  /\ outdoor.old => outdoor.from_ot
  /\ outdoor.from_ot => outdoor.temp # NAN
  /\ bounds \in Limits \cup {Unknown} /\ cap \in Caps
  /\ probe \in 0 .. ProbeEvery - 1 /\ rot \in 0 .. Slots - 1 /\ wire \in 0 .. 90

\* A cap that is learned or moved is where the boiler stops now, although the
\* echo may be of a write that an older cap had already lowered
\* (ot_tset_echo_learn against the effective value of writeTSet_).
CapIsACeiling == [][cap'.have /\ (cap.have => cap'.at # cap.at) => cap'.at = ceiling]_vars

\* Whatever the curve asks for, and whenever the boiler told its limit, no write
\* goes above the limit (the clamp in writeTSet_ after the weather curve).
TSetWithinBounds ==
  [][pc = "write" /\ pc' = "slot" /\ demand.ch => wire' <= bounds.ub]_vars

\* "Boiler OT always wins when valid" (the comment in ot_master.h; 1-Wire-sensors.md
\* says the opposite): while the boiler's outdoor reading is young,
\* through lost answers and 1-Wire readings of every value, only a newer reading
\* of the boiler replaces it.
BoilerReadingWins ==
  [][outdoor.from_ot /\ ~outdoor.old /\ outdoor'.temp # outdoor.temp
       => outdoor'.from_ot /\ outdoor'.temp = report]_outdoor

\* A boiler that answers Status but lost its outdoor sensor gives way to the
\* 1-Wire probe: the frozen reading leaves the curve for good (slot 1).
OutdoorTakeover ==
  /\ []<><<StatusAnswered>>_vars
  /\ <>[](report = NAN /\ inj # NAN) /\ <>[][FALSE]_inj
  => <>[](outdoor.temp = inj)

\* A boiler whose ceiling stays put and that answers, sooner or later also the
\* write that ignores the cap, ends up with what it can take of what is wanted,
\* within the tolerance, whatever was learned before: a cap that was latched
\* under an older, lower ceiling does not starve the house (the probe writes of
\* writeTSet_ and the two ways up of ot_tset_echo_learn).
BoilerGetsWhatItTakes ==
  /\ <>[](demand.ch) /\ <>[][Target' = Target /\ ceiling' = ceiling]_vars
  /\ []<><<WriteAcked>>_vars /\ SF_vars(WriteAcked /\ wire' = Target)
  => <>[](LesserOf(wire, ceiling) + Tol >= LesserOf(Target, ceiling))
=============================================================================
