---------------------------- MODULE OtMasterProofs --------------------------
(***************************************************************************)
(* Proofs about OtMaster for every curve, every setpoint, every bound and  *)
(* every ceiling of the boiler.  TypeOK is inductive; the action           *)
(* properties follow from it step by step.                                 *)
(***************************************************************************)
EXTENDS OtMaster, TLAPS

USE FlowAssumption, CurveAssumption, LimitAssumption, CountAssumption
-----------------------------------------------------------------------------
(* The helpers *)

AllBounds == [known : BOOLEAN, lb : 0 .. 90, ub : 20 .. 90]

\* Clamping ends inside the bounds.
LEMMA ClampRange ==
  ASSUME NEW b, b.lb \in Int, b.ub \in Int, b.lb <= b.ub, NEW v \in Int
  PROVE  Clamp(b, v) \in b.lb .. b.ub
BY DEF Clamp

\* Known or not, the bounds of a write are ordered.
LEMMA BoundsRange ==
  ASSUME TypeOK
  PROVE  bounds \in AllBounds /\ bounds.lb <= bounds.ub
<1>1. Unknown \in AllBounds /\ Unknown.lb <= Unknown.ub  BY DEF Unknown, AllBounds
<1>2. \A b \in Limits : b \in AllBounds /\ b.lb <= b.ub
  <2> TAKE b \in Limits
  <2>1. b \in [known : {TRUE}, lb : 0 .. 90, ub : 20 .. 90] /\ b.lb <= b.ub
    BY ONLY LimitAssumption, b \in Limits
  <2> QED BY ONLY <2>1 DEF AllBounds
<1> QED BY <1>1, <1>2 DEF TypeOK

\* A curve's target is a number, if only the one that means none.
LEMMA CurveTargetInt ==
  ASSUME NEW c \in Curves \cup {NoCurve}, NEW t \in Readings
  PROVE  CurveTarget(c, t) \in Int
<1>1. CASE c = NoCurve \/ t = NAN  BY <1>1 DEF CurveTarget, NAN
<1>2. CASE c # NoCurve /\ t # NAN
  <2>1. c.ref \in Int /\ c.design \in Int /\ c.fmin \in Int /\ c.fmax \in Int /\ c.design < c.ref
    BY <1>2
  <2>2. t \in Int  BY <1>2 DEF Readings
  <2>3. (c.ref - t) * (c.fmax - c.fmin) \in Int /\ c.ref - c.design \in Nat \ {0}  BY <2>1, <2>2
  <2>4. ((c.ref - t) * (c.fmax - c.fmin)) \div (c.ref - c.design) \in Int
    <3>1. \A n \in Int, d \in Nat \ {0} : n \div d \in Int  OBVIOUS
    <3> QED BY <2>3, <3>1
  <2> QED BY <1>2, <2>1, <2>2, <2>4 DEF CurveTarget
<1> QED BY <1>1, <1>2

\* A quotient grows with its dividend.
LEMMA QuotientGrows ==
  ASSUME NEW m \in Int, NEW n \in Int, NEW d \in Nat \ {0}, m <= n
  PROVE  m \div d <= n \div d
<1> DEFINE q == m \div d
           r == n \div d
<1>1. q \in Int /\ r \in Int /\ d * q <= m /\ n < d * r + d  OBVIOUS
<1> HIDE DEF q, r
<1>2. SUFFICES ASSUME r + 1 <= q PROVE FALSE  BY <1>1
<1>3. d * (r + 1) <= d * q
  <2>1. q - (r + 1) \in Nat  BY <1>1, <1>2
  <2>2. \A k \in Nat : d * k >= 0  OBVIOUS
  <2>3. d * (q - (r + 1)) >= 0  BY <2>1, <2>2
  <2> QED BY <1>1, <2>3
<1> QED BY <1>1, <1>3

\* Between the reference and the design temperature the curve stays within its
\* flows, and falls as it gets warmer outside.
LEMMA CurveBetween ==
  ASSUME NEW c \in Curves, NEW s \in Int, NEW t \in Int, c.design < s, s <= t, t < c.ref
  PROVE  LET f == c.fmax - c.fmin
             d == c.ref - c.design
             q == ((c.ref - s) * f) \div d
             r == ((c.ref - t) * f) \div d
         IN  q \in 0 .. f /\ r \in 0 .. f /\ r <= q
<1> DEFINE f == c.fmax - c.fmin
           d == c.ref - c.design
           m == c.ref - s
           n == c.ref - t
<1>1. f \in Nat /\ d \in Nat \ {0} /\ m \in 0 .. d /\ n \in 0 .. m
  <2>1. c.ref \in Int /\ c.design \in Int /\ c.fmin \in Int /\ c.fmax \in Int /\ c.fmin <= c.fmax
    OBVIOUS
  <2> QED BY <2>1
<1> HIDE DEF f, d, m, n
<1>2. 0 <= n * f /\ n * f <= m * f /\ m * f <= d * f
  <2>1. \A j \in Nat, k \in Nat : j * k >= 0  OBVIOUS
  <2>2. n * f >= 0 /\ (m - n) * f >= 0 /\ (d - m) * f >= 0  BY <1>1, <2>1
  <2>3. \A j \in Int, k \in Int : (j - k) * f = j * f - k * f  BY <1>1
  <2> QED BY <1>1, <2>2, <2>3
<1>3. (d * f) \div d = f
  <2>1. \A k \in Nat : (d * k) \div d = k  BY <1>1
  <2> QED BY <1>1, <2>1
<1>4. n * f \in Int /\ m * f \in Int /\ d * f \in Int  BY <1>1
<1>5. /\ 0 <= (n * f) \div d /\ (n * f) \div d <= (m * f) \div d /\ (m * f) \div d <= f
      /\ (n * f) \div d \in Int /\ (m * f) \div d \in Int
  <2>1. 0 <= (n * f) \div d
    <3>1. \A k \in Nat : 0 <= k \div d  BY <1>1
    <3>2. n * f \in Nat  BY <1>2, <1>4
    <3> QED BY <3>1, <3>2
  <2>2. (n * f) \div d <= (m * f) \div d  BY <1>1, <1>2, <1>4, QuotientGrows
  <2>3. (m * f) \div d <= (d * f) \div d  BY <1>1, <1>2, <1>4, QuotientGrows
  <2>4. \A k \in Int : k \div d \in Int  BY <1>1
  <2> QED BY <1>3, <1>4, <2>1, <2>2, <2>3, <2>4
<1>6. (n * f) \div d \in 0 .. f /\ (m * f) \div d \in 0 .. f /\ (n * f) \div d <= (m * f) \div d
  BY <1>1, <1>5
<1> QED BY <1>6 DEF f, d, m, n

\* What writeTSet_ wants lies within the bounds in force.
LEMMA TargetRange ==
  ASSUME TypeOK
  PROVE  Target \in bounds.lb .. bounds.ub /\ Target \in 0 .. 90
<1>1. bounds \in AllBounds /\ bounds.lb <= bounds.ub  BY BoundsRange
<1>2. CurveTarget(demand.curve, outdoor.temp) \in Int  BY CurveTargetInt DEF TypeOK, Demands
<1>3. demand.flow \in Int  BY DEF TypeOK, Demands
<1>4. bounds.lb \in 0 .. 90 /\ bounds.ub \in 20 .. 90  BY <1>1 DEF AllBounds
<1> DEFINE v == IF CurveTarget(demand.curve, outdoor.temp) = NAN THEN demand.flow
                ELSE CurveTarget(demand.curve, outdoor.temp)
<1>5. v \in Int  BY <1>2, <1>3
<1>6. Target = Clamp(bounds, v)  BY DEF Target
<1> HIDE DEF v
<1>7. Target \in bounds.lb .. bounds.ub  BY <1>1, <1>4, <1>5, <1>6, ClampRange
<1> QED BY <1>4, <1>7

\* What goes on the wire is at most what is wanted, and lower only by the cap.
LEMMA SendRange ==
  ASSUME TypeOK, Send
  PROVE  /\ wire' \in 0 .. 90 /\ wire' <= Target
         /\ wire' = Target \/ (cap.have /\ wire' = cap.at)
         /\ probe' \in 0 .. ProbeEvery - 1
<1>1. Target \in 0 .. 90  BY TargetRange
<1>2. cap.at \in 0 .. 90 /\ probe \in 0 .. ProbeEvery - 1  BY DEF TypeOK, Caps
<1>3. wire' = Target \/ (cap.have /\ wire' = LesserOf(cap.at, Target))  BY DEF Send
<1>4. (probe + 1) % ProbeEvery \in 0 .. ProbeEvery - 1  BY <1>2
<1>5. probe' \in 0 .. ProbeEvery - 1  BY <1>2, <1>4 DEF Send
<1> QED BY <1>1, <1>2, <1>3, <1>5 DEF LesserOf

\* ot_tset_echo_learn keeps its counter below the threshold, and moves the cap
\* only to an echo that is lower than what was wanted.
LEMMA LearnRange ==
  ASSUME NEW c \in Caps, NEW want \in 0 .. 90, NEW echoed \in 0 .. 90
  PROVE  Learn(c, want, echoed) \in Caps
<1>1. c.confirm \in 0 .. Confirmations - 1  BY DEF Caps
<1>2. ~(c.confirm + 1 >= Confirmations) => c.confirm + 1 \in 0 .. Confirmations - 1  BY <1>1
<1> QED BY <1>1, <1>2 DEF Learn, Caps

LEMMA LearnMoves ==
  ASSUME NEW c \in Caps, NEW want \in 0 .. 90, NEW echoed \in 0 .. 90,
         Learn(c, want, echoed).have, c.have => Learn(c, want, echoed).at # c.at
  PROVE  /\ Learn(c, want, echoed).at = echoed /\ echoed < want - Tol
         /\ c.have => echoed + Tol < c.at \/ echoed > c.at + Tol
<1>1. c.at \in 0 .. 90 /\ c.have \in BOOLEAN  BY DEF Caps
<1> QED BY <1>1 DEF Learn, Caps
-----------------------------------------------------------------------------
(* Type correctness *)

\* applyInject_ leaves a reading.
LEMMA InjectedType ==
  ASSUME NEW o \in [temp : Readings, from_ot : BOOLEAN, old : BOOLEAN], inj \in Readings,
         o.old => o.from_ot, o.from_ot => o.temp # NAN
  PROVE  /\ Injected(o) \in [temp : Readings, from_ot : BOOLEAN, old : BOOLEAN]
         /\ Injected(o).old => Injected(o).from_ot
         /\ Injected(o).from_ot => Injected(o).temp # NAN
BY DEF Injected

\* A command leaves a setpoint the boiler may be sent.
LEMMA SetpointRange ==
  ASSUME TypeOK, NEW f \in Flows
  PROVE  Setpoint(f) \in 1 .. 90
<1>1. bounds \in AllBounds /\ bounds.lb <= bounds.ub  BY BoundsRange
<1>2. bounds.lb \in 0 .. 90 /\ bounds.ub \in 20 .. 90  BY <1>1 DEF AllBounds
<1>3. f \in 1 .. 90  OBVIOUS
<1> QED BY <1>1, <1>2, <1>3 DEF Setpoint, Clamp

\* The poll's exchange of TSet keeps every type.
LEMMA WriteType ==
  ASSUME TypeOK, WriteAcked \/ WriteLost
  PROVE  TypeOK'
<1>1. wire' \in 0 .. 90 /\ probe' \in 0 .. ProbeEvery - 1  BY SendRange DEF WriteAcked, WriteLost
<1>2. cap' \in Caps
  <2>1. Target \in 0 .. 90  BY TargetRange
  <2>2. LesserOf(wire', ceiling) \in 0 .. 90  BY <1>1 DEF LesserOf, TypeOK
  <2>3. cap \in Caps  BY DEF TypeOK
  <2>4. Learn(cap, Target, LesserOf(wire', ceiling)) \in Caps  BY <2>1, <2>2, <2>3, LearnRange
  <2> QED BY <2>3, <2>4 DEF WriteAcked, WriteLost
<1> QED BY <1>1, <1>2 DEF WriteAcked, WriteLost, TypeOK, boilerVars

\* The slot of the rotation keeps every type.
LEMMA SlotType ==
  ASSUME TypeOK, Slot
  PROVE  TypeOK'
<1>1. rot' \in 0 .. Slots - 1
  <2>1. rot' = (rot + 1) % Slots
    <3>1. OutdoorRead => Rotate  BY DEF OutdoorRead
    <3>2. OutdoorMissed => Rotate  BY DEF OutdoorMissed
    <3>3. OtherSlot => Rotate  BY DEF OtherSlot
    <3> QED BY <3>1, <3>2, <3>3 DEF Slot, Rotate
  <2>2. rot + 1 \in Nat /\ Slots \in Nat \ {0}  BY DEF TypeOK
  <2> QED BY <2>1, <2>2
<1>2. CASE OutdoorRead
  <2>1. report # NAN  BY <1>2 DEF OutdoorRead, NAN
  <2> QED BY <1>1, <1>2, <2>1 DEF OutdoorRead, TypeOK, tsetVars, boilerVars
<1>3. CASE OutdoorMissed
  <2> DEFINE o == IF outdoor.old THEN [outdoor EXCEPT !.from_ot = FALSE, !.old = FALSE] ELSE outdoor
  <2>1. /\ o \in [temp : Readings, from_ot : BOOLEAN, old : BOOLEAN]
        /\ o.old => o.from_ot
        /\ o.from_ot => o.temp # NAN
    <3>1. /\ outdoor \in [temp : Readings, from_ot : BOOLEAN, old : BOOLEAN]
          /\ outdoor.from_ot => outdoor.temp # NAN
      BY DEF TypeOK
    <3>2. CASE outdoor.old
      <4>1. o = [outdoor EXCEPT !.from_ot = FALSE, !.old = FALSE]  BY <3>2
      <4> QED BY ONLY <3>1, <4>1
    <3>3. CASE ~outdoor.old
      <4>1. o = outdoor  BY <3>3
      <4> QED BY ONLY <3>1, <3>3, <4>1
    <3> QED BY <3>2, <3>3
  <2>2. outdoor' = Injected(o)  BY <1>3 DEF OutdoorMissed
  <2> HIDE DEF o
  <2>3. inj \in Readings  BY DEF TypeOK
  <2>4. /\ outdoor' \in [temp : Readings, from_ot : BOOLEAN, old : BOOLEAN]
        /\ outdoor'.old => outdoor'.from_ot
        /\ outdoor'.from_ot => outdoor'.temp # NAN
    <3>1. /\ Injected(o) \in [temp : Readings, from_ot : BOOLEAN, old : BOOLEAN]
          /\ Injected(o).old => Injected(o).from_ot
          /\ Injected(o).from_ot => Injected(o).temp # NAN
      BY <2>1, <2>3, InjectedType
    <3> QED BY <2>2, <3>1
  <2> QED BY <1>1, <1>3, <2>4 DEF OutdoorMissed, TypeOK, tsetVars, boilerVars
<1>4. CASE OtherSlot
  <2>1. outdoor' = Injected(outdoor)  BY <1>4 DEF OtherSlot
  <2>2. bounds' \in Limits \cup {Unknown}  BY <1>4 DEF OtherSlot, TypeOK
  <2> QED BY <1>1, <1>4, <2>1, <2>2, InjectedType DEF OtherSlot, TypeOK, tsetVars, boilerVars
<1> QED BY <1>2, <1>3, <1>4 DEF Slot

LEMMA TypeStep == TypeOK /\ [Next]_vars => TypeOK'
<1> SUFFICES ASSUME TypeOK, [Next]_vars PROVE TypeOK'  OBVIOUS
<1>1. CASE StatusFails \/ StatusAnswered
  BY <1>1, InjectedType DEF StatusFails, StatusAnswered, TypeOK, tsetVars, boilerVars
<1>2. CASE NoHeat  BY <1>2 DEF NoHeat, TypeOK, tsetVars, boilerVars
<1>3. CASE WriteAcked \/ WriteLost  BY <1>3, WriteType
<1>4. CASE Slot  BY <1>4, SlotType
<1>5. CASE SetDemand
  <2>1. demand' \in Demands  BY <1>5, SetpointRange DEF SetDemand, TypeOK, Demands
  <2> QED BY <1>5, <2>1 DEF SetDemand, TypeOK, tsetVars, boilerVars
<1>6. CASE SyncSensor  BY <1>6 DEF SyncSensor, TypeOK, tsetVars, boilerVars
<1>7. CASE Age
  <2>1. /\ outdoor \in [temp : Readings, from_ot : BOOLEAN, old : BOOLEAN]
        /\ outdoor.from_ot => outdoor.temp # NAN
    BY DEF TypeOK
  <2>2. outdoor.from_ot /\ outdoor' = [outdoor EXCEPT !.old = TRUE]  BY <1>7 DEF Age
  <2>3. /\ outdoor' \in [temp : Readings, from_ot : BOOLEAN, old : BOOLEAN]
        /\ outdoor'.from_ot /\ outdoor'.temp # NAN
    BY ONLY <2>1, <2>2
  <2> QED BY <1>7, <2>3 DEF Age, TypeOK, tsetVars, boilerVars
<1>8. CASE BoilerMoves  BY <1>8 DEF BoilerMoves, TypeOK, tsetVars
<1>9. CASE UNCHANGED vars  BY <1>9 DEF vars, TypeOK
<1> QED BY <1>1, <1>2, <1>3, <1>4, <1>5, <1>6, <1>7, <1>8, <1>9 DEF Next, Poll, Write

LEMMA TypeInit == Init => TypeOK
<1> SUFFICES ASSUME Init PROVE TypeOK  OBVIOUS
<1>1. demand \in Demands
  <2>1. demand \in [ch : {FALSE}, flow : {45}, curve : Curves \cup {NoCurve}]  BY DEF Init
  <2>2. PICK c \in Curves \cup {NoCurve} : demand = [ch |-> FALSE, flow |-> 45, curve |-> c]
    BY <2>1
  <2>3. 45 \in 1 .. 90  OBVIOUS
  <2> QED BY <2>2, <2>3, Zenon DEF Demands
<1>2. cap \in Caps  BY DEF Init, Caps
<1>3. probe \in 0 .. ProbeEvery - 1 /\ rot \in 0 .. Slots - 1 /\ wire \in 0 .. 90  BY DEF Init
<1>4. outdoor \in [temp : Readings, from_ot : BOOLEAN, old : BOOLEAN]  BY DEF Init, Readings
<1> QED BY <1>1, <1>2, <1>3, <1>4 DEF Init, TypeOK, Readings
-----------------------------------------------------------------------------
(* The theorems *)

\* Every setpoint, bound, cap and counter stays in its range.
THEOREM MasterTypeCorrect == Spec => []TypeOK
BY TypeInit, TypeStep, PTL DEF Spec

\* A cap that is learned or moved is the boiler's ceiling of that moment.
THEOREM CapsAreCeilings == Spec => CapIsACeiling
<1>1. TypeOK /\ [Next]_vars =>
        [cap'.have /\ (cap.have => cap'.at # cap.at) => cap'.at = ceiling]_vars
  <2> SUFFICES ASSUME TypeOK, [Next]_vars, cap'.have, cap.have => cap'.at # cap.at
               PROVE  cap'.at = ceiling
    OBVIOUS
  <2>1. cap' # cap  OBVIOUS
  <2>2. WriteAcked
    BY <2>1 DEF Next, Poll, Write, Slot, vars, tsetVars, boilerVars, StatusFails, StatusAnswered,
       NoHeat, WriteLost, OutdoorRead, OutdoorMissed, OtherSlot, SetDemand, SyncSensor, Age, BoilerMoves
  <2> DEFINE echoed == LesserOf(wire', ceiling)
  <2>3. cap' = Learn(cap, Target, echoed) /\ Send  BY <2>2 DEF WriteAcked
  <2>4. Target \in 0 .. 90 /\ cap \in Caps /\ ceiling \in 1 .. 90  BY TargetRange DEF TypeOK
  <2>5. wire' \in 0 .. 90 /\ (wire' = Target \/ (cap.have /\ wire' = cap.at))  BY <2>3, SendRange
  <2>6. echoed \in 0 .. 90  BY <2>4, <2>5 DEF LesserOf
  <2>7. /\ cap'.at = echoed /\ echoed < Target - Tol
        /\ cap.have => echoed + Tol < cap.at \/ echoed > cap.at + Tol
    <3> HIDE DEF echoed
    <3>1. Learn(cap, Target, echoed).have  BY <2>3
    <3>2. cap.have => Learn(cap, Target, echoed).at # cap.at  BY <2>3
    <3>3. /\ Learn(cap, Target, echoed).at = echoed /\ echoed < Target - Tol
          /\ cap.have => echoed + Tol < cap.at \/ echoed > cap.at + Tol
      BY <2>4, <2>6, <3>1, <3>2, LearnMoves
    <3> QED BY <2>3, <3>3
  <2>8. cap.at \in 0 .. 90  BY <2>4 DEF Caps
  <2> QED BY <2>4, <2>5, <2>7, <2>8 DEF LesserOf
<1> QED BY <1>1, MasterTypeCorrect, PTL DEF Spec, CapIsACeiling

\* No write goes above the bounds the boiler told.
THEOREM WritesWithinBounds == Spec => TSetWithinBounds
<1>1. TypeOK /\ [Next]_vars =>
        [pc = "write" /\ pc' = "slot" /\ demand.ch => wire' <= bounds.ub]_vars
  <2> SUFFICES ASSUME TypeOK, [Next]_vars, pc = "write", pc' = "slot", demand.ch
               PROVE  wire' <= bounds.ub
    OBVIOUS
  <2>1. Send
    BY DEF Next, Poll, Write, Slot, vars, StatusFails, StatusAnswered, NoHeat, WriteAcked, WriteLost,
       OutdoorRead, OutdoorMissed, OtherSlot, SetDemand, SyncSensor, Age, BoilerMoves
  <2>2. wire' \in 0 .. 90 /\ wire' <= Target  BY <2>1, SendRange
  <2>3. Target \in bounds.lb .. bounds.ub /\ Target \in 0 .. 90  BY TargetRange
  <2>4. bounds.ub \in Int  BY BoundsRange DEF AllBounds
  <2> QED BY <2>2, <2>3, <2>4
<1> QED BY <1>1, MasterTypeCorrect, PTL DEF Spec, TSetWithinBounds

\* hcs_weather_comp_target: whatever curve was configured, the colder it is
\* outside, the more is asked of the boiler, never more than the curve's own
\* flows, and the clamp to the boiler's bounds does not turn that round.
THEOREM ColderAsksForMore ==
  ASSUME NEW c \in Curves, NEW s \in Outdoors, NEW t \in Outdoors, s <= t,
         NEW b \in AllBounds, b.lb <= b.ub
  PROVE  /\ CurveTarget(c, s) \in c.fmin .. c.fmax
         /\ CurveTarget(c, t) <= CurveTarget(c, s)
         /\ Clamp(b, CurveTarget(c, t)) <= Clamp(b, CurveTarget(c, s))
<1>1. /\ s \in Int /\ t \in Int /\ s # NAN /\ t # NAN  BY DEF NAN
<1>2. /\ c.ref \in Int /\ c.design \in Int /\ c.design < c.ref
      /\ c.fmin \in 10 .. 90 /\ c.fmax \in c.fmin .. 90
  OBVIOUS
<1>3. c # NoCurve  BY <1>2 DEF NoCurve
<1>4. CurveTarget(c, s) \in c.fmin .. c.fmax /\ CurveTarget(c, t) \in c.fmin .. c.fmax
      /\ CurveTarget(c, t) <= CurveTarget(c, s)
  <2> DEFINE f == c.fmax - c.fmin
             q == ((c.ref - s) * f) \div (c.ref - c.design)
             r == ((c.ref - t) * f) \div (c.ref - c.design)
  <2>1. /\ c.design < s /\ s < c.ref => q \in 0 .. f
        /\ c.design < t /\ t < c.ref => r \in 0 .. f
        /\ c.design < s /\ t < c.ref => r <= q
    BY <1>1, CurveBetween
  <2>2. /\ CurveTarget(c, s) = IF s >= c.ref THEN c.fmin ELSE IF s <= c.design THEN c.fmax
                               ELSE c.fmin + q
        /\ CurveTarget(c, t) = IF t >= c.ref THEN c.fmin ELSE IF t <= c.design THEN c.fmax
                               ELSE c.fmin + r
    BY <1>1, <1>3 DEF CurveTarget
  <2> HIDE DEF q, r
  <2>3. CurveTarget(c, s) \in c.fmin .. c.fmax  BY ONLY <1>1, <1>2, <2>1, <2>2, s <= t DEF f
  <2>4. CurveTarget(c, t) \in c.fmin .. c.fmax  BY ONLY <1>1, <1>2, <2>1, <2>2, s <= t DEF f
  <2>5. CurveTarget(c, t) <= CurveTarget(c, s)
    <3>1. CASE t >= c.ref  BY ONLY <1>2, <2>2, <2>3, <3>1
    <3>2. CASE s <= c.design  BY ONLY <1>2, <2>2, <2>4, <3>2, <1>1
    <3>3. CASE t < c.ref /\ c.design < s  BY ONLY <1>1, <1>2, <2>1, <2>2, <3>3, s <= t DEF f
    <3> QED BY <1>1, <1>2, <3>1, <3>2, <3>3
  <2> QED BY <2>3, <2>4, <2>5
<1>5. b.lb \in Int /\ b.ub \in Int  BY DEF AllBounds
<1>6. CurveTarget(c, s) \in Int /\ CurveTarget(c, t) \in Int  BY <1>2, <1>4
<1> QED BY <1>4, <1>5, <1>6 DEF Clamp

\* A young outdoor reading of the boiler gives way to nothing but a newer one.
THEOREM BoilerWins == Spec => BoilerReadingWins
<1>1. TypeOK /\ [Next]_vars =>
        [outdoor.from_ot /\ ~outdoor.old /\ outdoor'.temp # outdoor.temp
           => outdoor'.from_ot /\ outdoor'.temp = report]_outdoor
  <2> SUFFICES ASSUME TypeOK, [Next]_vars, outdoor.from_ot, ~outdoor.old,
                      outdoor'.temp # outdoor.temp
               PROVE  outdoor'.from_ot /\ outdoor'.temp = report
    OBVIOUS
  <2>1. Injected(outdoor) = outdoor  BY DEF Injected
  <2>2. outdoor \in [temp : Readings, from_ot : BOOLEAN, old : BOOLEAN]  BY DEF TypeOK
  <2>3. OutdoorRead
    BY <2>1, <2>2 DEF Next, Poll, Write, Slot, vars, StatusFails, StatusAnswered, NoHeat, WriteAcked,
       WriteLost, OutdoorMissed, OtherSlot, SetDemand, SyncSensor, Age, BoilerMoves
  <2> QED BY <2>3 DEF OutdoorRead
<1> QED BY <1>1, MasterTypeCorrect, PTL DEF Spec, BoilerReadingWins
=============================================================================
