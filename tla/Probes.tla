------------------------------- MODULE Probes -------------------------------
(***************************************************************************)
(* The readings of the 1-Wire probes (HcsSensors): the list of devices a   *)
(* scan finds, the conversion cycle of loop(), the verdict on each reading *)
(* (ow_classify), and what is routed to the outdoor and return channels    *)
(* and to the custom sensors by the slot table requests edit (OwSlots).    *)
(*                                                                         *)
(* One tick of the clock is one poll period (15 s).  The bus answers each  *)
(* read with any value: a probe may be unplugged, lose its conversion      *)
(* (which reads as 85), or return noise at any time.                       *)
(***************************************************************************)
EXTENDS OwSlots, Integers, FiniteSets

CONSTANTS Foreign,    \* devices on the bus whose family is not the DS18B20's
          Raws,       \* what getTempC may return
          StaleTicks  \* kOwStaleMs in poll periods (6 in the code)

NAN     == -1000   \* no temperature
PowerOn == 85    \* the register a converter that never ran is read from
Step    == 15      \* the largest change ow_classify accepts

ASSUME ProbeAssumption == /\ Foreign \subseteq Addrs
                          /\ Raws \subseteq Int \ {NAN}
                          /\ StaleTicks \in Nat \ {0}

VARIABLES
  enabled, slots,  \* what configure() was last given
  wired,           \* the devices on the bus
  dev,             \* devices_[0 .. count_ - 1], by address
  phase,           \* phase_
  waited,          \* a poll period has passed since last_req_ms_
  raw,             \* history: the last reading of each probe since it was listed
  missed,          \* history: probes found absent by a poll and not read since
  shown            \* history: the last value each probe in use has handed on
                   \* since it was listed and put to use

vars == <<enabled, slots, wired, dev, phase, waited, raw, missed, shown>>

Health == {"unknown", "ok", "disconnected", "implausible", "stuck85", "unstable",
           "unsupported"}
Listed == DOMAIN dev
Device == [valid : BOOLEAN, health : Health, last_good : Raws \cup {NAN},
           age : 0 .. StaleTicks + 1]

Far(x, y) == x - y > Step \/ y - x > Step

\* ow_classify; have_prev_good is prev # NAN.
Classify(v, prev) ==
  CASE v <= -100 -> "disconnected"
    [] v > -100 /\ (v <= -55 \/ v >= 125) -> "implausible"
    [] OTHER -> IF prev = PowerOn /\ v = PowerOn THEN "stuck85"
                ELSE IF prev # NAN /\ Far(v, prev) THEN "unstable" ELSE "ok"
-----------------------------------------------------------------------------
(* What is routed *)

\* An assigned, fresh and healthy reading of a listed probe, or NAN.
Reading(a) ==
  IF a \in Listed /\ dev[a].valid /\ dev[a].health = "ok" /\ dev[a].age <= StaleTicks
    THEN dev[a].last_good ELSE NAN

\* The probes roleValue and customAt look up: the holders of the two channels
\* and the custom sensors.
Used == IF enabled THEN {AddrForRole(slots, r) : r \in Channels}
                          \cup {slots[i].addr : i \in {j \in Slots : slots[j].role = "custom"}}
                   ELSE {}

\* The probes whose reading goes somewhere.
Routed == {a \in Used : Reading(a) # NAN}
-----------------------------------------------------------------------------
(* The bus *)

NewDevice(a) == [valid |-> FALSE, last_good |-> NAN, age |-> StaleTicks + 1,
                 health |-> IF a \in Foreign THEN "unsupported" ELSE "unknown"]

\* The lists scan() may leave: all that answer, or as many as there is room for.
ScansUnbounded == {wired}
Scans == {S \in SUBSET wired : IF Cardinality(wired) <= NSlots THEN S = wired
                                                           ELSE Cardinality(S) = NSlots}
Fresh(S) == [a \in S |-> NewDevice(a)]

\* What readAll() makes of the entry r of device a when getTempC gives v.  The
\* last good value stays for display.
MissForgetting(r, h) == [r EXCEPT !.health = h, !.valid = FALSE, !.last_good = NAN]
Miss(r, h) == [r EXCEPT !.health = h, !.valid = FALSE]
VerdictKeepingGood(r, v) ==
  LET h == Classify(v, r.last_good)
  IN  IF h = "ok" THEN [valid |-> TRUE, health |-> h, last_good |-> v, age |-> 0] ELSE r
Verdict(r, v) ==
  LET h == Classify(v, r.last_good)
  IN  IF h = "ok" THEN [valid |-> TRUE, health |-> h, last_good |-> v, age |-> 0] ELSE Miss(r, h)

ReadSkippingAbsent(d, t) ==
  [a \in DOMAIN d |-> IF a \in Foreign THEN Miss(d[a], "unsupported")
                      ELSE IF a \in wired THEN Verdict(d[a], t[a]) ELSE d[a]]
Read(d, t) ==
  [a \in DOMAIN d |-> IF a \in Foreign THEN Miss(d[a], "unsupported")
                      ELSE IF a \in wired THEN Verdict(d[a], t[a]) ELSE Miss(d[a], "disconnected")]

\* The histories: the readings t of the devices of d that are there, and what
\* the probes in use hand on, or else what they handed on before.
Noted(h, d, t) ==
  [a \in Addrs |-> IF a \in (DOMAIN d \cap wired) \ Foreign THEN t[a] ELSE h[a]]
NoReadings == [a \in Addrs |-> NAN]
Remember(before) ==
  shown' = [a \in Addrs |-> IF a \in Routed' THEN Reading(a)'
                            ELSE IF a \in Used' THEN before[a] ELSE NAN]
Temps(S)   == [S \ Foreign -> Raws]
-----------------------------------------------------------------------------
(* begin, loop, selftestAll, configure *)

\* begin(): a scan and one blocking conversion.
Init ==
  /\ enabled \in BOOLEAN /\ slots = EmptyTable
  /\ wired \in SUBSET Addrs
  /\ phase = "IDLE" /\ waited = TRUE /\ missed = {} /\ shown = NoReadings
  /\ \E S \in Scans : \E t \in Temps(S) :
       dev = Read(Fresh(S), t) /\ raw = Noted(NoReadings, Fresh(S), t)

\* request(): an empty list is scanned again.
Request ==
  /\ phase = "IDLE" /\ waited
  /\ waited' = FALSE
  /\ \E S \in (IF Listed = {} THEN Scans ELSE {Listed}) :
       /\ IF Listed = {} THEN dev' = Fresh(S) /\ raw' = NoReadings
                         ELSE UNCHANGED <<dev, raw>>
       /\ phase' = IF S = {} THEN "IDLE" ELSE "CONVERTING"
  /\ UNCHANGED <<enabled, slots, wired, missed>>
  /\ Remember(shown)

ReadAll ==
  /\ phase = "CONVERTING" /\ phase' = "IDLE"
  /\ \E t \in Temps(Listed) : dev' = Read(dev, t) /\ raw' = Noted(raw, dev, t)
  /\ missed' = (missed \ (Listed \cap wired)) \cup (Listed \ wired)
  /\ UNCHANGED <<enabled, slots, wired, waited>>
  /\ Remember(shown)

\* selftestAll(): a scan and two conversions, all in one call.
SelfTest ==
  /\ \E S \in Scans : \E t1, t2 \in Temps(S) :
       /\ dev' = Read(Read(Fresh(S), t1), t2)
       /\ raw' = Noted(Noted(NoReadings, Fresh(S), t1), Fresh(S), t2)
       /\ missed' = missed \ S
       /\ IF S = {} THEN UNCHANGED <<phase, waited>>
                    ELSE phase' = "IDLE" /\ waited' = FALSE
  /\ UNCHANGED <<enabled, slots, wired>>
  /\ Remember(NoReadings)

\* configure(), after an accepted assignment or a change of the switch.
Configure ==
  /\ \/ enabled' = ~enabled /\ UNCHANGED slots
     \/ \E a \in Addrs, r \in Roles, n \in Names :
          /\ Accepted(slots, a, r, n)
          /\ slots' = Assign(slots, a, r, n)
          /\ UNCHANGED enabled
  /\ UNCHANGED <<wired, dev, phase, waited, raw, missed>>
  /\ Remember(shown)

Tick ==
  /\ waited' = TRUE
  /\ dev' = [a \in Listed |-> [dev[a] EXCEPT !.age = IF @ <= StaleTicks THEN @ + 1 ELSE @]]
  /\ UNCHANGED <<enabled, slots, wired, phase, raw, missed>>
  /\ Remember(shown)

PlugChanges ==
  /\ \E a \in Addrs : wired' = IF a \in wired THEN wired \ {a} ELSE wired \cup {a}
  /\ UNCHANGED <<enabled, slots, dev, phase, waited, raw, missed>>
  /\ Remember(shown)

Next == Request \/ ReadAll \/ SelfTest \/ Configure \/ Tick \/ PlugChanges
Spec == Init /\ [][Next]_vars
-----------------------------------------------------------------------------
(* Properties *)

TypeOK ==
  /\ enabled \in BOOLEAN /\ slots \in Table /\ wired \subseteq Addrs
  /\ Listed \subseteq Addrs /\ Cardinality(Listed) <= NSlots /\ dev \in [Listed -> Device]
  /\ phase \in {"IDLE", "CONVERTING"} /\ waited \in BOOLEAN
  /\ raw \in [Addrs -> Raws \cup {NAN}] /\ shown \in [Addrs -> Raws \cup {NAN}]
  /\ missed \subseteq Addrs

\* A value that is routed is the very last one its probe returned: the last good
\* value readAll keeps after a bad reading, a rescan or an unplugged probe is
\* never taken for a current one.
RoutedIsLastReading == \A a \in Routed : Reading(a) = raw[a]

\* A probe that has gone is dropped with the next poll, not when its reading
\* grows stale, and comes back only with a reading of its own.
GoneIsDropped == Routed \cap missed = {}

\* A probe that stays in use never hands on a value more than ow_classify's step
\* away from the one it handed on before, however long ago that was and whatever
\* bad, absent or stale readings, and changes of its role, came between.  Only a
\* rescan (the portal's test) starts anew.
NoJumpRouted ==
  [][ReadAll \/ Configure =>
       \A a \in Routed' : shown[a] # NAN => ~Far(Reading(a)', shown[a])]_vars
=============================================================================
