---------------------------- MODULE ProbesProofs ----------------------------
(***************************************************************************)
(* The readings of the probes for any number of slots, probes and values:  *)
(* only a valid entry of the list is routed, so the invariant is about the *)
(* valid entries.  Each holds the very last reading of its probe           *)
(* (ValidIsLast), no probe a poll has found absent has one (Dropped), and  *)
(* what a probe in use handed on is still what the next reading is judged  *)
(* by (JudgedByShown); every other fact is one of a single reading         *)
(* (ReadSound).                                                            *)
(***************************************************************************)
EXTENDS Probes, TLAPS

ValidIsLast == \A a \in Listed : dev[a].valid =>
                 a \notin Foreign /\ dev[a].last_good = raw[a]
Dropped     == \A a \in Listed : a \in missed => ~dev[a].valid

JudgedByShown == \A a \in Addrs : shown[a] # NAN =>
                   a \in Listed /\ dev[a].last_good = shown[a]

IInv == TypeOK /\ ValidIsLast /\ Dropped /\ JudgedByShown

Readings == Raws \cup {NAN}
-----------------------------------------------------------------------------
(* What is routed *)

\* Whatever is routed is a reading: listed, valid, fresh and healthy.
LEMMA RoutedIsReading == \A a \in Routed : Reading(a) # NAN
BY DEF Routed

LEMMA ReadingIsValid ==
  ASSUME NEW a, Reading(a) # NAN
  PROVE  a \in Listed /\ dev[a].valid /\ Reading(a) = dev[a].last_good
BY DEF Reading

\* What a step hands on is typed, and stays what the entries hold, when the step
\* leaves an entry alone or gives it a new reading to hand on.
LEMMA Remembered ==
  ASSUME NEW before \in [Addrs -> Readings], Remember(before),
         Listed' \in SUBSET Addrs, dev' \in [Listed' -> Device],
         \A a \in Addrs : before[a] # NAN =>
           a \in Listed' /\ (dev'[a].last_good = before[a] \/ Reading(a)' # NAN)
  PROVE  shown' \in [Addrs -> Readings] /\ JudgedByShown'
<1>1. ASSUME NEW a \in Addrs
      PROVE  /\ shown'[a] \in Readings
             /\ shown'[a] # NAN => a \in Listed' /\ dev'[a].last_good = shown'[a]
  <2>1. shown'[a] = IF a \in Routed' THEN Reading(a)'
                    ELSE IF a \in Used' THEN before[a] ELSE NAN
    BY DEF Remember
  <2>2. Reading(a)' # NAN => a \in Listed' /\ Reading(a)' = dev'[a].last_good
    BY DEF Reading
  <2>3. a \in Routed' <=> a \in Used' /\ Reading(a)' # NAN
    BY DEF Routed
  <2>4. a \in Listed' => dev'[a].last_good \in Readings
    BY DEF Device, Readings
  <2>5. NAN \in Readings /\ before[a] \in Readings
    BY DEF Readings
  <2>6. CASE a \in Routed'
    BY <2>1, <2>2, <2>3, <2>4, <2>6
  <2>7. CASE a \notin Routed' /\ a \in Used'
    BY <2>1, <2>3, <2>5, <2>7
  <2>8. CASE a \notin Routed' /\ a \notin Used'
    BY <2>1, <2>5, <2>8
  <2> QED
    BY <2>6, <2>7, <2>8
<1>2. shown' = [a \in Addrs |-> shown'[a]]
  BY DEF Remember
<1> QED
  BY <1>1, <1>2 DEF JudgedByShown

-----------------------------------------------------------------------------
(* One reading *)

LEMMA Numbers == /\ Raws \subseteq Int /\ NAN \notin Raws
                 /\ StaleTicks \in Nat /\ 0 \in 0 .. StaleTicks + 1
                 /\ StaleTicks + 1 \in 0 .. StaleTicks + 1
<1>1. Raws \subseteq Int /\ NAN \notin Raws /\ StaleTicks \in Nat
  BY ProbeAssumption
<1> QED
  BY <1>1

LEMMA MissType ==
  ASSUME NEW r \in Device, NEW h \in Health
  PROVE  Miss(r, h) \in Device /\ ~Miss(r, h).valid /\ Miss(r, h).last_good = r.last_good
BY DEF Miss, Device

\* ow_classify: its verdicts, and that a good value is within a step of the
\* last good one.
LEMMA Classified ==
  ASSUME NEW v \in Raws, NEW prev \in Raws \cup {NAN}
  PROVE  /\ Classify(v, prev) \in Health
         /\ Classify(v, prev) = "ok" => prev = NAN \/ ~Far(v, prev)
<1> v \in Int /\ prev \in Int
  BY Numbers DEF NAN
<1>1. CASE v <= -100
  BY <1>1 DEF Classify, Health
<1>2. CASE v > -100 /\ (v <= -55 \/ v >= 125)
  BY <1>2 DEF Classify, Health
<1>3. CASE ~(v <= -100) /\ ~(v > -100 /\ (v <= -55 \/ v >= 125))
  <2>1. Classify(v, prev) = IF prev = PowerOn /\ v = PowerOn THEN "stuck85"
                            ELSE IF prev # NAN /\ Far(v, prev) THEN "unstable" ELSE "ok"
    BY <1>3 DEF Classify
  <2> QED
    BY <2>1 DEF Health
<1> QED
  BY <1>1, <1>2, <1>3

LEMMA VerdictSound ==
  ASSUME NEW r \in Device, NEW v \in Raws
  PROVE  /\ Verdict(r, v) \in Device
         /\ Verdict(r, v).valid => /\ Verdict(r, v).last_good = v
                                   /\ Verdict(r, v).health = "ok" /\ Verdict(r, v).age = 0
                                   /\ r.last_good = NAN \/ ~Far(v, r.last_good)
         /\ ~Verdict(r, v).valid => Verdict(r, v).last_good = r.last_good
<1> DEFINE h == Classify(v, r.last_good)
           good == [valid |-> TRUE, health |-> "ok", last_good |-> v, age |-> 0]
<1>1. r.last_good \in Raws \cup {NAN}
  BY DEF Device
<1>2. h \in Health /\ (h = "ok" => r.last_good = NAN \/ ~Far(v, r.last_good))
  BY <1>1, Classified
<1>3. good \in Device /\ good.last_good = v /\ good.valid /\ good.health = "ok" /\ good.age = 0
  BY Numbers DEF Device, Health
<1>4. CASE h = "ok"
  <2>1. Verdict(r, v) = good
    BY <1>4 DEF Verdict
  <2> QED
    BY <1>2, <1>3, <1>4, <2>1
<1>5. CASE h # "ok"
  <2>1. Verdict(r, v) = Miss(r, h)
    BY <1>5 DEF Verdict
  <2> QED
    BY <1>2, <2>1, MissType
<1> QED
  BY <1>4, <1>5

\* readAll(): an entry it leaves valid was read from a probe that is there, and
\* it is the reading the history notes.
LEMMA ReadSound ==
  ASSUME NEW S \in SUBSET Addrs, NEW d \in [S -> Device], NEW t \in Temps(S),
         NEW h \in [Addrs -> Readings]
  PROVE  /\ Read(d, t) \in [S -> Device] /\ Noted(h, d, t) \in [Addrs -> Readings]
         /\ \A a \in S : Read(d, t)[a].valid =>
              /\ a \in wired /\ a \notin Foreign
              /\ Read(d, t)[a].last_good = Noted(h, d, t)[a]
              /\ Read(d, t)[a].last_good # NAN
              /\ Read(d, t)[a].health = "ok" /\ Read(d, t)[a].age = 0
              /\ d[a].last_good = NAN \/ ~Far(Read(d, t)[a].last_good, d[a].last_good)
         /\ \A a \in S : ~Read(d, t)[a].valid =>
              Read(d, t)[a].last_good = d[a].last_good
<1> DEFINE r == Read(d, t)
           n == Noted(h, d, t)
<1>1. DOMAIN d = S /\ t \in [S \ Foreign -> Raws]
  BY DEF Temps
<1>2. ASSUME NEW a \in S
      PROVE  /\ r[a] \in Device
             /\ r[a].valid => /\ a \in wired /\ a \notin Foreign /\ r[a].last_good = t[a]
                              /\ r[a].last_good # NAN /\ r[a].health = "ok" /\ r[a].age = 0
                              /\ d[a].last_good = NAN \/ ~Far(r[a].last_good, d[a].last_good)
             /\ ~r[a].valid => r[a].last_good = d[a].last_good
  <2>1. CASE a \in Foreign
    <3>1. r[a] = Miss(d[a], "unsupported")
      BY <1>1, <2>1 DEF Read
    <3> HIDE DEF r
    <3> QED
      BY <3>1, MissType DEF Health
  <2>2. CASE a \notin Foreign /\ a \notin wired
    <3>1. r[a] = Miss(d[a], "disconnected")
      BY <1>1, <2>2 DEF Read
    <3> HIDE DEF r
    <3> QED
      BY <3>1, MissType DEF Health
  <2>3. CASE a \notin Foreign /\ a \in wired
    <3>1. r[a] = Verdict(d[a], t[a]) /\ t[a] \in Raws /\ d[a] \in Device
      BY <1>1, <2>3 DEF Read
    <3> HIDE DEF r
    <3>2. t[a] # NAN
      BY <3>1, Numbers
    <3> QED
      BY <2>3, <3>1, <3>2, VerdictSound
  <2> QED
    BY <2>1, <2>2, <2>3
<1>3. r \in [S -> Device]
  <2>1. r = [a \in S |-> r[a]]
    BY <1>1 DEF Read
  <2> HIDE DEF r
  <2> QED
    BY <1>2, <2>1
<1>4. n \in [Addrs -> Readings]
  BY <1>1 DEF Noted, Readings
<1>5. \A a \in S : a \in wired /\ a \notin Foreign => n[a] = t[a]
  BY <1>1 DEF Noted
<1> HIDE DEF r, n
<1>6. \A a \in S : r[a].valid =>
              /\ a \in wired /\ a \notin Foreign /\ r[a].last_good = n[a]
              /\ r[a].last_good # NAN /\ r[a].health = "ok" /\ r[a].age = 0
              /\ d[a].last_good = NAN \/ ~Far(r[a].last_good, d[a].last_good)
  BY <1>2, <1>5
<1>7. \A a \in S : ~r[a].valid => r[a].last_good = d[a].last_good
  BY <1>2
<1> QED
  BY <1>3, <1>4, <1>6, <1>7 DEF r, n

\* A scan leaves devices that answered, no more than there is room for, unread.
LEMMA ScanSound ==
  ASSUME wired \subseteq Addrs, NEW S \in Scans
  PROVE  /\ S \in SUBSET Addrs /\ S \subseteq wired /\ Cardinality(S) <= NSlots
         /\ Fresh(S) \in [S -> Device] /\ \A a \in S : ~Fresh(S)[a].valid
         /\ NoReadings \in [Addrs -> Readings]
<1>1. S \subseteq wired /\ Cardinality(S) <= NSlots
  BY SlotAssumption DEF Scans
<1>2. \A a : NewDevice(a) \in Device /\ ~NewDevice(a).valid
  BY Numbers DEF NewDevice, Device, Health
<1>3. NoReadings \in [Addrs -> Readings]
  BY DEF NoReadings, Readings
<1> QED
  BY <1>1, <1>2, <1>3 DEF Fresh

LEMMA AssignType ==
  ASSUME NEW t \in Table, NEW a \in Addrs, NEW r \in Roles, NEW name \in Names
  PROVE  Assign(t, a, r, name) \in Table
<1> DEFINE s == Steal(t, a, r)
           e == [addr |-> a, role |-> r, name |-> IF r = "custom" THEN name ELSE NoName]
<1>1. s \in Table
  <2>1. \A i \in Slots : [t[i] EXCEPT !.role = "none", !.name = NoName] \in Slot
    BY DEF Table, Slot, Roles
  <2> QED
    BY <2>1 DEF Steal, Table
<1>2. e \in Slot /\ EmptySlot \in Slot
  BY DEF Slot, EmptySlot, Roles
<1>3. \/ Assign(t, a, r, name) = t
      \/ Assign(t, a, r, name) = [j \in Slots |-> IF j = SlotFind(s, a) THEN EmptySlot ELSE s[j]]
      \/ Assign(t, a, r, name) = [j \in Slots |-> IF j = Target(s, a) THEN e ELSE s[j]]
  BY DEF Assign, NameRefused
<1> HIDE DEF s, e
<1> QED
  BY <1>1, <1>2, <1>3 DEF Table

-----------------------------------------------------------------------------
(* The inductive invariant *)

LEMMA InitInv == Init => IInv
<1> SUFFICES ASSUME Init PROVE IInv
  OBVIOUS
<1>1. wired \subseteq Addrs
  BY DEF Init
<1>2. PICK S \in Scans : \E t \in Temps(S) :
        dev = Read(Fresh(S), t) /\ raw = Noted(NoReadings, Fresh(S), t)
  BY DEF Init
<1>3. PICK t \in Temps(S) : dev = Read(Fresh(S), t) /\ raw = Noted(NoReadings, Fresh(S), t)
  BY <1>2
<1>4. /\ S \in SUBSET Addrs /\ Cardinality(S) <= NSlots
      /\ Fresh(S) \in [S -> Device] /\ NoReadings \in [Addrs -> Readings]
  BY <1>1, ScanSound
<1>5. /\ dev \in [S -> Device] /\ raw \in [Addrs -> Readings]
      /\ \A a \in S : dev[a].valid => a \notin Foreign /\ dev[a].last_good = raw[a]
  BY <1>3, <1>4, ReadSound
<1>6. Listed = S
  BY <1>5 DEF Listed
<1>7. EmptyTable \in Table
  BY DEF EmptyTable, EmptySlot, Table, Slot, Roles
<1>8. shown = NoReadings
  BY DEF Init
<1>9. TypeOK
  BY <1>1, <1>4, <1>5, <1>6, <1>7, <1>8 DEF Init, TypeOK, Readings
<1>10. JudgedByShown
  BY <1>8 DEF JudgedByShown, NoReadings
<1> QED
  BY <1>5, <1>6, <1>9, <1>10 DEF IInv, ValidIsLast, Dropped, Init

LEMMA RequestInv == IInv /\ Request => IInv'
<1> SUFFICES ASSUME IInv, Request PROVE IInv'
  OBVIOUS
<1>1. /\ wired \subseteq Addrs /\ dev \in [Listed -> Device] /\ Listed \in SUBSET Addrs
      /\ UNCHANGED <<enabled, slots, wired, missed>> /\ waited' = FALSE
      /\ Remember(shown) /\ shown \in [Addrs -> Readings]
  BY DEF IInv, TypeOK, Request, Readings
<1>2. CASE Listed = {}
  <2>1. PICK S \in Scans : dev' = Fresh(S) /\ raw' = NoReadings
                           /\ phase' = IF S = {} THEN "IDLE" ELSE "CONVERTING"
    BY <1>2 DEF Request
  <2>2. /\ S \in SUBSET Addrs /\ Cardinality(S) <= NSlots
        /\ dev' \in [S -> Device] /\ (\A a \in S : ~dev'[a].valid)
        /\ raw' \in [Addrs -> Readings]
    BY <1>1, <2>1, ScanSound
  <2>3. Listed' = S
    BY <2>2 DEF Listed
  <2>4. \A a \in Addrs : shown[a] = NAN
    BY <1>2 DEF IInv, JudgedByShown
  <2>5. shown' \in [Addrs -> Readings] /\ JudgedByShown'
    BY <1>1, <2>2, <2>3, <2>4, Remembered
  <2>6. TypeOK'
    BY <1>1, <2>1, <2>2, <2>3, <2>5 DEF IInv, TypeOK, Readings
  <2> QED
    BY <2>2, <2>3, <2>5, <2>6 DEF IInv, ValidIsLast, Dropped
<1>3. CASE Listed # {}
  <2>1. UNCHANGED <<dev, raw>> /\ phase' \in {"IDLE", "CONVERTING"} /\ Listed' = Listed
    BY <1>3 DEF Request, Listed
  <2>2. shown' \in [Addrs -> Readings] /\ JudgedByShown'
    BY <1>1, <2>1, Remembered DEF IInv, JudgedByShown
  <2>3. TypeOK'
    BY <1>1, <2>1, <2>2 DEF IInv, TypeOK, Readings
  <2> QED
    BY <1>1, <2>1, <2>2, <2>3 DEF IInv, ValidIsLast, Dropped
<1> QED
  BY <1>2, <1>3

LEMMA ReadAllInv == IInv /\ ReadAll => IInv'
<1> SUFFICES ASSUME IInv, ReadAll PROVE IInv'
  OBVIOUS
<1>1. /\ Listed \in SUBSET Addrs /\ dev \in [Listed -> Device] /\ raw \in [Addrs -> Readings]
      /\ UNCHANGED <<enabled, slots, wired, waited>> /\ phase' = "IDLE"
      /\ missed' = (missed \ (Listed \cap wired)) \cup (Listed \ wired)
      /\ Remember(shown) /\ shown \in [Addrs -> Readings]
  BY DEF IInv, TypeOK, ReadAll, Readings
<1>2. PICK t \in Temps(Listed) : dev' = Read(dev, t) /\ raw' = Noted(raw, dev, t)
  BY DEF ReadAll
<1>3. /\ dev' \in [Listed -> Device] /\ raw' \in [Addrs -> Readings]
      /\ \A a \in Listed : dev'[a].valid =>
           a \in wired /\ a \notin Foreign /\ dev'[a].last_good = raw'[a]
  BY <1>1, <1>2, ReadSound
<1>4. Listed' = Listed
  BY <1>3 DEF Listed
<1>5. ASSUME NEW a \in Addrs, shown[a] # NAN
      PROVE  a \in Listed' /\ (dev'[a].last_good = shown[a] \/ Reading(a)' # NAN)
  <2>1. a \in Listed /\ dev[a].last_good = shown[a]
    BY <1>5 DEF IInv, JudgedByShown
  <2>2. CASE dev'[a].valid
    <3>1. /\ dev'[a].last_good # NAN /\ dev'[a].health = "ok" /\ dev'[a].age = 0
      BY <1>1, <1>2, <2>1, <2>2, ReadSound
    <3>2. Reading(a)' = dev'[a].last_good
      BY <1>4, <2>1, <2>2, <3>1, Numbers DEF Reading
    <3> QED
      BY <1>4, <2>1, <3>1, <3>2
  <2>3. CASE ~dev'[a].valid
    BY <1>1, <1>2, <1>4, <2>1, <2>3, ReadSound
  <2> QED
    BY <2>2, <2>3
<1>6. shown' \in [Addrs -> Readings] /\ JudgedByShown'
  BY <1>1, <1>3, <1>4, <1>5, Remembered
<1>7. TypeOK'
  BY <1>1, <1>3, <1>4, <1>6 DEF IInv, TypeOK, Readings
<1> QED
  BY <1>1, <1>3, <1>4, <1>6, <1>7 DEF IInv, ValidIsLast, Dropped

LEMMA SelfTestInv == IInv /\ SelfTest => IInv'
<1> SUFFICES ASSUME IInv, SelfTest PROVE IInv'
  OBVIOUS
<1>1. wired \subseteq Addrs /\ UNCHANGED <<enabled, slots, wired>> /\ Remember(NoReadings)
  BY DEF IInv, TypeOK, SelfTest
<1>2. PICK S \in Scans : \E t1, t2 \in Temps(S) :
         /\ dev' = Read(Read(Fresh(S), t1), t2)
         /\ raw' = Noted(Noted(NoReadings, Fresh(S), t1), Fresh(S), t2)
         /\ missed' = missed \ S
         /\ IF S = {} THEN UNCHANGED <<phase, waited>> ELSE phase' = "IDLE" /\ waited' = FALSE
  BY DEF SelfTest
<1>3. PICK t1 \in Temps(S), t2 \in Temps(S) :
         /\ dev' = Read(Read(Fresh(S), t1), t2)
         /\ raw' = Noted(Noted(NoReadings, Fresh(S), t1), Fresh(S), t2)
         /\ missed' = missed \ S
         /\ IF S = {} THEN UNCHANGED <<phase, waited>> ELSE phase' = "IDLE" /\ waited' = FALSE
  BY <1>2
<1> DEFINE d == Read(Fresh(S), t1)
           h == Noted(NoReadings, Fresh(S), t1)
<1>4. /\ S \in SUBSET Addrs /\ Cardinality(S) <= NSlots
      /\ Fresh(S) \in [S -> Device] /\ NoReadings \in [Addrs -> Readings]
  BY <1>1, ScanSound
<1>5. d \in [S -> Device] /\ h \in [Addrs -> Readings]
  BY <1>4, ReadSound
<1>6. Noted(h, Fresh(S), t2) = Noted(h, d, t2)
  <2>1. DOMAIN Fresh(S) = DOMAIN d
    BY <1>4, <1>5
  <2> QED
    BY <2>1 DEF Noted
<1>7. dev' = Read(d, t2) /\ raw' = Noted(h, d, t2) /\ missed' = missed \ S
  BY <1>3, <1>6
<1> HIDE DEF d, h
<1>8. /\ dev' \in [S -> Device] /\ raw' \in [Addrs -> Readings]
      /\ \A a \in S : dev'[a].valid => a \notin Foreign /\ dev'[a].last_good = raw'[a]
  BY <1>4, <1>5, <1>7, ReadSound
<1>9. Listed' = S
  BY <1>8 DEF Listed
<1>10. phase' \in {"IDLE", "CONVERTING"} /\ waited' \in BOOLEAN
  BY <1>3 DEF IInv, TypeOK
<1>11. shown' \in [Addrs -> Readings] /\ JudgedByShown'
  BY <1>1, <1>4, <1>8, <1>9, Remembered DEF NoReadings
<1>12. TypeOK'
  BY <1>1, <1>4, <1>7, <1>8, <1>9, <1>10, <1>11 DEF IInv, TypeOK, Readings
<1> QED
  BY <1>7, <1>8, <1>9, <1>11, <1>12 DEF IInv, ValidIsLast, Dropped

LEMMA TickInv == IInv /\ Tick => IInv'
<1> SUFFICES ASSUME IInv, Tick PROVE IInv'
  OBVIOUS
<1>1. /\ dev \in [Listed -> Device] /\ UNCHANGED <<enabled, slots, wired, phase, raw, missed>>
      /\ waited' = TRUE /\ Remember(shown) /\ shown \in [Addrs -> Readings]
      /\ Listed \in SUBSET Addrs
  BY DEF IInv, TypeOK, Tick, Readings
<1>2. ASSUME NEW a \in Listed
      PROVE  /\ dev'[a] \in Device
             /\ dev'[a].valid = dev[a].valid /\ dev'[a].last_good = dev[a].last_good
  <2> DEFINE g == IF dev[a].age <= StaleTicks THEN dev[a].age + 1 ELSE dev[a].age
  <2>1. dev'[a] = [dev[a] EXCEPT !.age = g]
    BY <1>2 DEF Tick
  <2>2. dev[a] \in Device
    BY <1>1, <1>2
  <2>3. g \in 0 .. StaleTicks + 1
    BY <2>2, Numbers DEF Device
  <2> HIDE DEF g
  <2> QED
    BY <2>1, <2>2, <2>3 DEF Device
<1>3. dev' \in [Listed -> Device]
  <2>1. dev' = [a \in Listed |-> dev'[a]]
    BY DEF Tick
  <2> QED
    BY <1>2, <2>1
<1>4. Listed' = Listed
  BY <1>3 DEF Listed
<1>5. shown' \in [Addrs -> Readings] /\ JudgedByShown'
  BY <1>1, <1>2, <1>3, <1>4, Remembered DEF IInv, JudgedByShown
<1>6. TypeOK'
  BY <1>1, <1>3, <1>4, <1>5 DEF IInv, TypeOK, Readings
<1> QED
  BY <1>1, <1>2, <1>4, <1>5, <1>6 DEF IInv, ValidIsLast, Dropped

\* A step that leaves the entries of the list alone.
LEMMA SameEntries ==
  ASSUME IInv, Remember(shown), UNCHANGED dev
  PROVE  shown' \in [Addrs -> Readings] /\ JudgedByShown' /\ Listed' = Listed
<1>1. Listed' = Listed
  BY DEF Listed
<1>2. shown \in [Addrs -> Readings] /\ Listed \in SUBSET Addrs /\ dev \in [Listed -> Device]
  BY DEF IInv, TypeOK, Readings
<1> QED
  BY <1>1, <1>2, Remembered DEF IInv, JudgedByShown

LEMMA StepInv == IInv /\ [Next]_vars => IInv'
<1> SUFFICES ASSUME IInv, [Next]_vars PROVE IInv'
  OBVIOUS
<1>1. CASE Configure
  <2>1. /\ UNCHANGED <<wired, dev, phase, waited, raw, missed>> /\ enabled' \in BOOLEAN
        /\ Remember(shown)
    BY <1>1 DEF Configure, IInv, TypeOK
  <2>2. slots' \in Table
    BY <1>1, AssignType DEF Configure, IInv, TypeOK
  <2>3. shown' \in [Addrs -> Readings] /\ JudgedByShown' /\ Listed' = Listed
    BY <2>1, SameEntries
  <2> QED
    BY <2>1, <2>2, <2>3 DEF IInv, TypeOK, ValidIsLast, Dropped, Readings
<1>2. CASE PlugChanges
  <2>1. /\ wired' \subseteq Addrs /\ Remember(shown)
        /\ UNCHANGED <<enabled, slots, dev, phase, waited, raw, missed>>
    BY <1>2 DEF PlugChanges, IInv, TypeOK
  <2>2. shown' \in [Addrs -> Readings] /\ JudgedByShown' /\ Listed' = Listed
    BY <2>1, SameEntries
  <2> QED
    BY <2>1, <2>2 DEF IInv, TypeOK, ValidIsLast, Dropped, Readings
<1>3. CASE UNCHANGED vars
  BY <1>3 DEF vars, IInv, TypeOK, ValidIsLast, Dropped, JudgedByShown, Listed
<1> QED
  BY <1>1, <1>2, <1>3, RequestInv, ReadAllInv, SelfTestInv, TickInv DEF Next

LEMMA AlwaysIInv == Spec => []IInv
BY InitInv, StepInv, PTL DEF Spec

-----------------------------------------------------------------------------
(* The theorems *)

\* Types, and that a scan never lists more devices than there is room for.
THEOREM ProbesTypeCorrect == Spec => []TypeOK
BY AlwaysIInv, PTL DEF IInv

\* What is routed is the last value its probe returned, never the older good one
\* that readAll() keeps for display.
THEOREM OnlyLastReadingsRouted == Spec => []RoutedIsLastReading
<1>1. IInv => RoutedIsLastReading
  BY RoutedIsReading, ReadingIsValid DEF IInv, ValidIsLast, RoutedIsLastReading
<1> QED
  BY <1>1, AlwaysIInv, PTL

\* A probe that a poll has found absent is not routed until it is read again.
THEOREM GoneProbesDropped == Spec => []GoneIsDropped
<1>1. IInv => GoneIsDropped
  BY RoutedIsReading, ReadingIsValid DEF IInv, Dropped, GoneIsDropped
<1> QED
  BY <1>1, AlwaysIInv, PTL

\* A probe that stays in use never hands on a value more than a step away from
\* the one it handed on before, whatever readings came between.
THEOREM NothingJumps == Spec => NoJumpRouted
<1> DEFINE G == ReadAll \/ Configure =>
                  \A a \in Routed' : shown[a] # NAN => ~Far(Reading(a)', shown[a])
<1>1. IInv => [G]_vars
  <2> SUFFICES ASSUME IInv, ReadAll \/ Configure, NEW a \in Routed', shown[a] # NAN
               PROVE  ~Far(Reading(a)', shown[a])
    OBVIOUS
  <2>1. a \in Listed' /\ dev'[a].valid /\ Reading(a)' = dev'[a].last_good
    BY DEF Routed, Reading
  <2>2. /\ Listed \in SUBSET Addrs /\ dev \in [Listed -> Device] /\ raw \in [Addrs -> Readings]
    BY DEF IInv, TypeOK, Readings
  <2>3. CASE ReadAll
    <3>1. PICK t \in Temps(Listed) : dev' = Read(dev, t)
      BY <2>3 DEF ReadAll
    <3>2. Listed' = Listed
      BY <2>2, <3>1, ReadSound DEF Listed
    <3>3. dev[a].last_good = shown[a]
      BY <2>1, <2>2, <3>2 DEF IInv, JudgedByShown
    <3>4. dev[a].last_good = NAN \/ ~Far(dev'[a].last_good, dev[a].last_good)
      BY <2>1, <2>2, <3>1, <3>2, ReadSound
    <3> QED
      BY <2>1, <3>3, <3>4
  <2>4. CASE Configure
    <3>1. dev' = dev /\ Listed' = Listed
      BY <2>4 DEF Configure, Listed
    <3>2. dev[a].last_good = shown[a] /\ shown[a] \in Raws \cup {NAN}
      BY <2>1, <2>2, <3>1 DEF IInv, JudgedByShown, TypeOK
    <3>3. shown[a] \in Int
      BY <3>2, Numbers
    <3> QED
      BY <2>1, <3>1, <3>2, <3>3 DEF Far, Step
  <2> QED
    BY <2>3, <2>4
<1> QED
  BY <1>1, AlwaysIInv, PTL DEF NoJumpRouted
=============================================================================
