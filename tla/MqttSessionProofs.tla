-------------------------- MODULE MqttSessionProofs --------------------------
(***************************************************************************)
(* The safety of MqttSession for every session age, every back-off and any *)
(* number of commands.  Three independent facts are carried through the    *)
(* stages of the loop: a one-shot command still to be read is paid for     *)
(* (Paid), a dead socket is never met more often than the session is old   *)
(* (Dying), and an offline shown for a working session was the last will   *)
(* there was to publish, with the heartbeat still to come (Shown).         *)
(***************************************************************************)
EXTENDS MqttSession, TLAPS

\* A one-shot command the device may yet read: 1 or 0.
Waiting(c) == IF c \in OneShots /\ (c \in retained \/ c \in inbox) THEN 1 ELSE 0

Paid == credit >= Waiting("reboot") + Waiting("settings")

Dying == /\ blind \in Nat /\ blind <= age
         /\ blind <= IF pc \in {"tele", "top"} THEN MaxAge ELSE MaxAge + 1

Shown == /\ misled \in {0, 1}
         /\ link = "good" /\ online = "offline" => ~ghost
         /\ link = "good" /\ misled = 1 =>
              ~ghost /\ (online = "online" \/ (due /\ pc # "top"))

IInv == TypeOK /\ Paid /\ Dying /\ Shown

-----------------------------------------------------------------------------
(* What the compound steps do *)

LEMMA Bounds ==
  /\ Retry \in Nat /\ Retry >= 1 /\ RetryCap \in Nat /\ MaxAge \in Nat
  /\ Retry <= RetryCap /\ RetryCap <= MaxAge
  /\ Cmds \subseteq {"reboot", "settings", "gw_mode"}
  /\ OneShots \subseteq {"reboot", "settings"} /\ OneShots \subseteq Cmds
  /\ Empty \notin Cmds
BY MqttAssumption DEF OneShots, Empty

\* reconnect(): not connected, connected, or connected half-way.
LEMMA TryEnds ==
  ASSUME TypeOK, NEW old \in BOOLEAN, TryReconnect(old)
  PROVE  /\ since' \in 0 .. RetryCap /\ delay_ms' \in Retry .. RetryCap
         /\ held' \in BOOLEAN /\ ghost' \in BOOLEAN /\ online' \in {"online", "offline"}
         /\ \/ /\ link' = "none" /\ inbox' = {} /\ UNCHANGED <<ghost, online>>
            \/ /\ link' = "good" /\ inbox' = retained /\ online' = "online"
            \/ /\ link' = "dead" /\ inbox' = {}
<1>1. /\ delay_ms \in Retry .. RetryCap /\ since \in 0 .. RetryCap /\ ghost \in BOOLEAN
      /\ online \in {"online", "offline"}
  BY DEF TypeOK
<1>2. Backoff \in Retry .. RetryCap
  BY <1>1, Bounds DEF Backoff, Least
<1>3. CASE since < delay_ms
  <2>1. NotConnected(old) /\ UNCHANGED <<since, delay_ms>>
    BY <1>3 DEF TryReconnect
  <2> QED
    BY <1>1, <2>1 DEF NotConnected
<1>4. CASE ~(since < delay_ms)
  <2>1. since' = 0 /\ Attempt(old)
    BY <1>4 DEF TryReconnect
  <2>2. since' \in 0 .. RetryCap
    BY <2>1, Bounds
  <2>3. CASE net = "up"
    <3>1. /\ ConnectFully \/ ConnectPartly
          /\ held' = TRUE /\ ghost' \in {ghost, ghost \/ old} /\ delay_ms' = Retry
      BY <2>1, <2>3 DEF Attempt
    <3>2. delay_ms' \in Retry .. RetryCap
      BY <3>1, Bounds
    <3>3. held' \in BOOLEAN /\ ghost' \in BOOLEAN
      BY <1>1, <3>1
    <3> QED
      BY <1>1, <2>2, <3>1, <3>2, <3>3 DEF ConnectFully, ConnectPartly
  <2>4. CASE net # "up"
    <3>1. NotConnected(old) /\ delay_ms' = Backoff
      BY <2>1, <2>4 DEF Attempt
    <3> QED
      BY <1>1, <1>2, <2>2, <3>1 DEF NotConnected
  <2> QED
    BY <2>3, <2>4
<1> QED
  BY <1>3, <1>4

\* A message read: the device restarts, or goes on with one message less.
LEMMA ReadEnds ==
  ASSUME TypeOK, ReadOne
  PROVE  \E c \in inbox :
           /\ UNCHANGED <<net, held, ghost, online>>
           /\ \/ Boots
              \/ /\ pc' = "age" /\ UNCHANGED <<link, age, since, delay_ms, due, seen>>
                 /\ inbox' \subseteq (inbox \ {c}) \cup {Empty}
           /\ \/ c \notin OneShots /\ UNCHANGED <<retained, credit>>
              \/ c \in Cmds /\ UNCHANGED <<retained, credit>>
              \/ c \in OneShots /\ retained' = retained \ {c} /\ credit' = credit - 1
<1>1. PICK c \in inbox : RunReboot(c) \/ RunSettings(c) \/ RunGwMode(c) \/ SkipEmpty(c)
  BY DEF ReadOne
<1>2. UNCHANGED <<net, held, ghost, online>>
  BY DEF ReadOne
<1>3. c \in Cmds \cup {Empty}
  BY DEF TypeOK
<1>4. \/ Boots
      \/ /\ pc' = "age" /\ UNCHANGED <<link, age, since, delay_ms, due, seen>>
         /\ inbox' \subseteq (inbox \ {c}) \cup {Empty}
  BY <1>1 DEF RunReboot, RunSettings, RunGwMode, SkipEmpty
<1>5. \/ c \notin OneShots /\ UNCHANGED <<retained, credit>>
      \/ c \in Cmds /\ UNCHANGED <<retained, credit>>
      \/ c \in OneShots /\ retained' = retained \ {c} /\ credit' = credit - 1
  <2>1. ClearRetained(c) => \/ UNCHANGED <<retained, credit>>
                            \/ retained' = retained \ {c} /\ credit' = credit - 1
    BY DEF ClearRetained
  <2>2. c = "reboot" \/ c = "settings" => c \in Cmds /\ c \in OneShots
    BY <1>3 DEF OneShots, Empty
  <2>3. c = "gw_mode" \/ c = Empty => c \notin OneShots
    BY DEF OneShots, Empty
  <2> QED
    BY <1>1, <2>1, <2>2, <2>3 DEF RunReboot, RunSettings, RunGwMode, SkipEmpty
<1> QED
  BY <1>2, <1>4, <1>5

-----------------------------------------------------------------------------
(* Type correctness *)

LEMMA TypeInit == Init => TypeOK
<1> SUFFICES ASSUME Init PROVE TypeOK
  OBVIOUS
<1>1. /\ delay_ms \in Retry .. RetryCap /\ age \in 0 .. MaxAge + 1 /\ since \in 0 .. RetryCap
      /\ credit \in Int
  BY Bounds DEF Init
<1>2. held \in BOOLEAN /\ ghost \in BOOLEAN /\ due \in BOOLEAN
  BY DEF Init
<1>3. /\ pc \in {"top", "bridge", "age", "tele"} /\ link \in {"none", "good", "dead"}
      /\ inbox \subseteq Cmds \cup {Empty} /\ retained \subseteq Cmds
      /\ online \in {"online", "offline"} /\ net \in {"up", "no_route", "no_wifi"}
  BY DEF Init
<1> QED
  BY <1>1, <1>2, <1>3 DEF TypeOK

LEMMA BootTypes ==
  ASSUME TypeOK, Boots, UNCHANGED <<net, held, ghost, online>>,
         retained' \subseteq Cmds, credit' \in Int
  PROVE  TypeOK'
<1>1. delay_ms' \in Retry .. RetryCap /\ age' \in 0 .. MaxAge + 1 /\ since' \in 0 .. RetryCap
  BY Bounds DEF Boots
<1>2. due' \in BOOLEAN
  BY DEF Boots
<1>3. /\ pc' \in {"top", "bridge", "age", "tele"} /\ link' \in {"none", "good", "dead"}
      /\ inbox' \subseteq Cmds \cup {Empty}
  BY DEF Boots
<1> QED
  BY <1>1, <1>2, <1>3 DEF TypeOK

LEMMA TryTypes ==
  ASSUME TypeOK, NEW old \in BOOLEAN, TryReconnect(old), pc' = "tele",
         age' \in {0, age}, UNCHANGED <<net, due, retained, credit>>
  PROVE  TypeOK'
<1>1. age' \in 0 .. MaxAge + 1
  BY Bounds DEF TypeOK
<1>2. /\ since' \in 0 .. RetryCap /\ delay_ms' \in Retry .. RetryCap
      /\ held' \in BOOLEAN /\ ghost' \in BOOLEAN /\ online' \in {"online", "offline"}
      /\ link' \in {"none", "good", "dead"} /\ (inbox' = {} \/ inbox' = retained)
  BY TryEnds
<1>3. inbox' \subseteq Cmds \cup {Empty}
  BY <1>2 DEF TypeOK
<1> QED
  BY <1>1, <1>2, <1>3 DEF TypeOK

LEMMA EnvironmentTypes ==
  ASSUME TypeOK, Environment
  PROVE  TypeOK'
<1>1. CASE NetChanges
  BY <1>1 DEF NetChanges, TypeOK, broker, seen
<1>2. CASE LinkDies
  BY <1>2 DEF LinkDies, TypeOK, broker, seen
<1>3. CASE WillFires
  <2>1. held' \in BOOLEAN /\ ghost' \in BOOLEAN /\ online' \in {"online", "offline"}
    BY <1>3 DEF WillFires, TypeOK
  <2>2. UNCHANGED <<device, net, retained, credit>>
    BY <1>3 DEF WillFires
  <2> QED
    BY <2>1, <2>2 DEF TypeOK, device
<1>4. CASE BrokerRestarts
  <2>1. /\ held' \in BOOLEAN /\ ghost' \in BOOLEAN /\ online' \in {"online", "offline"}
        /\ link' \in {"none", "good", "dead"} /\ retained' \subseteq Cmds
    BY <1>4 DEF BrokerRestarts, TypeOK
  <2>2. UNCHANGED <<pc, net, age, since, delay_ms, inbox, due, credit>>
    BY <1>4 DEF BrokerRestarts
  <2> QED
    BY <2>1, <2>2 DEF TypeOK
<1>5. CASE Crash
  BY <1>5, BootTypes DEF Crash, broker, TypeOK
<1>6. ASSUME NEW c \in Cmds, Order(c)
      PROVE  TypeOK'
  <2>1. retained' \subseteq Cmds /\ inbox' \subseteq Cmds \cup {Empty}
    BY <1>6 DEF Order, TypeOK
  <2>2. credit' \in Int
    BY <1>6 DEF Order, TypeOK
  <2>3. UNCHANGED <<pc, net, link, age, since, delay_ms, due, held, ghost, online>>
    BY <1>6 DEF Order
  <2> QED
    BY <2>1, <2>2, <2>3 DEF TypeOK
<1> QED
  BY <1>1, <1>2, <1>3, <1>4, <1>5, <1>6 DEF Environment

LEMMA LoopTypes ==
  ASSUME TypeOK, Loop
  PROVE  TypeOK'
<1>1. CASE Reconnect
  <2>1. held \in BOOLEAN
    BY DEF TypeOK
  <2>2. TryReconnect(held) /\ pc' = "tele" /\ age' \in {0, age}
        /\ UNCHANGED <<net, due, retained, credit>>
    BY <1>1 DEF Reconnect
  <2> QED
    BY <2>1, <2>2, TryTypes
<1>2. CASE Rebind
  <2>1. (held /\ link # "good") \in BOOLEAN
    OBVIOUS
  <2>2. TryReconnect(held /\ link # "good") /\ pc' = "tele" /\ age' \in {0, age}
        /\ UNCHANGED <<net, due, retained, credit>>
    BY <1>2 DEF Rebind
  <2> QED
    BY <2>1, <2>2, TryTypes
<1>3. CASE ReadOne
  <2>1. PICK c \in inbox :
           /\ UNCHANGED <<net, held, ghost, online>>
           /\ \/ Boots
              \/ /\ pc' = "age" /\ UNCHANGED <<link, age, since, delay_ms, due, seen>>
                 /\ inbox' \subseteq (inbox \ {c}) \cup {Empty}
           /\ \/ c \notin OneShots /\ UNCHANGED <<retained, credit>>
              \/ c \in Cmds /\ UNCHANGED <<retained, credit>>
              \/ c \in OneShots /\ retained' = retained \ {c} /\ credit' = credit - 1
    BY <1>3, ReadEnds
  <2>2. retained' \subseteq Cmds
    BY <2>1 DEF TypeOK
  <2>3. credit' \in Int
    BY <2>1 DEF TypeOK
  <2>4. CASE Boots
    BY <2>1, <2>2, <2>3, <2>4, BootTypes
  <2>5. CASE ~Boots
    BY <2>1, <2>2, <2>3, <2>5 DEF TypeOK
  <2> QED
    BY <2>4, <2>5
<1>4. CASE ReadNothing
  BY <1>4 DEF ReadNothing, TypeOK, broker
<1>5. CASE KeepSession
  BY <1>5 DEF KeepSession, TypeOK, broker
<1>6. CASE Telemetry
  <2>1. due' \in BOOLEAN /\ online' \in {"online", "offline"} /\ pc' = "top"
    BY <1>6 DEF Telemetry, TypeOK
  <2>2. UNCHANGED <<net, link, age, since, delay_ms, inbox, held, ghost, retained, credit>>
    BY <1>6 DEF Telemetry
  <2> QED
    BY <2>1, <2>2 DEF TypeOK
<1>7. CASE NoTelemetry
  BY <1>7 DEF NoTelemetry, TypeOK, broker
<1>8. CASE StartIteration
  BY <1>8 DEF StartIteration, TypeOK, broker
<1>9. CASE Tick
  <2>1. age' \in 0 .. MaxAge + 1 /\ since' \in 0 .. RetryCap
    BY <1>9, Bounds DEF Tick, Bump, TypeOK
  <2>2. due' \in BOOLEAN /\ pc' = "bridge"
    BY <1>9 DEF Tick
  <2>3. UNCHANGED <<net, link, delay_ms, inbox, held, ghost, online, retained, credit>>
    BY <1>9 DEF Tick, broker
  <2> QED
    BY <2>1, <2>2, <2>3 DEF TypeOK
<1>10. CASE NoWifi
  BY <1>10 DEF NoWifi, TypeOK, broker
<1> QED
  BY <1>1, <1>2, <1>3, <1>4, <1>5, <1>6, <1>7, <1>8, <1>9, <1>10 DEF Loop, Bridge

LEMMA TypeStep == TypeOK /\ [Next]_vars => TypeOK'
<1>1. TypeOK /\ UNCHANGED vars => TypeOK'
  BY DEF vars, device, broker, TypeOK
<1> QED
  BY <1>1, LoopTypes, EnvironmentTypes DEF Next

-----------------------------------------------------------------------------
(* One-shot commands are paid for *)

LEMMA PaidByLess ==
  ASSUME Paid, credit \in Int, credit' = credit,
         \A c \in OneShots : c \in retained' \/ c \in inbox' => c \in retained \/ c \in inbox
  PROVE  Paid'
<1>1. \A c : Waiting(c) \in {0, 1} /\ Waiting(c)' \in {0, 1}
  BY DEF Waiting
<1>2. \A c : Waiting(c)' = 1 => Waiting(c) = 1
  BY DEF Waiting
<1>3. \A c : Waiting(c)' <= Waiting(c)
  BY <1>1, <1>2
<1> HIDE DEF Waiting
<1>4. /\ Waiting("reboot")' <= Waiting("reboot") /\ Waiting("settings")' <= Waiting("settings")
      /\ credit \in Int /\ credit' = credit
      /\ Waiting("reboot") \in Int /\ Waiting("settings") \in Int
      /\ Waiting("reboot")' \in Int /\ Waiting("settings")' \in Int
      /\ credit >= Waiting("reboot") + Waiting("settings")
  BY <1>1, <1>3 DEF Paid
<1>5. credit' >= Waiting("reboot")' + Waiting("settings")'
  BY <1>4
<1> QED
  BY <1>5 DEF Paid

LEMMA PaidStep ==
  ASSUME TypeOK, Paid, [Next]_vars
  PROVE  Paid'
<1>0. credit \in Int
  BY DEF TypeOK
<1>1. CASE Reconnect \/ Rebind
  <2>1. PICK old \in BOOLEAN : TryReconnect(old)
    BY <1>1 DEF Reconnect, Rebind, TypeOK
  <2>2. UNCHANGED <<retained, credit>>
    BY <1>1 DEF Reconnect, Rebind
  <2>3. inbox' = {} \/ inbox' = retained
    BY <2>1, TryEnds
  <2> QED
    BY <1>0, <2>2, <2>3, PaidByLess
<1>2. CASE ReadOne
  <2>1. PICK c \in inbox :
           /\ UNCHANGED <<net, held, ghost, online>>
           /\ \/ Boots
              \/ /\ pc' = "age" /\ UNCHANGED <<link, age, since, delay_ms, due, seen>>
                 /\ inbox' \subseteq (inbox \ {c}) \cup {Empty}
           /\ \/ c \notin OneShots /\ UNCHANGED <<retained, credit>>
              \/ c \in Cmds /\ UNCHANGED <<retained, credit>>
              \/ c \in OneShots /\ retained' = retained \ {c} /\ credit' = credit - 1
    BY <1>2, ReadEnds
  <2>2. inbox' \subseteq (inbox \ {c}) \cup {Empty}
    BY <2>1 DEF Boots
  <2>3. Empty \notin OneShots
    BY Bounds
  <2>4. CASE UNCHANGED <<retained, credit>>
    BY <1>0, <2>2, <2>3, <2>4, PaidByLess
  <2>5. CASE c \in OneShots /\ retained' = retained \ {c} /\ credit' = credit - 1
    <3>1. Waiting(c) = 1 /\ Waiting(c)' = 0
      BY <2>2, <2>3, <2>5 DEF Waiting
    <3>2. \A d : Waiting(d) \in {0, 1} /\ Waiting(d)' \in {0, 1}
      BY DEF Waiting
    <3>3. \A d : Waiting(d)' = 1 => Waiting(d) = 1
      BY <2>2, <2>3, <2>5 DEF Waiting
    <3>4. \A d : Waiting(d)' <= Waiting(d)
      BY <3>2, <3>3
    <3>5. c = "reboot" \/ c = "settings"
      BY <2>5, Bounds
    <3> HIDE DEF Waiting
    <3>6. /\ Waiting("reboot") \in Int /\ Waiting("settings") \in Int
          /\ Waiting("reboot")' \in Int /\ Waiting("settings")' \in Int
          /\ Waiting("reboot")' <= Waiting("reboot")
          /\ Waiting("settings")' <= Waiting("settings")
      BY <3>2, <3>4
    <3>7. \/ Waiting("reboot")' = Waiting("reboot") - 1
          \/ Waiting("settings")' = Waiting("settings") - 1
      BY <3>1, <3>5
    <3>8. credit' >= Waiting("reboot")' + Waiting("settings")'
      BY <1>0, <2>5, <3>6, <3>7 DEF Paid
    <3> QED
      BY <3>8 DEF Paid
  <2> QED
    BY <2>1, <2>4, <2>5
<1>3. ASSUME NEW c \in Cmds, Order(c)
      PROVE  Paid'
  <2>1. /\ retained' \subseteq retained \cup {c} /\ inbox' \subseteq inbox \cup {c}
        /\ credit' = IF c \in OneShots THEN credit + 1 ELSE credit
    BY <1>3 DEF Order
  <2>2. CASE c \notin OneShots
    BY <1>0, <2>1, <2>2, PaidByLess
  <2>3. CASE c \in OneShots
    <3>1. \A d : Waiting(d) \in {0, 1} /\ Waiting(d)' \in {0, 1}
      BY DEF Waiting
    <3>2. \A d : d # c => (Waiting(d)' = 1 => Waiting(d) = 1)
      BY <2>1 DEF Waiting
    <3> HIDE DEF Waiting
    <3>3. /\ Waiting("reboot") \in {0, 1} /\ Waiting("settings") \in {0, 1}
          /\ Waiting("reboot")' \in {0, 1} /\ Waiting("settings")' \in {0, 1}
      BY <3>1
    <3>4. \/ Waiting("reboot")' = 1 => Waiting("reboot") = 1
          \/ Waiting("settings")' = 1 => Waiting("settings") = 1
      BY <3>2
    <3>5. credit' = credit + 1 /\ credit >= Waiting("reboot") + Waiting("settings")
      BY <2>1, <2>3 DEF Paid
    <3>6. credit' >= Waiting("reboot")' + Waiting("settings")'
      BY <1>0, <3>3, <3>4, <3>5
    <3> QED
      BY <3>6 DEF Paid
  <2> QED
    BY <2>2, <2>3
<1>4. CASE NetChanges \/ LinkDies \/ BrokerRestarts \/ Crash
  <2>1. credit' = credit /\ retained' \subseteq retained /\ inbox' \subseteq inbox
    BY <1>4 DEF NetChanges, LinkDies, BrokerRestarts, Crash, Boots, broker
  <2> QED
    BY <1>0, <2>1, PaidByLess
<1>5. CASE \/ WillFires \/ ReadNothing \/ KeepSession \/ Telemetry \/ NoTelemetry
           \/ StartIteration \/ Tick \/ NoWifi \/ UNCHANGED vars
  <2>1. credit' = credit /\ retained' = retained /\ inbox' = inbox
    BY <1>5
       DEF WillFires, ReadNothing, KeepSession, Telemetry, NoTelemetry, StartIteration, Tick,
           NoWifi, vars, device, broker
  <2> QED
    BY <1>0, <2>1, PaidByLess
<1> QED
  BY <1>1, <1>2, <1>3, <1>4, <1>5 DEF Next, Loop, Bridge, Environment

-----------------------------------------------------------------------------
(* A dead socket is met no more often than the session is old *)

LEMMA DyingStep ==
  ASSUME TypeOK, Dying, [Next]_vars
  PROVE  Dying'
<1>0. /\ age \in Nat /\ age <= MaxAge + 1 /\ blind \in Nat /\ MaxAge \in Nat
      /\ blind <= age
  BY Bounds DEF TypeOK, Dying
<1>1. CASE Tick
  <2>1. /\ age' = IF age < MaxAge + 1 THEN age + 1 ELSE age
        /\ blind' \in {0, IF blind < MaxAge + 3 THEN blind + 1 ELSE blind}
        /\ pc = "top" /\ pc' = "bridge"
    BY <1>1 DEF Tick, Bump
  <2>2. blind <= MaxAge
    BY <2>1 DEF Dying
  <2>3. blind' \in Nat /\ blind' <= age' /\ blind' <= MaxAge + 1
    BY <1>0, <2>1, <2>2
  <2> QED
    BY <2>1, <2>3 DEF Dying
<1>2. CASE KeepSession
  <2>1. age <= MaxAge /\ blind' = blind /\ age' = age /\ pc' = "tele"
    BY <1>2 DEF KeepSession, seen
  <2> QED
    BY <1>0, <2>1 DEF Dying
<1>3. CASE Reconnect \/ Rebind \/ NoWifi \/ Crash
  <2>1. blind' = 0 /\ age' \in {0, age}
    BY <1>3 DEF Reconnect, Rebind, NoWifi, Crash, Boots
  <2> QED
    BY <1>0, <2>1 DEF Dying
<1>4. CASE ReadOne
  <2>1. \/ blind' = 0 /\ age' = 0
        \/ blind' = blind /\ age' = age /\ pc = "bridge" /\ pc' = "age"
    BY <1>4, ReadEnds DEF Boots, seen, ReadOne
  <2> QED
    BY <1>0, <2>1 DEF Dying
<1>5. CASE ReadNothing \/ StartIteration
  <2>1. blind' = blind /\ age' = age /\ pc' \in {"age", "bridge"}
    BY <1>5 DEF ReadNothing, StartIteration, seen
  <2> QED
    BY <1>0, <2>1 DEF Dying
<1>6. CASE Telemetry \/ NoTelemetry
  <2>1. blind' = blind /\ age' = age /\ pc = "tele" /\ pc' = "top"
    BY <1>6 DEF Telemetry, NoTelemetry, seen
  <2> QED
    BY <2>1 DEF Dying
<1>7. CASE NetChanges \/ LinkDies \/ WillFires \/ BrokerRestarts \/ UNCHANGED vars
  BY <1>7
     DEF NetChanges, LinkDies, WillFires, BrokerRestarts, vars, device, seen, Dying
<1>8. ASSUME NEW c \in Cmds, Order(c)
      PROVE  Dying'
  BY <1>8 DEF Order, seen, Dying
<1> QED
  BY <1>1, <1>2, <1>3, <1>4, <1>5, <1>6, <1>7, <1>8 DEF Next, Loop, Bridge, Environment

-----------------------------------------------------------------------------
(* The heartbeat repairs the last will *)

LEMMA ShownStep ==
  ASSUME TypeOK, Shown, [Next]_vars
  PROVE  Shown'
<1>0. /\ link \in {"none", "good", "dead"} /\ online \in {"online", "offline"}
      /\ ghost \in BOOLEAN /\ due \in BOOLEAN /\ misled \in {0, 1}
  BY DEF TypeOK, Shown
<1>1. CASE Tick
  <2>1. /\ misled' = IF link = "good" /\ online = "offline"
                       THEN (IF misled < 3 THEN misled + 1 ELSE misled) ELSE 0
        /\ due' = TRUE /\ pc = "top" /\ pc' = "bridge"
        /\ UNCHANGED <<link, ghost, online>>
    BY <1>1 DEF Tick, Bump, broker
  <2>2. link = "good" /\ online = "offline" => misled = 0 /\ ~ghost
    BY <1>0, <2>1 DEF Shown
  <2>3. misled' = 0 \/ (misled' = 1 /\ link = "good" /\ online = "offline")
    BY <2>1, <2>2
  <2> QED
    BY <1>0, <2>1, <2>2, <2>3 DEF Shown
<1>2. CASE Reconnect \/ Rebind
  <2>1. PICK old \in BOOLEAN : TryReconnect(old)
    BY <1>2 DEF Reconnect, Rebind, TypeOK
  <2>2. misled' = 0
    BY <1>2 DEF Reconnect, Rebind
  <2>3. link' # "good" \/ online' # "offline"
    BY <2>1, TryEnds
  <2> QED
    BY <2>2, <2>3 DEF Shown
<1>3. CASE Crash
  BY <1>3 DEF Crash, Boots, Shown
<1>4. CASE ReadOne
  <2>1. \/ misled' = 0 /\ link' = "none"
        \/ UNCHANGED <<misled, link, due>> /\ pc' = "age"
    BY <1>4, ReadEnds DEF Boots, seen
  <2>2. UNCHANGED <<ghost, online>> /\ pc = "bridge"
    BY <1>4 DEF ReadOne
  <2> QED
    BY <2>1, <2>2 DEF Shown
<1>5. CASE Telemetry
  <2>1. /\ online' = IF link = "good" THEN "online" ELSE online
        /\ UNCHANGED <<link, ghost, misled>>
    BY <1>5 DEF Telemetry, seen
  <2> QED
    BY <2>1 DEF Shown
<1>6. CASE NoTelemetry
  <2>1. /\ ~(Connected /\ due) /\ UNCHANGED <<link, ghost, online, misled>>
    BY <1>6 DEF NoTelemetry, broker, seen
  <2>2. link = "good" => ~due
    BY <2>1 DEF Connected
  <2> QED
    BY <2>1, <2>2 DEF Shown
<1>7. CASE ReadNothing \/ KeepSession \/ StartIteration
  <2>1. UNCHANGED <<link, ghost, online, misled, due>> /\ pc' # "top"
    BY <1>7 DEF ReadNothing, KeepSession, StartIteration, broker, seen
  <2> QED
    BY <2>1 DEF Shown
<1>8. CASE NoWifi
  BY <1>8 DEF NoWifi, broker, Shown
<1>9. CASE WillFires
  <2>1. /\ online' = "offline" /\ UNCHANGED <<link, misled, due, pc>>
        /\ \/ link # "good" /\ UNCHANGED ghost
           \/ ghost /\ ghost' = FALSE
    BY <1>9 DEF WillFires, device, seen
  <2> QED
    BY <1>0, <2>1 DEF Shown
<1>10. CASE NetChanges \/ LinkDies
  <2>1. /\ UNCHANGED <<ghost, online, misled, due, pc>>
        /\ link' = "good" => link = "good"
    BY <1>10 DEF NetChanges, LinkDies, broker, seen
  <2> QED
    BY <2>1 DEF Shown
<1>11. CASE BrokerRestarts
  <2>1. link' # "good" /\ misled' = misled
    BY <1>11 DEF BrokerRestarts, seen
  <2> QED
    BY <2>1 DEF Shown
<1>12. ASSUME NEW c \in Cmds, Order(c)
       PROVE  Shown'
  BY <1>12 DEF Order, seen, Shown
<1>13. CASE UNCHANGED vars
  BY <1>13 DEF vars, device, broker, seen, Shown
<1> QED
  BY <1>1, <1>2, <1>3, <1>4, <1>5, <1>6, <1>7, <1>8, <1>9, <1>10, <1>11, <1>12, <1>13
     DEF Next, Loop, Bridge, Environment

-----------------------------------------------------------------------------
(* The theorems *)

LEMMA InitInv == Init => IInv
<1> SUFFICES ASSUME Init PROVE IInv
  OBVIOUS
<1>1. Paid
  BY DEF Init, Paid, Waiting
<1>2. Dying
  BY Bounds DEF Init, Dying
<1>3. Shown
  BY DEF Init, Shown
<1> QED
  BY <1>1, <1>2, <1>3, TypeInit DEF IInv

LEMMA AlwaysIInv == Spec => []IInv
<1>1. IInv /\ [Next]_vars => IInv'
  BY TypeStep, PaidStep, DyingStep, ShownStep DEF IInv
<1> QED
  BY <1>1, InitInv, PTL DEF Spec

\* Type correctness of the session, the back-off and the broker's state.
THEOREM SessionTypeCorrect == Spec => []TypeOK
BY AlwaysIInv, PTL DEF IInv

\* No one-shot command is acted on more often than it was given, unless its
\* clear was lost: not through reconnects, restarts or echoes.
THEOREM OneShotsRunOnce == Spec => []OneShotOnce
<1>1. IInv => OneShotOnce
  <2>1. \A c : Waiting(c) \in {0, 1}
    BY DEF Waiting
  <2>2. Waiting("reboot") \in {0, 1} /\ Waiting("settings") \in {0, 1}
    BY <2>1
  <2> HIDE DEF Waiting
  <2> QED
    BY <2>2 DEF IInv, Paid, TypeOK, OneShotOnce
<1> QED
  BY <1>1, AlwaysIInv, PTL

\* A dead session is torn down after MaxAge ticks.
THEOREM ZombiesDie == Spec => []ZombieBounded
<1>1. IInv => ZombieBounded
  BY Bounds DEF IInv, Dying, ZombieBounded
<1> QED
  BY <1>1, AlwaysIInv, PTL

\* A working session is not shown as offline for two ticks.
THEOREM HeartbeatRepairs == Spec => []OnlineTold
<1>1. IInv => OnlineTold
  BY DEF IInv, Shown, OnlineTold
<1> QED
  BY <1>1, AlwaysIInv, PTL
=============================================================================
