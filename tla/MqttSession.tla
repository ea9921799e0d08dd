----------------------------- MODULE MqttSession -----------------------------
(***************************************************************************)
(* The session of MqttBridge with its broker: connects with a back-off, a  *)
(* session that outlives its connection (connected() only looks at the     *)
(* socket), the rebind of a session that is too old, the one-shot commands *)
(* kept by the broker, and the retained availability.                      *)
(*                                                                         *)
(* The broker and the network between are the environment.  A publish that *)
(* goes into a dead socket succeeds for the device and is lost.            *)
(***************************************************************************)
EXTENDS Integers

CONSTANTS
  Cmds,       \* the commands modelled, of {"reboot", "settings", "gw_mode"}
  MaxAge,     \* MQTT_MAX_SESSION_MS in ticks
  Retry,      \* MQTT_RECONNECT_MS in ticks
  RetryCap,   \* the longest back-off
  MaxOrders   \* bound: commands given and not yet acted on

Empty == "empty"                    \* the payload that clears a retained command
OneShots == Cmds \cap {"reboot", "settings"}

ASSUME MqttAssumption ==
  /\ Cmds \subseteq {"reboot", "settings", "gw_mode"}
  /\ Retry \in Nat \ {0} /\ RetryCap \in Nat /\ MaxAge \in Nat /\ MaxOrders \in Nat
  /\ Retry <= RetryCap /\ RetryCap <= MaxAge

VARIABLES
  pc,        \* top, bridge, age, tele: the stages of loop()
  net,       \* up, no_route, no_wifi
  link,      \* the device's socket: none, good, or dead (open, nothing gets through)
  age,       \* ticks since session_started_ms_, up to MaxAge + 1
  since,     \* ticks since last_reconnect_ms_, up to RetryCap
  delay_ms,
  inbox,     \* messages in the socket
  due,       \* TELEMETRY_INTERVAL_MS have passed since last_telemetry_ms_
  held,      \* the broker has a session of this client, with its will
  ghost,     \* it has yet to publish the will of a session taken over
  online,    \* the retained availability
  retained,  \* commands retained at the broker
  credit,    \* history: one-shots given and clears lost, less one-shots acted on
  blind,     \* history: ticks in a row that the bridge's loop() has met the same dead socket
  misled     \* history: ticks in a row that a working session was shown as offline

device == <<pc, link, age, since, delay_ms, inbox, due>>
broker == <<held, ghost, online, retained>>
seen   == <<blind, misled>>
vars   == <<device, net, broker, credit, seen>>

Bump(n, top) == IF n < top THEN n + 1 ELSE n
Least(a, b)  == IF a < b THEN a ELSE b
Connected    == link # "none"
-----------------------------------------------------------------------------
(* The environment *)

NetChanges ==
  /\ net' \in {"up", "no_route", "no_wifi"}
  /\ link' \in IF link = "good" /\ net' # "up" THEN {"good", "dead", "none"} ELSE {link}
  /\ inbox' = IF link' = "none" THEN {} ELSE inbox
  /\ UNCHANGED <<pc, age, since, delay_ms, due, broker, credit, seen>>

\* A connection dies, or the device notices that it has.
LinkDies ==
  /\ \/ link = "good" /\ link' = "dead" /\ UNCHANGED inbox
     \/ link # "none" /\ link' = "none" /\ inbox' = {}
  /\ UNCHANGED <<pc, net, age, since, delay_ms, due, broker, credit, seen>>

\* The broker misses its client and publishes the will; or that of a session
\* whose client has already come back.
WillFires ==
  /\ \/ held /\ link # "good" /\ held' = FALSE /\ UNCHANGED ghost
     \/ ghost /\ ghost' = FALSE /\ UNCHANGED held
  /\ online' = "offline"
  /\ UNCHANGED <<device, net, retained, credit, seen>>

\* A restart of the broker, which may keep its retained messages.
BrokerRestarts ==
  /\ held' = FALSE /\ ghost' = FALSE
  /\ link' = IF link = "good" THEN "dead" ELSE link
  /\ \/ UNCHANGED <<online, retained>>
     \/ online' = "offline" /\ retained' = {}
  /\ UNCHANGED <<pc, net, age, since, delay_ms, inbox, due, credit, seen>>

\* A client gives a command, retained or not.
Order(c) ==
  /\ credit < MaxOrders /\ c \notin inbox
  /\ \E keep \in BOOLEAN : retained' = IF keep THEN retained \cup {c} ELSE retained
  /\ inbox' = IF link = "good" THEN inbox \cup {c} ELSE inbox
  /\ credit' = IF c \in OneShots THEN credit + 1 ELSE credit
  /\ UNCHANGED <<pc, net, link, age, since, delay_ms, due, held, ghost, online, seen>>

-----------------------------------------------------------------------------
(* MqttBridge *)

\* setup() has run: begin(), and nothing sent yet.
Boots ==
  /\ pc' = "top" /\ link' = "none" /\ inbox' = {} /\ age' = 0
  /\ since' \in 0 .. RetryCap /\ delay_ms' = Retry /\ due' = FALSE /\ blind' = 0 /\ misled' = 0
Crash == Boots /\ UNCHANGED <<net, broker, credit>>

\* connect() and, in the same call, "online", the subscriptions, which bring the
\* retained commands, and the discovery; the connection may die on the way.
ConnectFully ==
  /\ link' = "good" /\ inbox' = retained
  /\ online' = "online"
ConnectPartly ==
  /\ link' = "dead" /\ inbox' = {}
  /\ online' \in {online, "online"}

\* reconnect(), on a socket closed by now; `old' says whether the broker still
\* holds a session it has not seen end.
Backoff == Least(2 * delay_ms, RetryCap)

NotConnected(old) == link' = "none" /\ inbox' = {} /\ held' = old /\ UNCHANGED <<ghost, online>>
Attempt(old) ==
  IF net = "up" THEN /\ ConnectFully \/ ConnectPartly
                     /\ held' = TRUE /\ ghost' \in {ghost, ghost \/ old}
                     /\ delay_ms' = Retry
                ELSE NotConnected(old) /\ delay_ms' = Backoff
TryReconnectStamping(old) ==
  /\ since' = 0
  /\ IF since < delay_ms THEN NotConnected(old) /\ UNCHANGED delay_ms ELSE Attempt(old)
TryReconnect(old) ==
  IF since < delay_ms THEN NotConnected(old) /\ UNCHANGED <<since, delay_ms>>
                      ELSE since' = 0 /\ Attempt(old)

Reconnect ==
  /\ pc = "bridge" /\ net # "no_wifi" /\ ~Connected
  /\ pc' = "tele" /\ blind' = 0 /\ misled' = 0
  /\ TryReconnect(held)
  /\ age' = IF link' = "none" THEN age ELSE 0
  /\ UNCHANGED <<net, due, retained, credit>>

\* clearRetained(topic): sent into whatever the socket is; the broker echoes the
\* empty message to the subscription.
ClearRetained(c) ==
  IF link = "good" THEN retained' = retained \ {c} /\ credit' = credit - 1
                   ELSE UNCHANGED retained /\ credit' = credit

\* handleCommand for a one-shot that restarts at once, one that is applied,
\* saved and announced, a role that is saved, and the echo of a clear.
RunRebootFirst(c) ==
  /\ c = "reboot" /\ UNCHANGED retained /\ credit' = credit - 1 /\ Boots
RunReboot(c) == c = "reboot" /\ ClearRetained(c) /\ Boots
RunSettings(c) ==
  /\ c = "settings" /\ ClearRetained(c)
  /\ inbox' = (inbox \ {c}) \cup (IF link = "good" THEN {Empty} ELSE {})
  /\ pc' = "age" /\ UNCHANGED <<link, age, since, delay_ms, due, seen>>
RunGwMode(c) == c = "gw_mode" /\ Boots /\ UNCHANGED <<retained, credit>>
SkipEmpty(c) ==
  /\ c = Empty /\ inbox' = inbox \ {c} /\ pc' = "age"
  /\ UNCHANGED <<link, age, since, delay_ms, due, seen, retained, credit>>

\* mqtt_.loop(): reads one message, if there is one.
ReadNothing ==
  /\ pc = "bridge" /\ net # "no_wifi" /\ Connected /\ inbox = {}
  /\ pc' = "age"
  /\ UNCHANGED <<net, link, age, since, delay_ms, inbox, due, broker, credit, seen>>
ReadOne ==
  /\ pc = "bridge" /\ net # "no_wifi" /\ Connected
  /\ \E c \in inbox : RunReboot(c) \/ RunSettings(c) \/ RunGwMode(c) \/ SkipEmpty(c)
  /\ UNCHANGED <<net, held, ghost, online>>

\* The max-age rebind: a clean DISCONNECT, which forgets the will where it
\* arrives, and a reconnect in the same call.
Rebind ==
  /\ pc = "age" /\ age > MaxAge
  /\ pc' = "tele" /\ blind' = 0 /\ misled' = 0
  /\ age' = 0
  /\ TryReconnect(held /\ link # "good")
  /\ UNCHANGED <<net, due, retained, credit>>
KeepSession ==
  /\ pc = "age" /\ age <= MaxAge /\ pc' = "tele"
  /\ UNCHANGED <<net, link, age, since, delay_ms, inbox, due, broker, credit, seen>>

\* publishTelemetry: the heartbeat, "online", first.
TelemetryRenewing ==
  /\ pc = "tele" /\ pc' = "top" /\ Connected /\ due /\ due' = FALSE /\ age' = 0
  /\ online' = IF link = "good" THEN "online" ELSE online
  /\ UNCHANGED <<net, link, since, delay_ms, inbox, held, ghost, retained, credit, seen>>
TelemetrySilent ==
  /\ pc = "tele" /\ pc' = "top" /\ Connected /\ due /\ due' = FALSE
  /\ UNCHANGED <<net, link, age, since, delay_ms, inbox, broker, credit, seen>>
Telemetry ==
  /\ pc = "tele" /\ pc' = "top" /\ Connected /\ due /\ due' = FALSE
  /\ online' = IF link = "good" THEN "online" ELSE online
  /\ UNCHANGED <<net, link, age, since, delay_ms, inbox, held, ghost, retained, credit, seen>>
NoTelemetry ==
  /\ pc = "tele" /\ pc' = "top" /\ ~(Connected /\ due)
  /\ UNCHANGED <<net, link, age, since, delay_ms, inbox, due, broker, credit, seen>>

\* The next iteration, within a tick or in the next one; without WiFi the bridge
\* is not called.
StartIteration ==
  /\ pc = "top" /\ pc' = "bridge"
  /\ UNCHANGED <<net, link, age, since, delay_ms, inbox, due, broker, credit, seen>>
Tick ==
  /\ pc = "top" /\ pc' = "bridge"
  /\ age' = Bump(age, MaxAge + 1) /\ since' = Bump(since, RetryCap)
  /\ blind' = IF link = "dead" THEN Bump(blind, MaxAge + 3) ELSE 0
  /\ misled' = IF link = "good" /\ online = "offline" THEN Bump(misled, 3) ELSE 0
  /\ due' = TRUE
  /\ UNCHANGED <<net, link, delay_ms, inbox, broker, credit>>
NoWifi ==
  /\ pc = "bridge" /\ net = "no_wifi" /\ pc' = "top" /\ blind' = 0 /\ misled' = 0
  /\ UNCHANGED <<net, link, age, since, delay_ms, inbox, due, broker, credit>>
-----------------------------------------------------------------------------
Init ==
  /\ pc = "top" /\ net \in {"up", "no_route", "no_wifi"} /\ link = "none" /\ inbox = {}
  /\ age = 0 /\ since \in 0 .. RetryCap /\ delay_ms = Retry
  /\ held = FALSE /\ ghost = FALSE /\ online = "offline"
  /\ retained = {} /\ due = FALSE /\ credit = 0 /\ blind = 0 /\ misled = 0

Bridge == Reconnect \/ ReadNothing \/ ReadOne \/ Rebind \/ KeepSession
Loop == Bridge \/ Telemetry \/ NoTelemetry \/ StartIteration \/ Tick \/ NoWifi
Environment ==
  \/ NetChanges \/ LinkDies \/ WillFires \/ BrokerRestarts \/ Crash
  \/ \E c \in Cmds : Order(c)
Next == Loop \/ Environment

\* loop() runs, time passes, and not every connect of a
\* reachable broker dies half-way.  The network and the broker promise nothing.
Fairness ==
  /\ WF_vars(Loop) /\ SF_vars(Tick)
  /\ SF_vars(Bridge /\ link # "good" /\ link' = "good")

Spec == Init /\ [][Next]_vars /\ Fairness
-----------------------------------------------------------------------------
(* Properties *)

TypeOK ==
  /\ pc \in {"top", "bridge", "age", "tele"}
  /\ net \in {"up", "no_route", "no_wifi"} /\ link \in {"none", "good", "dead"}
  /\ age \in 0 .. MaxAge + 1 /\ since \in 0 .. RetryCap /\ delay_ms \in Retry .. RetryCap
  /\ inbox \subseteq Cmds \cup {Empty} /\ retained \subseteq Cmds
  /\ held \in BOOLEAN /\ ghost \in BOOLEAN /\ online \in {"online", "offline"}
  /\ due \in BOOLEAN /\ credit \in Int

\* A one-shot command is acted on once for each time it was given, reconnects,
\* restarts and echoes of the clear included, unless its clear was lost.
OneShotOnce == credit >= 0

\* A session whose connection is dead is torn down after MaxAge ticks of loop(),
\* whatever the library fails to notice.
ZombieBounded == blind <= MaxAge + 1

\* With the broker in reach to stay, and a device that stops crashing, there is a
\* working session again and again.
SessionComesBack ==
  <>[](net = "up") /\ <>[][~Crash]_vars => []<>(link = "good")

\* A working session is not shown as offline for two ticks, although the will of
\* the session before may be published after it: the heartbeat repairs it.
OnlineTold == misled <= 1
=============================================================================
