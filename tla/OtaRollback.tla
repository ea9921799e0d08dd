---------------------------- MODULE OtaRollback -----------------------------
(***************************************************************************)
(* Updates over the air and the rollback watchdog (net_services.cpp):      *)
(* startHttpUpdate, the steps of signedHttpUpdate that change something,   *)
(* otaMarkTarget, otaRollbackTick, scheduleReboot, and power failures      *)
(* between any two of these.                                               *)
(*                                                                         *)
(* One iteration of NetServices::loop is a tick of the watchdog, then the  *)
(* reboot that is due, or a request; an update blocks the loop.  A URL     *)
(* stands for the image it serves.  The uptime matters only against        *)
(* OTA_CONFIRM_AFTER_MS and OTA_REVERT_AFTER_MS: age 0 is below both, 1    *)
(* between them, 2 beyond, and millis() wraps from 2 to 0.                 *)
(***************************************************************************)
EXTENDS Naturals

CONSTANTS
  Images,        \* what the mirror serves, by URL
  Broken,        \* images that never reach MQTT or the boiler
  Factory,       \* the image flashed over USB
  NoUrl,         \* the empty string
  MaxAttempts,   \* OTA_MAX_ATTEMPTS
  MaxRequests,   \* bound: updates and reboots asked for
  MaxFaults      \* bound: power failures and panics

ASSUME ImageAssumption == Broken \subseteq Images /\ Factory \in Images /\ NoUrl \notin Images
ASSUME BoundAssumption == MaxAttempts \in Nat \ {0} /\ MaxRequests \in Nat /\ MaxFaults \in Nat

VARIABLES
  pc,             \* "boot", "tick", "serve", "pull" (downloading), "flashed"
  age,            \* uptime against the two delays
  running,        \* image being executed
  boot,           \* image the boot partition points to
  file,           \* /otaroll.json
  mounted,        \* LittleFS could be mounted at this boot
  roll,           \* the roll_* members, without the prefix
  reboot_pending,
  pull,           \* the update in progress: its URL and where loop() goes on
  alive,          \* history: MQTT or OpenTherm seen healthy since the boot
  reverts,        \* history: pulls of the known-good image since a confirmation
  requests, faults

vars == <<pc, age, running, boot, file, mounted, roll, reboot_pending, pull,
          alive, reverts, requests, faults>>
imageVars == <<running, boot, mounted>>

Urls  == Images \cup {NoUrl}
Files == [t : Urls, g : Urls, a : 0 .. MaxAttempts]
Rolls == [target : Urls, good : Urls, attempts : 0 .. MaxAttempts,
          pending : BOOLEAN, saw_health : BOOLEAN]
Pulls == [url : Images, then : {"tick", "serve"}]
Stages == {"boot", "tick", "serve", "pull", "flashed"}

EmptyFile == [t |-> NoUrl, g |-> NoUrl, a |-> 0]
NoPull    == [url |-> Factory, then |-> "tick"]

\* otaRollLoad_
Loaded(f) == [target |-> f.t, good |-> f.g, attempts |-> f.a,
              pending |-> f.t # NoUrl, saw_health |-> FALSE]

\* otaRollSave_: a file system that is not mounted drops the save silently;
\* one that is replaces the file at its close or, without power, not at all.
Save(r) == file' = IF mounted THEN [t |-> r.target, g |-> r.good, a |-> r.attempts]
                              ELSE file
-----------------------------------------------------------------------------
Init ==
  /\ pc = "boot" /\ age = 0
  /\ running = Factory /\ boot = Factory /\ file = EmptyFile /\ mounted = FALSE
  /\ roll = Loaded(EmptyFile) /\ reboot_pending = FALSE /\ pull = NoPull
  /\ alive = FALSE /\ reverts = 0 /\ requests = 0 /\ faults = 0

\* beginHttp mounts LittleFS and loads the state.  An ESP32 formats what it
\* cannot mount, an ESP8266 goes on without.
Boot ==
  /\ pc = "boot" /\ pc' = "tick"
  /\ running' = boot
  /\ \E m \in BOOLEAN, f \in {file, EmptyFile} :
       /\ mounted' = m /\ file' = f
       /\ roll' = Loaded(IF m THEN f ELSE EmptyFile)
  /\ UNCHANGED <<age, boot, reboot_pending, pull, alive, reverts, requests, faults>>

\* A restart keeps the flash and nothing else.
GoesDown ==
  /\ pc' = "boot" /\ age' = 0 /\ reboot_pending' = FALSE /\ pull' = NoPull
  /\ alive' = FALSE /\ roll' = Loaded(EmptyFile)
  /\ UNCHANGED <<imageVars, file, reverts, requests>>

Fault ==
  /\ pc # "boot" /\ faults < MaxFaults /\ faults' = faults + 1
  /\ GoesDown

\* The reboot scheduleReboot asked for, once its delay is over.
Reboot ==
  /\ pc = "serve" /\ reboot_pending
  /\ GoesDown
  /\ UNCHANGED faults

\* A phase of the uptime passes: outside a download, in many iterations.
Age ==
  /\ pc \in {"serve", "pull"} /\ age' = (age + 1) % 3
  /\ pc' = IF pc = "serve" THEN "tick" ELSE pc
  /\ UNCHANGED <<imageVars, file, roll, reboot_pending, pull, alive, reverts, requests, faults>>
-----------------------------------------------------------------------------
(* startHttpUpdate: refused while a reboot is pending.  (A request that      *)
(* arrives through a publish of the update in progress is refused too.)      *)
UpdateUnguarded(url, then) ==
  /\ pc' = "pull" /\ pull' = [url |-> url, then |-> then]
StartHttpUpdate(url, then) ==
  IF reboot_pending THEN pc' = then /\ UNCHANGED pull
                    ELSE pc' = "pull" /\ pull' = [url |-> url, then |-> then]

\* otaRollbackTick, one operator for each way it ends.  `ok' is mqtt_ok or ot_ok.
Idle(ok) ==
  /\ ~roll.pending
  /\ pc' = "serve"
  /\ UNCHANGED <<roll, file, pull, reverts>>

Wait(ok) ==
  /\ roll.pending
  /\ IF roll.saw_health \/ ok THEN age < 1 ELSE age < 2
  /\ roll' = [roll EXCEPT !.saw_health = @ \/ ok]
  /\ pc' = "serve"
  /\ UNCHANGED <<file, pull, reverts>>

Confirm(ok) ==
  /\ roll.pending /\ age >= 1 /\ (roll.saw_health \/ ok)
  /\ roll' = [target |-> NoUrl, good |-> roll.target, attempts |-> 0,
              pending |-> FALSE, saw_health |-> TRUE]
  /\ Save(roll')
  /\ reverts' = 0
  /\ pc' = "serve"
  /\ UNCHANGED pull

Hopeless == roll.attempts + 1 >= MaxAttempts \/ roll.good = NoUrl

GiveUpSilently(ok) ==
  /\ roll.pending /\ age = 2 /\ ~(roll.saw_health \/ ok) /\ Hopeless
  /\ pc' = "serve"
  /\ UNCHANGED <<roll, file, pull, reverts>>
GiveUp(ok) ==
  /\ roll.pending /\ age = 2 /\ ~(roll.saw_health \/ ok) /\ Hopeless
  /\ roll' = [roll EXCEPT !.pending = FALSE, !.target = NoUrl]
  /\ Save(roll')
  /\ pc' = "serve"
  /\ UNCHANGED <<pull, reverts>>

RevertUncounted(ok) ==
  /\ roll.pending /\ age = 2 /\ ~(roll.saw_health \/ ok) /\ ~Hopeless
  /\ roll' = [roll EXCEPT !.attempts = @ + 1, !.pending = FALSE]
  /\ StartHttpUpdate(roll.good, "serve")
  /\ reverts' = IF pc' = "pull" /\ reverts < MaxAttempts THEN reverts + 1 ELSE reverts
  /\ UNCHANGED file
Revert(ok) ==
  /\ roll.pending /\ age = 2 /\ ~(roll.saw_health \/ ok) /\ ~Hopeless
  /\ roll' = [roll EXCEPT !.attempts = @ + 1, !.pending = FALSE]
  /\ Save(roll')
  /\ StartHttpUpdate(roll.good, "serve")
  /\ reverts' = IF pc' = "pull" /\ reverts < MaxAttempts THEN reverts + 1 ELSE reverts

Tick ==
  /\ pc = "tick"
  /\ \E ok \in BOOLEAN :
       /\ ok => running \notin Broken
       /\ alive' = (alive \/ ok)
       /\ Idle(ok) \/ Wait(ok) \/ Confirm(ok) \/ GiveUp(ok) \/ Revert(ok)
  /\ UNCHANGED <<imageVars, age, reboot_pending, requests, faults>>

\* The rest of the iteration: nothing, an update (portal, MQTT or
\* checkForAutoUpdate) or a reason to reboot (portal, MQTT or the WiFi heal).
Serve ==
  /\ pc = "serve"
  /\ \/ /\ pc' = "tick"
        /\ UNCHANGED <<reboot_pending, pull, requests>>
     \/ /\ requests < MaxRequests /\ requests' = requests + 1
        /\ \E url \in Images : StartHttpUpdate(url, "tick")
        /\ UNCHANGED reboot_pending
     \/ /\ requests < MaxRequests /\ requests' = requests + 1
        /\ pc' = "tick" /\ reboot_pending' = TRUE
        /\ UNCHANGED pull
  /\ UNCHANGED <<imageVars, age, file, roll, alive, reverts, faults>>

\* Settings pushed over MQTT while a progress report drains the socket.
RebootAskedInPull ==
  /\ pc = "pull" /\ requests < MaxRequests /\ requests' = requests + 1
  /\ reboot_pending' = TRUE
  /\ UNCHANGED <<imageVars, pc, age, file, roll, pull, alive, reverts, faults>>
-----------------------------------------------------------------------------
(* signedHttpUpdate *)

\* No signature, no image, or no byte for 15 s: the target is forgotten, in RAM.
FailForgetting ==
  /\ pc = "pull" /\ pc' = pull.then
  /\ roll' = [roll EXCEPT !.target = NoUrl, !.pending = FALSE]
  /\ UNCHANGED <<imageVars, age, file, reboot_pending, pull, alive, reverts, requests, faults>>

\* Length unknown, no room, interrupted, or a signature that does not verify.
FailKeeping ==
  /\ pc = "pull" /\ pc' = pull.then
  /\ UNCHANGED <<imageVars, age, file, roll, reboot_pending, pull, alive, reverts, requests, faults>>

\* Update.end: the whole image is in flash, verified, and boots next.
Flash ==
  /\ pc = "pull" /\ pc' = "flashed"
  /\ boot' = pull.url
  /\ UNCHANGED <<running, mounted, age, file, roll, reboot_pending, pull, alive, reverts,
                 requests, faults>>

\* otaMarkTarget, then scheduleReboot.
MarkTarget ==
  /\ pc = "flashed" /\ pc' = pull.then
  /\ roll' = [roll EXCEPT !.target = pull.url, !.pending = TRUE, !.saw_health = FALSE]
  /\ Save(roll')
  /\ reboot_pending' = TRUE
  /\ UNCHANGED <<imageVars, age, pull, alive, reverts, requests, faults>>

Loop == Boot \/ Tick \/ Serve \/ FailForgetting \/ FailKeeping \/ Flash \/ MarkTarget
Next == Loop \/ Reboot \/ Age \/ RebootAskedInPull \/ Fault

\* loop() runs on, a scheduled reboot comes, and the uptime grows.
Fairness == WF_vars(Loop) /\ SF_vars(Reboot) /\ SF_vars(Age)

Spec == Init /\ [][Next]_vars /\ Fairness
-----------------------------------------------------------------------------
(* Properties *)

\* Every variable keeps its type; the attempt counter never passes its cap.
TypeOK ==
  /\ pc \in Stages /\ age \in 0 .. 2
  /\ running \in Images /\ boot \in Images
  /\ file \in Files /\ mounted \in BOOLEAN
  /\ roll \in Rolls /\ reboot_pending \in BOOLEAN /\ pull \in Pulls
  /\ alive \in BOOLEAN /\ reverts \in 0 .. MaxAttempts
  /\ requests \in 0 .. MaxRequests /\ faults \in 0 .. MaxFaults

\* What the watchdog is waiting for is on flash exactly as it is in RAM: a
\* power failure at any step loses neither the watch nor the attempt count.
PendingIsPersisted ==
  roll.pending /\ mounted =>
    /\ roll.target # NoUrl
    /\ file = [t |-> roll.target, g |-> roll.good, a |-> roll.attempts]

\* Attempts are capped so that a broken pair of images cannot loop: between two
\* confirmations the known-good image is pulled fewer than MaxAttempts times,
\* across restarts, failed downloads, and updates that come in between.
RevertsCapped == reverts < MaxAttempts

\* A blip of the broker or of the network never reverts an image that has shown
\* itself alive: a pull of the known-good image starts only in a boot in which
\* no tick of the watchdog saw MQTT or OpenTherm up.
AliveIsNotReverted == [][reverts' > reverts => ~alive]_vars

\* Whatever fails, a target does not stay pending: it is confirmed, reverted or
\* given up (while requests and faults are finite, and the uptime grows).  That
\* is what the RAM says: a revert whose download fails leaves the target on file,
\* for the next boot to judge again.
TargetSettles == []<>~roll.pending
-----------------------------------------------------------------------------
(* net_services.cpp: "After boot we wait OTA_ROLL_CONFIRM_MS for MQTT to     *)
(* prove the image works; a healthy boot promotes target->known-good": what  *)
(* becomes known-good is the image that is running.                          *)
KnownGoodHasRun ==
  [][file'.g # file.g /\ file'.g # NoUrl => file'.g = running]_vars
=============================================================================
