-------------------------- MODULE OtaRollbackProofs --------------------------
(***************************************************************************)
(* The safety properties of OtaRollback for any set of images, any number  *)
(* of requests and of power failures.                                      *)
(*                                                                         *)
(* The argument rests on two facts about the state of the watchdog.  While *)
(* LittleFS is mounted, what RAM holds of the known-good image and of the  *)
(* attempts is what the file holds (InStep), so a restart loses no count.  *)
(* While it is not, a target can only be one flashed in this very boot, so *)
(* its reboot is already pending and no pull starts (UnmountedIsHarmless). *)
(***************************************************************************)
EXTENDS OtaRollback, TLAPS

InStep == mounted /\ pc # "boot" => file.g = roll.good /\ file.a = roll.attempts

UnmountedIsHarmless == ~mounted /\ roll.pending => reboot_pending

\* The attempts on file bound the pulls, as long as there is an image to pull.
PullsAreCounted == /\ file.g # NoUrl => reverts <= file.a
                   /\ reverts < MaxAttempts

\* Health seen in this boot is remembered for the target being watched.
HealthIsRemembered ==
  alive /\ roll.pending => roll.saw_health \/ reboot_pending

DownIsEmpty == pc = "boot" => ~roll.pending /\ ~alive

IInv == /\ TypeOK /\ PendingIsPersisted /\ InStep /\ UnmountedIsHarmless
        /\ PullsAreCounted /\ HealthIsRemembered /\ DownIsEmpty
-----------------------------------------------------------------------------
(* Saving and loading *)

\* What is loaded from a file, and what is saved of a state, has its type.
LEMMA LoadedType ==
  ASSUME NEW f \in Files
  PROVE  Loaded(f) \in Rolls /\ Loaded(EmptyFile) \in Rolls
BY BoundAssumption DEF Loaded, EmptyFile, Files, Rolls, Urls

LEMMA EmptyFileType == EmptyFile \in Files
BY BoundAssumption DEF EmptyFile, Files, Urls

LEMMA EmptyLoads == Loaded(EmptyFile) \in Rolls
BY LoadedType, EmptyFileType

LEMMA SaveType ==
  ASSUME NEW r \in Rolls, file \in Files, Save(r)
  PROVE  file' \in Files
BY DEF Save, Files, Rolls, Urls

LEMMA NoPullType == NoPull \in Pulls
BY ImageAssumption DEF NoPull, Pulls

-----------------------------------------------------------------------------
(* Type correctness, step by step *)

LEMMA InitInv == Init => IInv
<1> SUFFICES ASSUME Init PROVE IInv
  OBVIOUS
<1>1. TypeOK
  <2>1. roll \in Rolls /\ pull \in Pulls /\ file \in Files
    BY EmptyLoads, EmptyFileType, NoPullType DEF Init
  <2>2. pc \in Stages /\ age \in 0 .. 2
    BY DEF Init, Stages
  <2>3. reverts \in 0 .. MaxAttempts /\ requests \in 0 .. MaxRequests /\ faults \in 0 .. MaxFaults
    BY BoundAssumption DEF Init
  <2> QED
    BY <2>1, <2>2, <2>3, ImageAssumption DEF Init, TypeOK
<1>2. ~roll.pending /\ file.g = NoUrl
  BY DEF Init, Loaded, EmptyFile
<1> QED
  BY <1>1, <1>2, BoundAssumption
     DEF Init, IInv, PendingIsPersisted, InStep, UnmountedIsHarmless, PullsAreCounted,
         HealthIsRemembered, DownIsEmpty

LEMMA TickTypes ==
  ASSUME TypeOK, Tick
  PROVE  TypeOK'
<1>1. PICK ok \in BOOLEAN :
        /\ alive' = (alive \/ ok)
        /\ Idle(ok) \/ Wait(ok) \/ Confirm(ok) \/ GiveUp(ok) \/ Revert(ok)
  BY DEF Tick
<1>2. UNCHANGED <<imageVars, age, reboot_pending, requests, faults>>
  BY DEF Tick
<1>3. roll' \in Rolls
  <2>1. CASE Idle(ok)
    BY <2>1 DEF Idle, TypeOK
  <2>2. CASE Wait(ok)
    <3>1. (roll.saw_health \/ ok) \in BOOLEAN
      BY DEF TypeOK, Rolls
    <3> QED
      BY <2>2, <3>1 DEF Wait, TypeOK, Rolls
  <2>3. CASE Confirm(ok)
    BY <2>3, BoundAssumption DEF Confirm, TypeOK, Rolls, Urls
  <2>4. CASE GiveUp(ok)
    BY <2>4 DEF GiveUp, TypeOK, Rolls, Urls
  <2>5. CASE Revert(ok)
    <3>1. roll.attempts + 1 \in 0 .. MaxAttempts
      BY <2>5, BoundAssumption DEF Revert, Hopeless, TypeOK, Rolls
    <3> QED
      BY <2>5, <3>1 DEF Revert, TypeOK, Rolls
  <2> QED
    BY <1>1, <2>1, <2>2, <2>3, <2>4, <2>5
<1>4. file' \in Files
  BY <1>1, <1>3, SaveType
     DEF Idle, Wait, Confirm, GiveUp, Revert, Save, TypeOK, Files, Rolls, Urls
<1>5. /\ pc' \in Stages /\ pull' \in Pulls
      /\ reverts' \in 0 .. MaxAttempts
  <2>1. CASE Idle(ok) \/ Wait(ok) \/ GiveUp(ok)
    BY <2>1 DEF Idle, Wait, GiveUp, TypeOK, Stages
  <2>2. CASE Confirm(ok)
    BY <2>2, BoundAssumption DEF Confirm, TypeOK, Stages
  <2>3. CASE Revert(ok)
    <3>1. roll.good \in Images
      BY <2>3 DEF Revert, Hopeless, TypeOK, Rolls, Urls
    <3> QED
      BY <2>3, <3>1, BoundAssumption DEF Revert, StartHttpUpdate, TypeOK, Stages, Pulls
  <2> QED
    BY <1>1, <2>1, <2>2, <2>3
<1> QED
  BY <1>1, <1>2, <1>3, <1>4, <1>5 DEF TypeOK, imageVars

LEMMA DownTypes ==
  ASSUME TypeOK, GoesDown, faults' \in 0 .. MaxFaults
  PROVE  TypeOK'
<1>1. roll' \in Rolls /\ pull' \in Pulls
  BY EmptyLoads, NoPullType DEF GoesDown
<1>2. pc' = "boot" /\ age' = 0 /\ reboot_pending' = FALSE /\ alive' = FALSE
  BY DEF GoesDown, imageVars
<1>4. pc' \in Stages /\ age' \in 0 .. 2
  BY <1>2 DEF Stages
<1>5. reboot_pending' \in BOOLEAN /\ alive' \in BOOLEAN
  BY <1>2
<1>3. UNCHANGED <<imageVars, file, reverts, requests>>
  BY DEF GoesDown
<1> QED
  BY <1>1, <1>3, <1>4, <1>5 DEF TypeOK, imageVars

LEMMA StepTypes == TypeOK /\ [Next]_vars => TypeOK'
<1> SUFFICES ASSUME TypeOK, [Next]_vars PROVE TypeOK'
  OBVIOUS
<1>1. CASE Boot
  <2>1. PICK f \in {file, EmptyFile} :
          file' = f /\ mounted' \in BOOLEAN /\ roll' = Loaded(IF mounted' THEN f ELSE EmptyFile)
    BY <1>1 DEF Boot
  <2>2. f \in Files
    BY <2>1, EmptyFileType DEF TypeOK
  <2>3. file' \in Files /\ roll' \in Rolls
    BY <2>1, <2>2, LoadedType, EmptyLoads
  <2>4. /\ pc' \in Stages /\ running' = boot
        /\ UNCHANGED <<age, boot, reboot_pending, pull, alive, reverts, requests, faults>>
    BY <1>1 DEF Boot, Stages
  <2> QED
    BY <2>1, <2>3, <2>4 DEF TypeOK
<1>2. CASE Tick
  BY <1>2, TickTypes
<1>3. CASE Serve
  <2>1. UNCHANGED <<imageVars, age, file, roll, alive, reverts, faults>>
    BY <1>3 DEF Serve
  <2>2. requests' \in 0 .. MaxRequests
    BY <1>3, BoundAssumption DEF Serve, TypeOK
  <2>3. pc' \in Stages /\ reboot_pending' \in BOOLEAN
    BY <1>3 DEF Serve, StartHttpUpdate, TypeOK, Stages
  <2>4. pull' \in Pulls
    BY <1>3 DEF Serve, StartHttpUpdate, TypeOK, Pulls
  <2> QED
    BY <2>1, <2>2, <2>3, <2>4 DEF TypeOK, imageVars
<1>4. CASE FailForgetting
  BY <1>4 DEF FailForgetting, TypeOK, Stages, Rolls, Urls, Pulls, imageVars
<1>5. CASE FailKeeping
  BY <1>5 DEF FailKeeping, TypeOK, Stages, Pulls, imageVars
<1>6. CASE Flash
  BY <1>6 DEF Flash, TypeOK, Stages, Pulls
<1>7. CASE MarkTarget
  <2>1. roll' \in Rolls
    BY <1>7 DEF MarkTarget, TypeOK, Rolls, Urls, Pulls
  <2> QED
    BY <1>7, <2>1, SaveType DEF MarkTarget, Save, TypeOK, Stages, Pulls, Files, Rolls, imageVars
<1>8. CASE Reboot
  BY <1>8, DownTypes DEF Reboot, TypeOK
<1>9. CASE Age
  BY <1>9 DEF Age, TypeOK, Stages, imageVars
<1>10. CASE RebootAskedInPull
  BY <1>10, BoundAssumption DEF RebootAskedInPull, TypeOK, imageVars
<1>11. CASE Fault
  BY <1>11, DownTypes, BoundAssumption DEF Fault, TypeOK
<1>12. CASE UNCHANGED vars
  BY <1>12 DEF vars, TypeOK
<1> QED
  BY <1>1, <1>2, <1>3, <1>4, <1>5, <1>6, <1>7, <1>8, <1>9, <1>10, <1>11, <1>12
     DEF Next, Loop

-----------------------------------------------------------------------------
(* The rest of the invariant *)

Rest == /\ PendingIsPersisted /\ InStep /\ UnmountedIsHarmless
        /\ PullsAreCounted /\ HealthIsRemembered /\ DownIsEmpty

LEMMA TickRest ==
  ASSUME IInv, Tick
  PROVE  Rest'
<1>1. PICK ok \in BOOLEAN :
        /\ alive' = (alive \/ ok)
        /\ Idle(ok) \/ Wait(ok) \/ Confirm(ok) \/ GiveUp(ok) \/ Revert(ok)
  BY DEF Tick
<1>2. mounted' = mounted /\ reboot_pending' = reboot_pending /\ pc = "tick"
  BY DEF Tick, imageVars
<1> USE <1>1, <1>2
    DEF IInv, PendingIsPersisted, InStep, UnmountedIsHarmless, PullsAreCounted,
        HealthIsRemembered, DownIsEmpty, Rest
<1>3. CASE Idle(ok)
  BY <1>3 DEF Idle
<1>4. CASE Wait(ok)
  BY <1>4 DEF Wait, TypeOK, Rolls
<1>5. CASE Confirm(ok)
  BY <1>5, BoundAssumption DEF Confirm, Save, TypeOK, Rolls, Files
<1>6. CASE GiveUp(ok)
  BY <1>6 DEF GiveUp, Save, TypeOK, Rolls
<1>7. CASE Revert(ok)
  <2>1. /\ roll.good # NoUrl /\ roll.attempts + 1 < MaxAttempts
        /\ roll.attempts \in Nat /\ reverts \in Nat /\ file.a \in Nat
        /\ MaxAttempts \in Nat
    BY <1>7, BoundAssumption DEF Revert, Hopeless, TypeOK, Rolls, Files
  <2>2. /\ roll'.pending = FALSE /\ roll'.good = roll.good
        /\ roll'.attempts = roll.attempts + 1 /\ pc' # "boot"
    BY <1>7 DEF Revert, StartHttpUpdate, TypeOK, Rolls
  <2>3. CASE mounted
    BY <1>7, <2>1, <2>2, <2>3 DEF Revert, Save
  <2>4. CASE ~mounted
    <3>1. pc' = "serve"
      BY <1>7, <2>4 DEF Revert, StartHttpUpdate
    <3>2. reverts' = reverts /\ file' = file
      BY <1>7, <2>4, <3>1 DEF Revert, Save
    <3> QED
      BY <2>2, <2>4, <3>2
  <2> QED
    BY <2>3, <2>4
<1> QED
  BY <1>3, <1>4, <1>5, <1>6, <1>7

LEMMA DownRest ==
  ASSUME IInv, GoesDown
  PROVE  Rest'
<1>1. ~roll'.pending
  BY DEF GoesDown, Loaded, EmptyFile
<1> QED
  BY <1>1
     DEF GoesDown, imageVars, IInv, Rest, PendingIsPersisted, InStep, UnmountedIsHarmless,
         PullsAreCounted, HealthIsRemembered, DownIsEmpty

LEMMA StepRest == IInv /\ [Next]_vars => Rest'
<1> SUFFICES ASSUME IInv, [Next]_vars PROVE Rest'
  OBVIOUS
<1> USE DEF IInv, PendingIsPersisted, InStep, UnmountedIsHarmless, PullsAreCounted,
            HealthIsRemembered, DownIsEmpty, Rest, imageVars
<1>1. CASE Boot
  <2>1. PICK f \in {file, EmptyFile} :
          /\ file' = f
          /\ roll' = Loaded(IF mounted' THEN f ELSE EmptyFile)
    BY <1>1 DEF Boot
  <2>2. /\ mounted' \in BOOLEAN /\ pc' = "tick" /\ alive' = alive /\ reverts' = reverts
        /\ reboot_pending' = reboot_pending
    BY <1>1 DEF Boot
  <2>3. CASE mounted'
    <3>1. /\ roll'.target = f.t /\ roll'.good = f.g /\ roll'.attempts = f.a
          /\ roll'.pending = (f.t # NoUrl)
      BY <2>1, <2>3 DEF Loaded
    <3>2. f = [t |-> f.t, g |-> f.g, a |-> f.a]
      BY <2>1 DEF TypeOK, Files, EmptyFile
    <3>3. HealthIsRemembered'
      BY <1>1, <2>1, <2>2 DEF Boot, TypeOK
    <3>4. PendingIsPersisted' /\ InStep'
      BY <2>1, <2>3, <3>1, <3>2
    <3>5. PullsAreCounted'
      BY <2>1, <2>2 DEF EmptyFile
    <3> QED
      BY <2>2, <2>3, <3>3, <3>4, <3>5
  <2>4. CASE ~mounted'
    <3>1. ~roll'.pending
      BY <2>1, <2>4 DEF Loaded, EmptyFile
    <3> QED
      BY <2>1, <2>2, <2>4, <3>1 DEF EmptyFile
  <2> QED
    BY <2>3, <2>4
<1>2. CASE Tick
  BY <1>2, TickRest
<1>3. CASE Serve
  BY <1>3 DEF Serve, StartHttpUpdate
<1>4. CASE FailForgetting
  BY <1>4 DEF FailForgetting, TypeOK, Rolls, Pulls
<1>5. CASE FailKeeping
  BY <1>5 DEF FailKeeping, TypeOK, Pulls
<1>6. CASE Flash
  BY <1>6 DEF Flash
<1>7. CASE MarkTarget
  BY <1>7, ImageAssumption DEF MarkTarget, Save, TypeOK, Rolls, Pulls
<1>8. CASE Reboot
  BY <1>8, DownRest DEF Reboot
<1>9. CASE Age
  BY <1>9 DEF Age
<1>10. CASE RebootAskedInPull
  BY <1>10 DEF RebootAskedInPull
<1>11. CASE Fault
  BY <1>11, DownRest DEF Fault
<1>12. CASE UNCHANGED vars
  BY <1>12 DEF vars
<1> QED
  BY <1>1, <1>2, <1>3, <1>4, <1>5, <1>6, <1>7, <1>8, <1>9, <1>10, <1>11, <1>12
     DEF Next, Loop

LEMMA StepInv == IInv /\ [Next]_vars => IInv'
<1> SUFFICES ASSUME IInv, [Next]_vars PROVE IInv'
  OBVIOUS
<1>1. TypeOK'
  BY StepTypes DEF IInv
<1>2. Rest'
  BY StepRest
<1> QED
  BY <1>1, <1>2 DEF IInv, Rest

LEMMA AlwaysIInv == Spec => []IInv
<1> QED
  BY InitInv, StepInv, PTL DEF Spec

-----------------------------------------------------------------------------
(* The theorems *)

\* Type correctness of the watchdog, its file and the update in progress.
THEOREM RollbackTypeCorrect == Spec => []TypeOK
BY AlwaysIInv, PTL DEF IInv

\* No power failure loses the watch of an image or the count of its attempts.
THEOREM PendingStaysPersisted == Spec => []PendingIsPersisted
BY AlwaysIInv, PTL DEF IInv

\* Between two confirmations the known-good image is pulled fewer than
\* MaxAttempts times, however many restarts and failed downloads there are.
THEOREM RevertsStayCapped == Spec => []RevertsCapped
<1>1. IInv => RevertsCapped
  BY DEF IInv, PullsAreCounted, RevertsCapped
<1> QED
  BY <1>1, AlwaysIInv, PTL

\* A boot that has seen MQTT or the boiler never starts a pull of the
\* known-good image.
THEOREM AliveStays == Spec => AliveIsNotReverted
<1>1. ASSUME IInv, [Next]_vars
      PROVE  [reverts' > reverts => ~alive]_vars
  <2> SUFFICES ASSUME Next, reverts' > reverts PROVE ~alive
    BY <1>1
  <2>1. reverts \in Nat
    BY <1>1 DEF IInv, TypeOK
  <2>2. reverts' # reverts
    BY <2>1
  <2>3. Tick
    BY <2>2
       DEF Next, Loop, Boot, Serve, FailForgetting, FailKeeping, Flash, MarkTarget, Reboot,
           GoesDown, Age, RebootAskedInPull, Fault
  <2>4. PICK ok \in BOOLEAN : Confirm(ok) \/ Revert(ok)
    BY <2>2, <2>3 DEF Tick, Idle, Wait, GiveUp
  <2>5. Revert(ok)
    BY <2>1, <2>4 DEF Confirm
  <2>6. ~reboot_pending /\ roll.pending /\ ~roll.saw_health
    BY <2>2, <2>5 DEF Revert, StartHttpUpdate
  <2> QED
    BY <1>1, <2>6 DEF IInv, HealthIsRemembered
<1> QED
  BY <1>1, AlwaysIInv, PTL DEF Spec, AliveIsNotReverted
=============================================================================
