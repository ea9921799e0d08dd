---------------------------- MODULE RequestQueue ----------------------------
(***************************************************************************)
(* What the thermostat side of the gateway promises, without interrupts,   *)
(* ring indices or a pop in three steps: a request that is taken waits in  *)
(* a queue of limited room, and requests are answered once each, in the    *)
(* order they came in.  A request that finds no room is never taken.       *)
(***************************************************************************)
EXTENDS Naturals, Sequences

CONSTANTS
  Requests,  \* numbered in the order the thermostat sends them
  Room       \* requests that can wait, the one being answered included

VARIABLES waiting, answered

qvars == <<waiting, answered>>

QInit == waiting = <<>> /\ answered = <<>>

\* A new request: later than every one that waits or was answered.
Take(r) ==
  /\ Len(waiting) < Room
  /\ \A i \in 1 .. Len(waiting) : waiting[i] < r
  /\ \A i \in 1 .. Len(answered) : answered[i] < r
  /\ waiting' = Append(waiting, r)
  /\ UNCHANGED answered

AnswerOldest ==
  /\ waiting # <<>>
  /\ waiting' = Tail(waiting)
  /\ answered' = Append(answered, Head(waiting))

QNext == (\E r \in Requests : Take(r)) \/ AnswerOldest

QSpec == QInit /\ [][QNext]_qvars
=============================================================================
