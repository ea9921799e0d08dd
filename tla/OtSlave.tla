------------------------------- MODULE OtSlave ------------------------------
(***************************************************************************)
(* The thermostat side of the gateway: the edge decoder that runs in the   *)
(* interrupt (OtSlave::isr), the ring it latches requests in (OtFifo), the *)
(* loop that answers them (OtSlave::loop, service, txAnswer_), and the     *)
(* choice of the role at boot (main.cpp).                                  *)
(*                                                                         *)
(* The interrupt runs whole, between any two steps of the loop.  An edge   *)
(* of the wire is abstracted to the third of a frame it belongs to: the    *)
(* start bit, the data bits, the stop bit.  A tick is 10 ms, during which  *)
(* the loop may iterate many times or stay blocked.                        *)
(***************************************************************************)
EXTENDS Integers, Sequences

CONSTANTS
  Size,          \* OtFifo::kCapacity
  FrameTicks,    \* a frame on the wire: 34 bits of 1 ms
  AnswerTicks,   \* txAnswer_: 34 delays of 1 ms
  RespondTicks,  \* service() holds an answer back for 20 ms
  HealTicks,     \* loop() heals the decoder after 100 ms
  WindowTicks,   \* kGwAutoWindowMs
  MinFrames,     \* kGwAutoMinFrames
  MaxFrames      \* bound: frames the thermostat sends

ASSUME SizeAssumption == Size \in Nat /\ Size > 1
ASSUME TickAssumption ==
  /\ FrameTicks \in Nat \ {0} /\ RespondTicks \in Nat /\ HealTicks \in Nat
  /\ AnswerTicks \in Nat /\ AnswerTicks >= RespondTicks
  /\ WindowTicks \in Nat /\ MinFrames \in Nat /\ MaxFrames \in Nat

VARIABLES
  wire,        \* ticks into the frame on the wire, 0 when idle
  sent,        \* frames the thermostat has started; the last is on the wire
  isr_state_,  \* IS_READY or COLLECTING
  synced,      \* COLLECTING began at a start bit
  buf_, head_, tail_, drops_,
  pc,          \* where OtSlave::loop is
  req,         \* the request service() popped
  since,       \* millis() - last_req_ms_, counted to a cap
  provider_,   \* a response provider is installed (gateway role)
  probing,     \* gw_probing
  uptime,      \* ticks since the probe began, counted to WindowTicks
  valid_,      \* requests service() has counted
  accepted,    \* history: frames latched, in order
  served       \* history: frames answered, in order

vars == <<wire, sent, isr_state_, synced, buf_, head_, tail_, drops_, pc, req,
          since, provider_, probing, uptime, valid_, accepted, served>>
wireVars == <<wire, sent>>
isrVars  == <<isr_state_, synced>>
ringVars == <<buf_, head_, tail_, drops_>>
roleVars == <<provider_, probing, uptime>>

Frames == 1 .. MaxFrames
NoReq  == 0
Cap    == IF HealTicks > RespondTicks THEN HealTicks + 1 ELSE RespondTicks + 1
Slots  == 0 .. Size - 1
Mask(n) == n % Size

\* What the ring holds, oldest first.
Items == Mask(head_ - tail_)
Queue == [i \in 1 .. Items |-> buf_[Mask(tail_ + i - 1)]]
-----------------------------------------------------------------------------
Init ==
  /\ wire = 0 /\ sent = 0
  /\ isr_state_ = "READY" /\ synced = FALSE
  /\ buf_ = [s \in Slots |-> NoReq] /\ head_ = 0 /\ tail_ = 0 /\ drops_ = 0
  /\ pc = "idle" /\ req = NoReq
  /\ since = Cap          \* the boot takes longer than both delays
  /\ \E forced \in BOOLEAN : provider_ = forced /\ probing = ~forced
  /\ uptime = 0 /\ valid_ = 0
  /\ accepted = <<>> /\ served = <<>>

\* OtFifo::push against the reader's index t: a full ring rejects the newest.
PushUnmasked(f, t) ==
  /\ buf_' = [buf_ EXCEPT ![head_] = f]
  /\ head_' = head_ + 1
  /\ accepted' = Append(accepted, f)
  /\ UNCHANGED drops_
Push(f, t) ==
  IF Mask(head_ + 1) = t
    THEN /\ drops_' = drops_ + 1
         /\ UNCHANGED <<buf_, head_, accepted>>
    ELSE /\ buf_' = [buf_ EXCEPT ![head_] = f]
         /\ head_' = Mask(head_ + 1)
         /\ accepted' = Append(accepted, f)
         /\ UNCHANGED drops_

\* A start bit: collecting begins, or a stalled collection ends and eats it.
StartBit ==
  /\ wire = 0 /\ sent < MaxFrames
  /\ wire' = 1 /\ sent' = sent + 1
  /\ IF isr_state_ = "READY" THEN isr_state_' = "COLLECTING" /\ synced' = TRUE
                             ELSE isr_state_' = "READY" /\ synced' = FALSE
  /\ UNCHANGED <<ringVars, accepted>>

\* Data bits: an idle decoder takes the next falling edge for a start bit.
DataBits ==
  /\ wire \in 1 .. FrameTicks - 1
  /\ wire' = wire + 1
  /\ isr_state_' = "COLLECTING"
  /\ synced' = (synced /\ isr_state_ = "COLLECTING")
  /\ UNCHANGED <<sent, ringVars, accepted>>

\* The stop bit completes a frame whose 32 bits were all collected; an
\* unsynchronised decoder is still short of edges.
StopBit ==
  /\ wire = FrameTicks
  /\ wire' = 0 /\ UNCHANGED sent
  /\ IF isr_state_ = "COLLECTING" /\ synced
       THEN Push(sent, tail_) /\ UNCHANGED tail_ /\ isr_state_' = "READY" /\ synced' = FALSE
       ELSE UNCHANGED <<isrVars, ringVars, accepted>>

\* 10 ms pass on the wire and in the loop's delays.
Silence == wire = 0 /\ UNCHANGED <<wireVars, isrVars, ringVars, accepted>>

Tick ==
  /\ StartBit \/ DataBits \/ StopBit \/ Silence
  /\ since' = IF since < Cap THEN since + 1 ELSE since
  /\ uptime' = IF probing /\ uptime < WindowTicks THEN uptime + 1 ELSE uptime
  /\ UNCHANGED <<pc, req, provider_, probing, valid_, served>>

\* Bus noise on an idle bus: an edge without a frame.
Noise ==
  /\ wire = 0 /\ isr_state_ = "READY"
  /\ isr_state_' = "COLLECTING" /\ synced' = FALSE
  /\ UNCHANGED <<wireVars, ringVars, pc, req, since, roleVars, valid_, accepted, served>>
-----------------------------------------------------------------------------
(* OtSlave::loop *)

\* The stall heal, then service(), which pops in three steps.
Heals == isr_state_ = "COLLECTING" /\ since > HealTicks /\ Items = 0

LoopStartPicky ==
  /\ pc = "idle"
  /\ pc' = IF provider_ /\ Items > 1 THEN "read" ELSE "decide"
  /\ UNCHANGED <<wireVars, isrVars, ringVars, req, since, roleVars, valid_, accepted, served>>
LoopStart ==
  /\ pc = "idle"
  /\ isr_state_' = IF Heals THEN "READY" ELSE isr_state_
  /\ synced' = (synced /\ ~Heals)
  /\ pc' = IF provider_ /\ head_ # tail_ THEN "read" ELSE "decide"
  /\ UNCHANGED <<wireVars, ringVars, req, since, roleVars, valid_, accepted, served>>

PopRead ==
  /\ pc = "read" /\ pc' = "popped"
  /\ req' = buf_[tail_]
  /\ UNCHANGED <<wireVars, isrVars, ringVars, since, roleVars, valid_, accepted, served>>

\* Within 20 ms of the last answer the request would go back to the tail.
PopAdvance ==
  /\ pc = "popped"
  /\ tail_' = Mask(tail_ + 1)
  /\ IF since < RespondTicks
       THEN Push(req, tail_') /\ pc' = "decide" /\ req' = NoReq
       ELSE pc' = "serve" /\ UNCHANGED <<req, buf_, head_, drops_, accepted>>
  /\ UNCHANGED <<wireVars, isrVars, since, roleVars, valid_, served>>

\* The request is counted and the provider called: it blocks for as long as the
\* boiler takes.
Serve ==
  /\ pc = "serve" /\ pc' = "provider"
  /\ isr_state_' = "READY" /\ synced' = FALSE
  /\ since' = 0 /\ valid_' = valid_ + 1
  /\ UNCHANGED <<wireVars, ringVars, req, roleVars, accepted, served>>

\* txAnswer_ is a busy wait of its own length.
AnswerUntimed ==
  /\ pc = "provider" /\ pc' = "decide"
  /\ served' = Append(served, req) /\ req' = NoReq
  /\ UNCHANGED <<wireVars, isrVars, ringVars, since, roleVars, valid_, accepted>>
Answer ==
  /\ pc = "provider" /\ since >= AnswerTicks
  /\ pc' = "decide"
  /\ served' = Append(served, req) /\ req' = NoReq
  /\ UNCHANGED <<wireVars, isrVars, ringVars, since, roleVars, valid_, accepted>>

\* main.cpp: gw_autodetect_decide once the window has elapsed.
Decide ==
  /\ pc = "decide" /\ pc' = "idle"
  /\ IF probing /\ uptime >= WindowTicks
       THEN probing' = FALSE /\ provider_' = (valid_ >= MinFrames)
       ELSE UNCHANGED <<probing, provider_>>
  /\ UNCHANGED <<wireVars, isrVars, ringVars, req, since, uptime, valid_, accepted, served>>

\* A master-only device never runs the slave's loop again.
LoopRuns == probing \/ provider_
LoopStep == LoopRuns /\ (LoopStart \/ PopRead \/ PopAdvance \/ Serve \/ Answer \/ Decide)

Next == Tick \/ Noise \/ LoopStep

\* Time passes and loop() is called for ever.
Fairness == WF_vars(Tick) /\ WF_vars(LoopStep)

Spec == Init /\ [][Next]_vars /\ Fairness
-----------------------------------------------------------------------------
(* Properties *)

\* Every variable keeps its type.
TypeOK ==
  /\ wire \in 0 .. FrameTicks /\ sent \in 0 .. MaxFrames
  /\ isr_state_ \in {"READY", "COLLECTING"} /\ synced \in BOOLEAN
  /\ buf_ \in [Slots -> Frames \cup {NoReq}] /\ head_ \in Slots /\ tail_ \in Slots
  /\ drops_ \in 0 .. MaxFrames
  /\ pc \in {"idle", "read", "popped", "serve", "provider", "decide"}
  /\ req \in Frames \cup {NoReq} /\ since \in 0 .. Cap
  /\ provider_ \in BOOLEAN /\ probing \in BOOLEAN /\ uptime \in 0 .. WindowTicks
  /\ valid_ \in 0 .. MaxFrames
  /\ accepted \in Seq(Frames) /\ served \in Seq(Frames)

\* Every request the ring accepted is answered once and in order: what was
\* answered, what service() holds and what the ring holds make up what the
\* interrupt latched, at every point of a pop the interrupt may hit.
InHand == IF pc \in {"serve", "provider"} THEN <<req>> ELSE <<>>
RingIsFifo == accepted = served \o InHand \o Queue

\* The interrupt, the ring and the loop together are a queue: each request they
\* take is answered at most once and in order.  A request pushed back into the
\* ring, from which the answer's own length keeps the loop, would break it.
Promise == INSTANCE RequestQueue
             WITH Requests <- Frames, Room <- Size,
                  waiting <- InHand \o Queue, answered <- served
IsAQueue == Promise!QSpec

\* In the gateway role a latched request is answered in the end.
LatchedIsAnswered == \A n \in Frames : provider_ /\ Len(accepted) >= n ~> Len(served) >= n
=============================================================================
