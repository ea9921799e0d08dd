---------------------------- MODULE GatewayProofs ---------------------------
(***************************************************************************)
(* Proofs about Gateway for every set of ids, payloads and overrides and   *)
(* every size of the cache.  TypeOK, which says that no id is cached       *)
(* twice, with CacheIsNewest and OverrideReachesBoiler is inductive.       *)
(***************************************************************************)
EXTENDS Gateway, TLAPS, WellFoundedInduction

IInv == TypeOK /\ CacheIsNewest /\ OverrideReachesBoiler

USE IdAssumption, ValueAssumption, CountAssumption
-----------------------------------------------------------------------------
(* The cache *)

\* The search of a set of slots ends in that set: it has a lowest member.
LEMMA FirstOfSlots ==
  ASSUME NEW S \in SUBSET Slots, S # {}
  PROVE  First(S) \in S
<1>1. S \subseteq Nat  BY DEF Slots
<1>2. PICK s \in S : \A t \in S : <<t, s>> \notin OpToRel(<, Nat)
  BY <1>1, WFMin, NatLessThanWellFounded
<1>3. \A t \in S : s <= t
  <2> TAKE t \in S
  <2>1. <<t, s>> \in Nat \X Nat  BY <1>1
  <2>2. ~(t < s)  BY <1>2, <2>1 DEF OpToRel
  <2> QED BY <1>1, <2>2
<1> QED BY <1>3 DEF First

\* Two slots never hold one id: the last part of TypeOK.
Distinct(c) ==
  \A s, t \in Slots : c[s].used /\ c[t].used /\ c[s].id = c[t].id => s = t

Contents == [used : BOOLEAN, id : Ids, data : Values \cup {NAN}]

\* cachePut writes one slot; no other slot held that id.
LEMMA PutPlace ==
  ASSUME TypeOK, NEW id \in Ids, NEW data \in Values
  PROVE  \E s \in Slots :
           /\ CachePut(id, data) = [cache_ EXCEPT ![s] = [used |-> TRUE, id |-> id, data |-> data]]
           /\ \A t \in Slots \ {s} : ~(cache_[t].used /\ cache_[t].id = id)
<1> DEFINE unused == {s \in Slots : ~cache_[s].used}
           slot == IF Holding(id) # {} THEN First(Holding(id))
                   ELSE IF First(unused) # 0 THEN First(unused) ELSE 1
<1>1. slot \in Slots
  <2>1. 1 \in Slots  BY DEF Slots
  <2>2. unused # {} => First(unused) \in Slots
    <3>1. unused \in SUBSET Slots  OBVIOUS
    <3> HIDE DEF unused
    <3> QED BY <3>1, FirstOfSlots
  <2>3. unused = {} => First(unused) = 0  BY DEF First
  <2>4. Holding(id) # {} => First(Holding(id)) \in Slots
    BY FirstOfSlots DEF Holding
  <2> QED BY <2>1, <2>2, <2>3, <2>4
<1>2. \A t \in Slots \ {slot} : ~(cache_[t].used /\ cache_[t].id = id)
  <2>1. CASE Holding(id) = {}  BY <2>1 DEF Holding
  <2>2. CASE Holding(id) # {}
    <3>1. slot \in Holding(id)  BY <2>2, FirstOfSlots DEF Holding
    <3> QED BY <3>1 DEF Holding, TypeOK
  <2> QED BY <2>1, <2>2
<1>3. CachePut(id, data) = [cache_ EXCEPT ![slot] = [used |-> TRUE, id |-> id, data |-> data]]
  BY DEF CachePut
<1> QED BY <1>1, <1>2, <1>3

\* After cachePut the cache has its type and still no id twice.
LEMMA PutType ==
  ASSUME TypeOK, NEW id \in Ids, NEW data \in Values
  PROVE  CachePut(id, data) \in [Slots -> Contents] /\ Distinct(CachePut(id, data))
<1>1. PICK s \in Slots :
        /\ CachePut(id, data) = [cache_ EXCEPT ![s] = [used |-> TRUE, id |-> id, data |-> data]]
        /\ \A t \in Slots \ {s} : ~(cache_[t].used /\ cache_[t].id = id)
  BY PutPlace
<1>2. cache_ \in [Slots -> Contents] /\ Distinct(cache_)
  BY DEF TypeOK, Contents, Distinct
<1> QED BY <1>1, <1>2 DEF Contents, Distinct

NewestInSlots == \A s \in Slots : cache_[s].used => cache_[s].data = newest[cache_[s].id]

\* Since an id is cached once, what is found is what the slot of that id holds.
LEMMA NewestBySlot == TypeOK => (CacheIsNewest <=> NewestInSlots)
<1> SUFFICES ASSUME TypeOK PROVE CacheIsNewest <=> NewestInSlots  OBVIOUS
<1>1. \A s \in Slots : cache_[s].used => First(Holding(cache_[s].id)) = s
  <2> SUFFICES ASSUME NEW s \in Slots, cache_[s].used
               PROVE  First(Holding(cache_[s].id)) = s
    OBVIOUS
  <2>1. Holding(cache_[s].id) = {s}  BY DEF Holding, TypeOK
  <2> QED BY <2>1, FirstOfSlots
<1>2. \A id \in Ids : Holding(id) # {} =>
        \E s \in Slots : cache_[s].used /\ cache_[s].id = id
  BY DEF Holding
<1>3. \A s \in Slots : cache_[s].id \in Ids  BY DEF TypeOK
<1>4. \A s \in Slots : cache_[s].used => Holding(cache_[s].id) # {}  BY DEF Holding
<1> QED BY <1>1, <1>2, <1>3, <1>4 DEF CacheIsNewest, NewestInSlots
-----------------------------------------------------------------------------
(* The steps *)

LEMMA InitHolds == Init => IInv
<1> SUFFICES ASSUME Init PROVE IInv  OBVIOUS
<1>1. TypeOK
  BY DEF Init, TypeOK, Links, Slots, Empty, Quiet
<1>2. CacheIsNewest  BY DEF Init, CacheIsNewest, Holding, Empty
<1>3. OverrideReachesBoiler  BY DEF Init, OverrideReachesBoiler, Quiet
<1> QED BY <1>1, <1>2, <1>3 DEF IInv

\* The hysteresis keeps its counters in range.
LEMMA NoteType ==
  ASSUME link \in Links
  PROVE  NoteOk \in Links /\ NoteFail \in Links
<1>1. NoteOk \in Links  BY DEF NoteOk, Links
<1>2. LesserOf(link.streak + 1, Threshold) \in 0 .. Threshold  BY DEF Links, LesserOf
<1>3. NoteFail \in Links  BY <1>2 DEF NoteFail, Links
<1> QED BY <1>1, <1>3

\* A frame that route forwards is a request, with the override if there is one.
LEMMA RoutedType ==
  ASSUME TypeOK, NEW write \in BOOLEAN, NEW id \in Ids, NEW data \in Values
  PROVE  Routed(write, id, data) \in Requests
BY DEF Routed, Requests, TypeOK

\* The frame on the wire, or the absence of one, has an id.
LEMMA FrameId == TypeOK => frame.id \in Ids
<1>1. Quiet.id \in Ids  BY DEF Quiet
<1>2. \A f \in Requests : f.id \in Ids  BY DEF Requests
<1> QED BY <1>1, <1>2 DEF TypeOK

LEMMA TypeStep == TypeOK /\ [Next]_vars => TypeOK'
<1> SUFFICES ASSUME TypeOK, [Next]_vars PROVE TypeOK'  OBVIOUS
<1>1. CASE SetOverride  BY <1>1 DEF SetOverride, TypeOK
<1>2. CASE Tick
  <2>1. since' \in 0 .. ProbeTicks  BY <1>2 DEF Tick, TypeOK, LesserOf
  <2>2. LesserOf(link.age + 1, HoldTicks + 1) \in 0 .. HoldTicks + 1
    BY DEF TypeOK, Links, LesserOf
  <2>3. link' \in Links  BY <1>2, <2>2 DEF Tick, TypeOK, Links
  <2> QED BY <1>2, <2>1, <2>3 DEF Tick, TypeOK
<1>3. CASE Forward
  <2>1. frame' \in Requests  BY <1>3, RoutedType DEF Forward
  <2>2. since' \in 0 .. ProbeTicks  BY <1>3 DEF Forward, TypeOK
  <2> QED BY <1>3, <2>1, <2>2 DEF Forward, TypeOK
<1>4. CASE Answered
  <2>1. frame.id \in Ids  BY FrameId
  <2>2. link' \in Links  BY <1>4, NoteType DEF Answered, TypeOK
  <2>3. cache_' \in [Slots -> Contents] /\ Distinct(cache_') /\ newest' \in [Ids -> Values \cup {NAN}]
    <3>1. CASE UNCHANGED <<cache_, newest>>  BY <3>1 DEF TypeOK, Contents, Distinct
    <3>2. CASE \E data \in Values : /\ cache_' = CachePut(frame.id, data)
                                    /\ newest' = [newest EXCEPT ![frame.id] = data]
      BY <2>1, <3>2, PutType DEF TypeOK
    <3> QED BY <1>4, <3>1, <3>2 DEF Answered
  <2>4. frame' = Quiet /\ boiler_up_' = TRUE /\ UNCHANGED <<ov_setpoint_c_, since>>
    BY <1>4 DEF Answered
  <2> QED BY <2>2, <2>3, <2>4 DEF TypeOK, Contents, Distinct
<1>5. CASE Failed  BY <1>5, NoteType DEF Failed, TypeOK
<1>6. CASE UNCHANGED vars  BY <1>6 DEF vars, TypeOK
<1> QED BY <1>1, <1>2, <1>3, <1>4, <1>5, <1>6 DEF Next, AnswerLocal

LEMMA NewestStep == TypeOK /\ TypeOK' /\ CacheIsNewest /\ [Next]_vars => CacheIsNewest'
<1> SUFFICES ASSUME TypeOK, TypeOK', CacheIsNewest, [Next]_vars PROVE CacheIsNewest'
  OBVIOUS
<1>1. CASE UNCHANGED <<cache_, newest>>
  BY <1>1 DEF CacheIsNewest, Holding
<1>2. ASSUME NEW data \in Values, frame.id \in Ids, cache_' = CachePut(frame.id, data),
             newest' = [newest EXCEPT ![frame.id] = data]
      PROVE  CacheIsNewest'
  <2>1. \A s \in Slots : cache_[s].used => cache_[s].data = newest[cache_[s].id]
    BY NewestBySlot DEF NewestInSlots
  <2>2. PICK s \in Slots :
          /\ cache_' = [cache_ EXCEPT ![s] = [used |-> TRUE, id |-> frame.id, data |-> data]]
          /\ \A t \in Slots \ {s} : ~(cache_[t].used /\ cache_[t].id = frame.id)
    BY <1>2, PutPlace
  <2>3. \A t \in Slots : cache_'[t].used => cache_'[t].data = newest'[cache_'[t].id]
    <3>1. cache_ \in [Slots -> Contents] /\ newest \in [Ids -> Values \cup {NAN}]
      BY DEF TypeOK, Contents
    <3> SUFFICES ASSUME NEW t \in Slots, cache_'[t].used
                 PROVE  cache_'[t].data = newest'[cache_'[t].id]
      OBVIOUS
    <3>2. CASE t = s  BY <1>2, <2>2, <3>1, <3>2
    <3>3. CASE t # s
      <4>1. cache_'[t] = cache_[t] /\ cache_[t].id \in Ids  BY <2>2, <3>1, <3>3 DEF Contents
      <4>2. cache_[t].used /\ cache_[t].id # frame.id  BY <2>2, <3>3, <4>1
      <4> QED BY <1>2, <2>1, <3>1, <4>1, <4>2
    <3> QED BY <3>2, <3>3
  <2>4. NewestInSlots'  BY <2>3 DEF NewestInSlots
  <2>5. (TypeOK => (CacheIsNewest <=> NewestInSlots))'  BY NewestBySlot, PTL
  <2> QED BY <2>4, <2>5
<1>3. frame.id \in Ids  BY FrameId
<1> QED BY <1>1, <1>2, <1>3
        DEF Next, vars, SetOverride, Tick, AnswerLocal, Forward, Answered, Failed

LEMMA OverrideStep == OverrideReachesBoiler /\ [Next]_vars => OverrideReachesBoiler'
BY DEF Next, vars, SetOverride, Tick, AnswerLocal, Forward, Answered, Failed, Routed, Quiet,
       OverrideReachesBoiler

LEMMA Invariance == Spec => []IInv
<1>1. IInv /\ [Next]_vars => IInv'  BY TypeStep, NewestStep, OverrideStep DEF IInv
<1> QED BY InitHolds, <1>1, PTL DEF Spec
-----------------------------------------------------------------------------
(* The theorems *)

\* Types hold and no id is ever cached twice, whatever the cache's size.
THEOREM GatewayTypeCorrect == Spec => []TypeOK
BY Invariance, PTL DEF IInv

\* A local answer is the newest the boiler gave for that id.
THEOREM LocalAnswersAreNewest == Spec => []CacheIsNewest
BY Invariance, PTL DEF IInv

\* No TSet passes an override, probe or not.
THEOREM OverridesHold == Spec => []OverrideReachesBoiler
BY Invariance, PTL DEF IInv
=============================================================================
