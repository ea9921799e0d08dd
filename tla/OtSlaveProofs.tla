---------------------------- MODULE OtSlaveProofs ---------------------------
(***************************************************************************)
(* Proofs about OtSlave for every size of the ring, every length of a      *)
(* frame, an answer and the delays, and any number of requests: the types, *)
(* the order of the ring, and that interrupt, ring and loop together       *)
(* implement RequestQueue.                                                 *)
(*                                                                         *)
(* RingIsFifo is inductive once it is known that the loop never pushes a   *)
(* request back, and that it pops only what is there: LoopInv.  Counted    *)
(* bounds the counters and tells that a request on the wire is newer than  *)
(* all that were latched.                                                  *)
(***************************************************************************)
EXTENDS OtSlave, TLAPS, SequenceTheorems

Entry == Frames \cup {NoReq}
OnWire == IF wire = 0 THEN 0 ELSE 1

LoopInv ==
  /\ pc # "provider" => since >= RespondTicks
  /\ pc \in {"read", "popped"} => head_ # tail_
  /\ pc = "popped" => req = buf_[tail_]
  /\ pc \in {"serve", "provider"} => req \in Frames

Counted ==
  /\ Len(accepted) + drops_ + OnWire <= sent
  /\ \A i \in 1 .. Len(accepted) : accepted[i] + OnWire <= sent
  /\ valid_ = Len(served) + (IF pc = "provider" THEN 1 ELSE 0)

IInv == TypeOK /\ RingIsFifo /\ LoopInv /\ Counted

USE SizeAssumption, TickAssumption
-----------------------------------------------------------------------------
(* The ring *)

LEMMA MaskRange == \A n \in Int : Mask(n) \in Slots
  BY DEF Mask, Slots

\* One lap up or down.
LEMMA MaskLap ==
  /\ \A n \in 0 .. Size - 1 : Mask(n) = n
  /\ \A n \in Size .. 2 * Size - 1 : Mask(n) = n - Size
  /\ \A n \in -Size .. -1 : Mask(n) = n + Size
  BY DEF Mask

\* The contents of a ring with indices h and t.
Contents(b, h, t) == [i \in 1 .. Mask(h - t) |-> b[Mask(t + i - 1)]]

LEMMA ContentsType ==
  ASSUME NEW b \in [Slots -> Entry], NEW h \in Slots, NEW t \in Slots
  PROVE  /\ Contents(b, h, t) \in Seq(Entry)
         /\ Len(Contents(b, h, t)) = Mask(h - t)
<1>1. Mask(h - t) \in Nat  BY MaskRange DEF Slots
<1>2. \A i \in 1 .. Mask(h - t) : b[Mask(t + i - 1)] \in Entry
  <2> TAKE i \in 1 .. Mask(h - t)
  <2>1. t + i - 1 \in Int  BY <1>1 DEF Slots
  <2>2. Mask(t + i - 1) \in Slots  BY ONLY <2>1, MaskRange
  <2> QED BY ONLY <2>2, b \in [Slots -> Entry]
<1>3. Contents(b, h, t) \in [1 .. Mask(h - t) -> Entry]  BY <1>2 DEF Contents
<1> QED BY <1>1, <1>3

LEMMA NotFull ==
  ASSUME NEW h \in Slots, NEW t \in Slots, Mask(h + 1) # t
  PROVE  Mask(h - t) \in Nat /\ Mask(h - t) + 1 < Size
  BY MaskLap DEF Slots

LEMMA RingPush ==
  ASSUME NEW b \in [Slots -> Entry], NEW h \in Slots, NEW t \in Slots, NEW f \in Entry,
         Mask(h + 1) # t
  PROVE  Contents([b EXCEPT ![h] = f], Mask(h + 1), t) = Append(Contents(b, h, t), f)
<1> DEFINE c == [b EXCEPT ![h] = f]  s == Contents(c, Mask(h + 1), t)
           u == Append(Contents(b, h, t), f)  n == Mask(h - t)
<1>1. n \in Nat /\ n + 1 < Size /\ Mask(Mask(h + 1) - t) = n + 1
  BY MaskLap DEF Slots
<1>2. c \in [Slots -> Entry] /\ Mask(h + 1) \in Slots  BY MaskRange DEF Slots
<1>3. s \in Seq(Entry) /\ Len(s) = n + 1
  <2> DEFINE g == Mask(h + 1)
  <2>1. g \in Slots /\ Mask(g - t) = n + 1  BY <1>1, <1>2
  <2> HIDE DEF c, n, g
  <2>2. Contents(c, g, t) \in Seq(Entry) /\ Len(Contents(c, g, t)) = Mask(g - t)
    BY ONLY <1>2, <2>1, t \in Slots, ContentsType
  <2> QED BY ONLY <2>1, <2>2 DEF g
<1>4. Contents(b, h, t) \in Seq(Entry) /\ Len(Contents(b, h, t)) = n  BY ContentsType
<1>5. /\ u \in Seq(Entry) /\ Len(u) = n + 1 /\ u[n + 1] = f
      /\ \A i \in 1 .. n : u[i] = Contents(b, h, t)[i]
  BY <1>4, AppendProperties
<1>6. \A i \in 1 .. n + 1 : s[i] = u[i]
  <2> SUFFICES ASSUME NEW i \in 1 .. n + 1 PROVE s[i] = u[i]  OBVIOUS
  <2>1. s[i] = c[Mask(t + i - 1)]  BY <1>1 DEF Contents
  <2>2. CASE i = n + 1
    <3>1. Mask(t + i - 1) = h
      <4>1. CASE h >= t
        <5>1. n = h - t  BY <4>1, MaskLap DEF Slots
        <5>2. t + i - 1 = h  BY ONLY <5>1, <2>2, h \in Slots, t \in Slots, SizeAssumption DEF Slots
        <5> QED BY <5>2, MaskLap DEF Slots
      <4>2. CASE h < t
        <5>1. n = h - t + Size  BY <4>2, MaskLap DEF Slots
        <5>2. t + i - 1 = h + Size
          BY ONLY <5>1, <2>2, h \in Slots, t \in Slots, SizeAssumption DEF Slots
        <5>3. h + Size \in Size .. 2 * Size - 1
          BY ONLY h \in Slots, SizeAssumption DEF Slots
        <5>4. Mask(h + Size) = h + Size - Size
          <6> DEFINE k == h + Size
          <6>1. k \in Size .. 2 * Size - 1  BY ONLY <5>3
          <6> HIDE DEF k
          <6>2. Mask(k) = k - Size  BY ONLY <6>1, MaskLap
          <6> QED BY <6>2 DEF k, Slots
        <5>5. h + Size - Size = h  BY ONLY h \in Slots, SizeAssumption DEF Slots
        <5>6. Mask(t + i - 1) = Mask(h + Size)  BY ONLY <5>2
        <5> QED BY ONLY <5>4, <5>5, <5>6
      <4> QED BY ONLY <4>1, <4>2, h \in Slots, t \in Slots, SizeAssumption DEF Slots
    <3> QED BY <2>1, <2>2, <3>1, <1>5
  <2>3. CASE i \in 1 .. n
    <3>1. Mask(t + i - 1) # h /\ Mask(t + i - 1) \in Slots
      <4>1. CASE h >= t
        <5>1. n = h - t  BY <4>1, MaskLap DEF Slots
        <5>2. t + i - 1 \in 0 .. Size - 1 /\ t + i - 1 < h  BY <5>1, <2>3, <4>1 DEF Slots
        <5>3. Mask(t + i - 1) = t + i - 1  BY <5>2, MaskLap
        <5> QED BY <5>2, <5>3 DEF Slots
      <4>2. CASE h < t
        <5>1. n = h - t + Size  BY <4>2, MaskLap DEF Slots
        <5>2. CASE t + i - 1 < Size
          <6>1. t + i - 1 \in 0 .. Size - 1 /\ t + i - 1 > h  BY <5>2, <2>3, <4>2, <1>1 DEF Slots
          <6>2. Mask(t + i - 1) = t + i - 1  BY <6>1, MaskLap
          <6> QED BY <6>1, <6>2 DEF Slots
        <5>3. CASE t + i - 1 >= Size
          <6>1. /\ t + i - 1 \in Size .. 2 * Size - 1
                /\ t + i - 1 - Size < h /\ t + i - 1 - Size \in Slots
            BY <5>1, <5>3, <2>3, <4>2 DEF Slots
          <6>2. Mask(t + i - 1) = t + i - 1 - Size
            <7> DEFINE k == t + i - 1
            <7>1. k \in Size .. 2 * Size - 1  BY <6>1
            <7> HIDE DEF k
            <7>2. Mask(k) = k - Size  BY <7>1, MaskLap
            <7> QED BY <7>2 DEF k, Slots
          <6> QED BY <6>1, <6>2 DEF Slots
        <5> QED BY <5>2, <5>3, <2>3 DEF Slots
      <4> QED BY <4>1, <4>2 DEF Slots
    <3>2. u[i] = Contents(b, h, t)[i]  BY <2>3, <1>5
    <3>3. Contents(b, h, t)[i] = b[Mask(t + i - 1)]  BY <2>3 DEF Contents
    <3>4. c[Mask(t + i - 1)] = b[Mask(t + i - 1)]  BY <3>1
    <3> QED BY <2>1, <3>2, <3>3, <3>4, Zenon
  <2>4. i = n + 1 \/ i \in 1 .. n  BY <1>1
  <2> QED BY <2>2, <2>3, <2>4, Zenon
<1> HIDE DEF s, u, n
<1>7. s = u  BY <1>3, <1>5, <1>6, SeqEqual
<1> QED BY <1>7 DEF s, u

LEMMA RingPop ==
  ASSUME NEW b \in [Slots -> Entry], NEW h \in Slots, NEW t \in Slots, h # t
  PROVE  Contents(b, h, t) = <<b[t]>> \o Contents(b, h, Mask(t + 1))
<1> DEFINE s == Contents(b, h, t)  v == Contents(b, h, Mask(t + 1))
           w == <<b[t]>>  n == Mask(h - t)
<1>1. n \in Nat \ {0} /\ Mask(h - Mask(t + 1)) = n - 1  BY MaskLap DEF Slots
<1>2. s \in Seq(Entry) /\ Len(s) = n  BY ContentsType
<1>3. v \in Seq(Entry) /\ Len(v) = n - 1
  <2>1. Mask(t + 1) \in Slots  BY MaskRange DEF Slots
  <2>2. v \in Seq(Entry) /\ Len(v) = Mask(h - Mask(t + 1))  BY <2>1, ContentsType
  <2> QED BY <1>1, <2>2
<1>4. w \in Seq(Entry) /\ Len(w) = 1 /\ w[1] = b[t]  OBVIOUS
<1>5. /\ w \o v \in Seq(Entry) /\ Len(w \o v) = n
      /\ \A i \in 1 .. n : (w \o v)[i] = IF i <= 1 THEN b[t] ELSE v[i - 1]
  <2> HIDE DEF v, w, n
  <2>1. Len(w) + Len(v) = n  BY <1>1, <1>3, <1>4
  <2>2. /\ w \o v \in Seq(Entry) /\ Len(w \o v) = Len(w) + Len(v)
        /\ \A i \in 1 .. Len(w) + Len(v) :
             (w \o v)[i] = IF i <= Len(w) THEN w[i] ELSE v[i - Len(w)]
    BY <1>3, <1>4, ConcatProperties
  <2> QED BY <1>1, <1>4, <2>1, <2>2
<1>6. \A i \in 1 .. n : s[i] = (w \o v)[i]
  <2> SUFFICES ASSUME NEW i \in 1 .. n PROVE s[i] = IF i <= 1 THEN b[t] ELSE v[i - 1]
    BY <1>5
  <2>1. s[i] = b[Mask(t + i - 1)]  BY DEF Contents
  <2>2. CASE i = 1  BY <2>1, <2>2, MaskLap DEF Slots
  <2>3. CASE i > 1
    <3>1. v[i - 1] = b[Mask(Mask(t + 1) + (i - 1) - 1)]  BY <1>1, <2>3 DEF Contents
    <3>2. i - 2 \in 0 .. Size - 1  BY <1>1, <2>3, MaskRange DEF Slots
    <3>3. Mask(Mask(t + 1) + (i - 1) - 1) = Mask(t + i - 1)
      <4>1. CASE t + 1 < Size
        <5>1. Mask(t + 1) = t + 1  BY <4>1, MaskLap DEF Slots
        <5>2. (t + 1) + (i - 1) - 1 = t + i - 1  BY DEF Slots
        <5> QED BY <5>1, <5>2
      <4>2. CASE t + 1 = Size
        <5>1. Mask(t + 1) = 0 /\ Mask(i - 2) = i - 2 /\ 0 + (i - 1) - 1 = i - 2
          BY <3>2, <4>2, MaskLap DEF Slots
        <5>2. t + i - 1 \in Size .. 2 * Size - 1 /\ t + i - 1 - Size = i - 2
          BY <3>2, <4>2 DEF Slots
        <5>3. Mask(t + i - 1) = t + i - 1 - Size
          <6> DEFINE k == t + i - 1
          <6>1. k \in Size .. 2 * Size - 1  BY <5>2
          <6> HIDE DEF k
          <6>2. Mask(k) = k - Size  BY <6>1, MaskLap
          <6> QED BY <6>2 DEF k, Slots
        <5> QED BY <5>1, <5>2, <5>3
      <4> QED BY <4>1, <4>2 DEF Slots
    <3> QED BY <2>1, <2>3, <3>1, <3>3
  <2> QED BY <2>2, <2>3
<1> HIDE DEF s, v, w, n
<1>7. s = w \o v  BY <1>2, <1>5, <1>6, SeqEqual
<1> QED BY <1>7 DEF s, v, w
-----------------------------------------------------------------------------
(* The queue of the refinement *)

Waiting == InHand \o Queue

LEMMA QueueIs ==
  ASSUME TypeOK
  PROVE  /\ Queue = Contents(buf_, head_, tail_)
         /\ Queue \in Seq(Entry) /\ Len(Queue) = Mask(head_ - tail_)
<1>1. Queue = Contents(buf_, head_, tail_)  BY DEF Queue, Items, Contents
<1>2. buf_ \in [Slots -> Entry] /\ head_ \in Slots /\ tail_ \in Slots  BY DEF TypeOK, Entry
<1> QED BY <1>1, <1>2, ContentsType

LEMMA InHandType == LoopInv => InHand \in Seq(Frames) /\ Len(InHand) \in 0 .. 1
  BY DEF LoopInv, InHand

\* What follows a sequence of frames in a sequence of frames is one.
LEMMA SuffixType ==
  ASSUME NEW s \in Seq(Frames), NEW q \in Seq(Entry), s \o q \in Seq(Frames)
  PROVE  q \in Seq(Frames)
<1>1. s \in Seq(Entry)  BY SeqMonotonic DEF Entry
<1>2. /\ Len(s \o q) = Len(s) + Len(q)
      /\ \A i \in 1 .. Len(s) + Len(q) :
           (s \o q)[i] = IF i <= Len(s) THEN s[i] ELSE q[i - Len(s)]
  BY <1>1, ConcatProperties
<1>3. Len(s) \in Nat /\ Len(q) \in Nat /\ q = [i \in 1 .. Len(q) |-> q[i]]
  BY LenProperties
<1>4. \A i \in 1 .. Len(q) : q[i] \in Frames
  <2> SUFFICES ASSUME NEW i \in 1 .. Len(q) PROVE q[i] \in Frames  OBVIOUS
  <2>1. Len(s) + i \in 1 .. Len(s \o q) /\ (s \o q)[Len(s) + i] = q[i]
    <3>1. Len(s) + i \in 1 .. Len(s) + Len(q) /\ ~(Len(s) + i <= Len(s))
          /\ (Len(s) + i) - Len(s) = i
      BY <1>3
    <3>2. (s \o q)[Len(s) + i] = q[(Len(s) + i) - Len(s)]  BY <3>1, <1>2
    <3> QED BY <3>1, <3>2, <1>2
  <2>2. (s \o q)[Len(s) + i] \in Frames  BY <2>1, ElementOfSeq
  <2> QED BY <2>1, <2>2
<1> QED BY <1>3, <1>4

\* Every request is somewhere.
LEMMA Somewhere ==
  ASSUME TypeOK, RingIsFifo, LoopInv
  PROVE  /\ Queue \in Seq(Frames) /\ InHand \in Seq(Frames) /\ Waiting \in Seq(Frames)
         /\ accepted = served \o Waiting
         /\ Len(Waiting) = Len(InHand) + Len(Queue)
         /\ Len(accepted) = Len(served) + Len(Waiting)
<1>1. served \in Seq(Frames) /\ accepted \in Seq(Frames)  BY DEF TypeOK
<1>2. InHand \in Seq(Frames)  BY InHandType
<1>3. served \o InHand \in Seq(Frames)  BY <1>1, <1>2, ConcatProperties
<1>4. Queue \in Seq(Frames)
  <2>1. Queue \in Seq(Entry)  BY QueueIs
  <2>2. (served \o InHand) \o Queue \in Seq(Frames)  BY <1>1 DEF RingIsFifo
  <2> QED BY <1>3, <2>1, <2>2, SuffixType
<1>5. Waiting \in Seq(Frames) /\ Len(Waiting) = Len(InHand) + Len(Queue)
  BY <1>2, <1>4, ConcatProperties DEF Waiting
<1>6. accepted = served \o Waiting
  <2>1. accepted = served \o InHand \o Queue  BY DEF RingIsFifo
  <2>2. served \o InHand \o Queue = served \o (InHand \o Queue)
    <3> DEFINE i == InHand  q == Queue
    <3>1. i \in Seq(Frames) /\ q \in Seq(Frames)  BY <1>2, <1>4
    <3> HIDE DEF i, q
    <3>2. served \o i \o q = served \o (i \o q)  BY ONLY <1>1, <3>1, ConcatAssociative
    <3> QED BY ONLY <3>2 DEF i, q
  <2> QED BY ONLY <2>1, <2>2 DEF Waiting
<1>7. Len(accepted) = Len(served) + Len(Waiting)  BY <1>1, <1>5, <1>6, ConcatProperties
<1> QED BY <1>2, <1>4, <1>5, <1>6, <1>7
-----------------------------------------------------------------------------
(* The steps *)

LEMMA InitHolds == Init => IInv
<1> SUFFICES ASSUME Init PROVE IInv  OBVIOUS
<1>1. TypeOK
  <2>1. since \in 0 .. Cap /\ 0 \in Slots  BY DEF Init, Cap, Slots
  <2>2. provider_ \in BOOLEAN /\ probing \in BOOLEAN  BY DEF Init
  <2> QED BY <2>1, <2>2 DEF Init, TypeOK
<1>2. LoopInv  BY DEF Init, LoopInv, Cap
<1>3. RingIsFifo
  <2>1. Queue \in Seq(Entry) /\ Len(Queue) = 0
    <3>1. Mask(head_ - tail_) = 0  BY MaskLap DEF Init
    <3> QED BY <1>1, <3>1, QueueIs
  <2>2. Queue = <<>>  BY <2>1, EmptySeq
  <2>3. InHand = <<>>  BY DEF Init, InHand
  <2> QED BY <2>2, <2>3 DEF Init, RingIsFifo
<1>4. Counted  BY DEF Init, Counted, OnWire
<1> QED BY <1>1, <1>2, <1>3, <1>4 DEF IInv

Quiet == UNCHANGED <<buf_, head_, tail_, accepted>>

\* A step that leaves the ring, what is in hand and what was answered alone.
LEMMA StillQueue ==
  ASSUME IInv, Quiet, UNCHANGED served, InHand' = InHand
  PROVE  RingIsFifo' /\ UNCHANGED <<InHand \o Queue, served>>
<1>1. Queue' = Queue  BY DEF Queue, Items, Quiet
<1> QED BY <1>1 DEF IInv, RingIsFifo, Quiet

\* The interrupt latches the request on the wire, or rejects it.
LEMMA PushStep ==
  ASSUME IInv, TypeOK', StopBit, Push(sent, tail_), UNCHANGED <<tail_, pc, req, served>>
  PROVE  RingIsFifo' /\ [Promise!QNext]_<<InHand \o Queue, served>>
<1> USE DEF IInv
<1>1. InHand' = InHand  BY DEF InHand
<1>2. CASE Mask(head_ + 1) = tail_
  <2>1. Quiet  BY <1>2 DEF Push, Quiet
  <2> QED BY <1>1, <2>1, StillQueue
<1>3. CASE Mask(head_ + 1) # tail_
  <2>1. /\ buf_' = [buf_ EXCEPT ![head_] = sent] /\ head_' = Mask(head_ + 1)
        /\ accepted' = Append(accepted, sent)
    BY <1>3 DEF Push
  <2>2. sent \in Frames /\ sent \in Entry
    <3>1. wire # 0 /\ OnWire = 1  BY DEF StopBit, OnWire
    <3>2. Len(accepted) \in Nat /\ drops_ \in Nat  BY DEF TypeOK
    <3> QED BY <3>1, <3>2 DEF Counted, TypeOK, Frames, Entry
  <2>3. Queue' = Append(Queue, sent)
    <3>1. Queue' = Contents(buf_', head_', tail_')  BY DEF Queue, Items, Contents
    <3>2. buf_ \in [Slots -> Entry] /\ head_ \in Slots /\ tail_ \in Slots
      BY DEF TypeOK, Entry
    <3>3. Contents([buf_ EXCEPT ![head_] = sent], Mask(head_ + 1), tail_)
            = Append(Contents(buf_, head_, tail_), sent)
      BY <1>3, <2>2, <3>2, RingPush
    <3> QED BY <2>1, <3>1, <3>3, QueueIs
  <2>4. /\ Queue \in Seq(Frames) /\ InHand \in Seq(Frames) /\ Waiting \in Seq(Frames)
        /\ accepted = served \o Waiting
        /\ Len(Waiting) = Len(InHand) + Len(Queue)
        /\ Len(accepted) = Len(served) + Len(Waiting)
    BY Somewhere
  <2>5. served \in Seq(Frames) /\ accepted \in Seq(Frames) /\ <<sent>> \in Seq(Frames)
    BY <2>2 DEF TypeOK
  <2>6. (InHand \o Queue)' = Append(InHand \o Queue, sent)
    <3>1. Queue' = Queue \o <<sent>>  BY <2>2, <2>3, <2>4, AppendIsConcat
    <3>2. InHand \o (Queue \o <<sent>>) = (InHand \o Queue) \o <<sent>>
      BY <2>4, <2>5, ConcatAssociative
    <3>3. InHand \o Queue \in Seq(Frames)  BY <2>4 DEF Waiting
    <3> QED BY <1>1, <2>2, <3>1, <3>2, <3>3, AppendIsConcat
  <2>7. RingIsFifo'
    <3>1. accepted' = (served \o Waiting) \o <<sent>>
      BY <2>1, <2>2, <2>4, <2>5, AppendIsConcat
    <3>2. (served \o Waiting) \o <<sent>> = served \o (Waiting \o <<sent>>)
      <4>1. served \in Seq(Frames) /\ Waiting \in Seq(Frames) /\ <<sent>> \in Seq(Frames)
        BY <2>4, <2>5
      <4> QED BY ONLY <4>1, ConcatAssociative
    <3>3. Waiting \o <<sent>> = InHand \o Append(Queue, sent)
      BY <1>1, <2>2, <2>3, <2>4, <2>6, AppendIsConcat DEF Waiting
    <3>4. Append(Queue, sent) \in Seq(Frames)  BY <2>2, <2>4, AppendProperties
    <3>5. served \o (InHand \o Append(Queue, sent)) = (served \o InHand) \o Append(Queue, sent)
      <4> DEFINE q == Append(Queue, sent)
      <4>1. served \in Seq(Frames) /\ InHand \in Seq(Frames) /\ q \in Seq(Frames)
        BY <2>4, <2>5, <3>4
      <4> HIDE DEF q
      <4>2. served \o (InHand \o q) = (served \o InHand) \o q
        BY ONLY <4>1, ConcatAssociative
      <4> QED BY <4>2 DEF q
    <3> QED BY <1>1, <2>3, <3>1, <3>2, <3>3, <3>5 DEF RingIsFifo
  <2>8. Promise!Take(sent)
    <3>1. Len(Waiting) < Size
      <4>1. Len(Queue) = Mask(head_ - tail_)  BY QueueIs
      <4>2. head_ \in Slots /\ tail_ \in Slots  BY DEF TypeOK
      <4>3. Len(Queue) \in Nat /\ Len(Queue) + 1 < Size  BY <1>3, <4>1, <4>2, NotFull
      <4>4. Len(InHand) \in 0 .. 1  BY InHandType
      <4>5. Len(Waiting) = Len(InHand) + Len(Queue)  BY <2>4
      <4> DEFINE a == Len(InHand)  b == Len(Queue)  c == Len(Waiting)
      <4>6. a \in 0 .. 1 /\ b \in Nat /\ b + 1 < Size /\ c = a + b  BY <4>3, <4>4, <4>5
      <4> HIDE DEF a, b, c
      <4>7. c < Size  BY ONLY SizeAssumption, <4>6
      <4> QED BY <4>7 DEF c
    <3>2. \A i \in 1 .. Len(accepted) : accepted[i] < sent
      <4>1. OnWire = 1  BY DEF StopBit, OnWire
      <4>2. \A i \in 1 .. Len(accepted) : accepted[i] \in Frames  BY <2>5, ElementOfSeq
      <4> QED BY <2>2, <4>1, <4>2 DEF Counted, Frames
    <3>3. \A i \in 1 .. Len(served) + Len(Waiting) :
            accepted[i] = IF i <= Len(served) THEN served[i] ELSE Waiting[i - Len(served)]
      BY <2>4, <2>5, ConcatProperties
    <3>4. Len(served) \in Nat /\ Len(Waiting) \in Nat  BY <2>4, <2>5, LenProperties
    <3>5. \A i \in 1 .. Len(served) : served[i] < sent
      <4> TAKE i \in 1 .. Len(served)
      <4>1. i \in 1 .. Len(served) + Len(Waiting) /\ i <= Len(served)  BY <3>4
      <4>2. accepted[i] = served[i]  BY <3>3, <4>1
      <4> QED BY <2>4, <3>2, <4>1, <4>2
    <3>6. \A i \in 1 .. Len(Waiting) : Waiting[i] < sent
      <4> TAKE i \in 1 .. Len(Waiting)
      <4> DEFINE k == Len(served) + i
      <4>1. k \in 1 .. Len(served) + Len(Waiting) /\ ~(k <= Len(served)) /\ k - Len(served) = i
        BY <3>4
      <4> HIDE DEF k
      <4>2. accepted[k] = Waiting[k - Len(served)]  BY <3>3, <4>1
      <4> QED BY <2>4, <3>2, <4>1, <4>2
    <3> QED BY <2>6, <3>1, <3>5, <3>6 DEF Waiting, Promise!Take
  <2>9. \E r \in Frames : Promise!Take(r)  BY <2>2, <2>8
  <2> QED BY <2>7, <2>9 DEF Promise!QNext
<1> QED BY <1>2, <1>3

\* A pop moves the oldest request from the ring to the hand; it is never pushed
\* back, for the last answer was long ago.
LEMMA PopStep ==
  ASSUME IInv, PopAdvance
  PROVE  /\ RingIsFifo' /\ UNCHANGED <<InHand \o Queue, served>>
         /\ UNCHANGED <<buf_, head_, drops_, accepted, req>> /\ pc' = "serve"
         /\ tail_' = Mask(tail_ + 1) /\ req \in Frames
<1> USE DEF IInv
<1>1. ~(since < RespondTicks)  BY DEF PopAdvance, LoopInv, TypeOK, Cap
<1>2. /\ pc = "popped" /\ pc' = "serve" /\ UNCHANGED <<req, buf_, head_, drops_, accepted, served>>
      /\ tail_' = Mask(tail_ + 1)
  BY <1>1 DEF PopAdvance
<1>3. head_ # tail_ /\ req = buf_[tail_]  BY <1>2 DEF LoopInv
<1>4. Queue = <<req>> \o Queue'
  <2>1. Queue' = Contents(buf_, head_, Mask(tail_ + 1))
    BY <1>2 DEF Queue, Items, Contents
  <2>2. buf_ \in [Slots -> Entry] /\ head_ \in Slots /\ tail_ \in Slots  BY DEF TypeOK, Entry
  <2>3. Contents(buf_, head_, tail_) = <<buf_[tail_]>> \o Contents(buf_, head_, Mask(tail_ + 1))
    BY <1>3, <2>2, RingPop
  <2> QED BY <1>3, <2>1, <2>3, QueueIs
<1>5. InHand = <<>> /\ InHand' = <<req>>  BY <1>2 DEF InHand
<1>6. Queue \in Seq(Frames) /\ served \in Seq(Frames)  BY Somewhere DEF TypeOK
<1>7. Queue' \in Seq(Entry)
  <2>1. Queue' = Contents(buf_, head_, Mask(tail_ + 1))
    BY <1>2 DEF Queue, Items, Contents
  <2>2. buf_ \in [Slots -> Entry] /\ head_ \in Slots /\ tail_ \in Slots  BY DEF TypeOK, Entry
  <2>3. Mask(tail_ + 1) \in Slots  BY <2>2, MaskRange DEF Slots
  <2> QED BY <2>1, <2>2, <2>3, ContentsType
<1>8. req \in Frames
  <2>1. req \in Entry  BY DEF TypeOK, Entry
  <2>2. <<req>> \in Seq(Entry) /\ Len(<<req>>) = 1 /\ <<req>>[1] = req  BY <2>1
  <2> DEFINE q == Queue'  w == <<req>>
  <2>3. q \in Seq(Entry) /\ w \in Seq(Entry) /\ Len(w) = 1 /\ w[1] = req  BY <1>7, <2>2
  <2> HIDE DEF q, w
  <2>4. Len(q) \in Nat /\ Len(w \o q) = Len(w) + Len(q)
        /\ (1 \in 1 .. Len(w) + Len(q) => (w \o q)[1] = IF 1 <= Len(w) THEN w[1] ELSE q[1 - Len(w)])
    BY <2>3, ConcatProperties, LenProperties
  <2>5. 1 \in 1 .. Len(w \o q) /\ (w \o q)[1] = req  BY <2>3, <2>4
  <2>6. w \o q = Queue  BY <1>4 DEF w, q
  <2> QED BY <1>6, <2>5, <2>6, ElementOfSeq
<1>9. <<req>> \in Seq(Frames)  BY <1>8
<1>10. Queue' \in Seq(Frames)  BY <1>4, <1>6, <1>7, <1>9, SuffixType
<1>11. InHand \o Queue = Queue /\ InHand' \o Queue' = Queue
  BY <1>4, <1>5, <1>6, ConcatEmptySeq
<1>12. RingIsFifo'
  <2>1. served \o InHand = served  BY <1>5, <1>6, ConcatEmptySeq
  <2>2. accepted = served \o Queue  BY <2>1 DEF RingIsFifo
  <2> DEFINE q == Queue'  w == <<req>>
  <2>3. q \in Seq(Frames) /\ w \in Seq(Frames)  BY <1>9, <1>10
  <2> HIDE DEF q, w
  <2>4. served \o (w \o q) = (served \o w) \o q
    <3>1. served \in Seq(Frames)  BY <1>6
    <3> QED BY ONLY <2>3, <3>1, ConcatAssociative
  <2> QED BY <1>2, <1>4, <1>5, <2>2, <2>4 DEF RingIsFifo, q, w
<1> QED BY <1>2, <1>8, <1>11, <1>12

\* The request in hand is the oldest that waits.
LEMMA AnswerStep ==
  ASSUME IInv, Answer
  PROVE  /\ RingIsFifo' /\ served' \in Seq(Frames) /\ Len(served') = Len(served) + 1
         /\ [Promise!QNext]_<<InHand \o Queue, served>>
<1> USE DEF IInv
<1>1. /\ pc = "provider" /\ pc' = "decide" /\ served' = Append(served, req)
      /\ UNCHANGED <<ringVars, accepted>>
  BY DEF Answer
<1>2. req \in Frames  BY <1>1 DEF LoopInv
<1>3. Queue' = Queue  BY <1>1 DEF Queue, Items, ringVars
<1>4. InHand = <<req>> /\ InHand' = <<>>  BY <1>1 DEF InHand
<1>5. Queue \in Seq(Frames) /\ served \in Seq(Frames) /\ <<req>> \in Seq(Frames)
  BY <1>2, Somewhere DEF TypeOK
<1>6. /\ served' \in Seq(Frames) /\ Len(served') = Len(served) + 1
      /\ served' = served \o <<req>>
  BY <1>1, <1>2, <1>5, AppendProperties, AppendIsConcat
<1>7. RingIsFifo'
  <2>1. accepted = (served \o <<req>>) \o Queue  BY <1>4 DEF RingIsFifo
  <2>2. served' \o <<>> = served'  BY <1>6, ConcatEmptySeq
  <2> QED BY <1>1, <1>3, <1>4, <1>6, <2>1, <2>2 DEF RingIsFifo
<1>8. Promise!AnswerOldest
  <2> DEFINE w == <<req>> \o Queue
  <2>1. w \in Seq(Frames) /\ Len(w) = 1 + Len(Queue) /\ Len(Queue) \in Nat
        /\ w[1] = req /\ \A i \in 1 .. Len(Queue) : w[i + 1] = Queue[i]
    <3> DEFINE h == <<req>>
    <3>1. h \in Seq(Frames) /\ Len(h) = 1 /\ h[1] = req  BY <1>5
    <3>2. w = h \o Queue  OBVIOUS
    <3> HIDE DEF h, w
    <3>3. /\ h \o Queue \in Seq(Frames) /\ Len(h \o Queue) = Len(h) + Len(Queue)
          /\ \A i \in 1 .. Len(h) + Len(Queue) :
               (h \o Queue)[i] = IF i <= Len(h) THEN h[i] ELSE Queue[i - Len(h)]
      <4> DEFINE q == Queue
      <4>1. q \in Seq(Frames)  BY <1>5
      <4> HIDE DEF q
      <4>2. /\ h \o q \in Seq(Frames) /\ Len(h \o q) = Len(h) + Len(q)
            /\ \A i \in 1 .. Len(h) + Len(q) :
                 (h \o q)[i] = IF i <= Len(h) THEN h[i] ELSE q[i - Len(h)]
        BY ONLY <3>1, <4>1, ConcatProperties
      <4> QED BY ONLY <4>2 DEF q
    <3>4. Len(Queue) \in Nat  BY <1>5, LenProperties
    <3>5. ASSUME NEW i \in 1 .. Len(Queue) PROVE w[i + 1] = Queue[i]
      <4>1. i + 1 \in 1 .. Len(h) + Len(Queue) /\ ~(i + 1 <= Len(h)) /\ (i + 1) - Len(h) = i
        BY <3>1, <3>4
      <4>2. w[i + 1] = Queue[(i + 1) - Len(h)]  BY <3>2, <3>3, <4>1
      <4> QED BY <4>1, <4>2
    <3>6. 1 \in 1 .. Len(h) + Len(Queue) /\ 1 <= Len(h)  BY <3>1, <3>4
    <3>7. w[1] = req  BY <3>1, <3>2, <3>3, <3>6
    <3> QED BY <3>1, <3>2, <3>3, <3>4, <3>5, <3>7
  <2> HIDE DEF w
  <2>2. w # <<>>  BY <2>1, EmptySeq
  <2>3. Head(w) = req  BY <2>1, <2>2
  <2>4. Tail(w) = Queue
    <3>1. /\ Tail(w) \in Seq(Frames) /\ Len(Tail(w)) = Len(w) - 1
          /\ \A i \in 1 .. Len(Tail(w)) : Tail(w)[i] = w[i + 1]
      BY <2>1, <2>2, HeadTailProperties
    <3>2. Len(Tail(w)) = Len(Queue)  BY <2>1, <3>1
    <3>3. \A i \in 1 .. Len(Tail(w)) : Tail(w)[i] = Queue[i]  BY <2>1, <3>1, <3>2
    <3> QED BY <1>5, <3>1, <3>2, <3>3, SeqEqual
  <2>5. InHand \o Queue = w /\ (InHand \o Queue)' = Queue
    BY <1>3, <1>4, <1>5, ConcatEmptySeq DEF w
  <2> QED BY <1>1, <2>2, <2>3, <2>4, <2>5 DEF Promise!AnswerOldest
<1> QED BY <1>6, <1>7, <1>8 DEF Promise!QNext

LEMMA Shift ==
  \A m, a, b, s, r \in Int : m + a <= s /\ r - b >= s - a => m + b <= r
  OBVIOUS

\* The interrupt and the clock.
LEMMA TickStep ==
  ASSUME IInv, Tick
  PROVE  IInv' /\ [Promise!QNext]_<<InHand \o Queue, served>>
<1> USE DEF IInv
<1>1. UNCHANGED <<pc, req, tail_, provider_, probing, valid_, served>>
  BY DEF Tick, StartBit, DataBits, StopBit, Silence, Push, ringVars
<1>2. since' \in 0 .. Cap /\ uptime' \in 0 .. WindowTicks /\ since' >= since
  <2>1. since \in 0 .. Cap /\ Cap \in Nat /\ uptime \in 0 .. WindowTicks  BY DEF TypeOK, Cap
  <2> HIDE DEF Cap
  <2> QED BY <2>1 DEF Tick
<1>3. Len(accepted) \in Nat /\ drops_ \in Nat /\ served \in Seq(Frames) /\ accepted \in Seq(Frames)
  BY DEF TypeOK
<1>4. CASE StopBit /\ Push(sent, tail_)
  <2>1. wire = FrameTicks /\ wire' = 0 /\ sent' = sent /\ OnWire = 1 /\ OnWire' = 0
    BY <1>4 DEF StopBit, OnWire
  <2>2. sent \in Frames  BY <1>3, <2>1 DEF Counted, TypeOK, Frames
  <2>3. /\ \/ accepted' = accepted /\ drops_' = drops_ + 1 /\ UNCHANGED <<buf_, head_>>
           \/ /\ accepted' = Append(accepted, sent) /\ drops_' = drops_
              /\ buf_' = [buf_ EXCEPT ![head_] = sent] /\ head_' = Mask(head_ + 1)
        /\ isr_state_' \in {"READY", "COLLECTING"} /\ synced' \in BOOLEAN
    BY <1>4 DEF StopBit, Push, TypeOK, isrVars
  <2>4. /\ accepted' \in Seq(Frames) /\ Len(accepted') + drops_' <= sent /\ drops_' \in Nat
        /\ Len(accepted') \in Nat
        /\ \A i \in 1 .. Len(accepted') : accepted'[i] <= sent
    <3>1. Len(accepted) + drops_ + 1 <= sent
          /\ \A i \in 1 .. Len(accepted) : accepted[i] + 1 <= sent
      BY <2>1 DEF Counted
    <3>2. \A i \in 1 .. Len(accepted) : accepted[i] \in Frames  BY <1>3, ElementOfSeq
    <3>3. CASE accepted' = accepted /\ drops_' = drops_ + 1
      BY <1>3, <2>2, <3>1, <3>2, <3>3 DEF Frames
    <3>4. CASE accepted' = Append(accepted, sent) /\ drops_' = drops_
      <4> DEFINE a == Append(accepted, sent)
      <4>1. /\ a \in Seq(Frames) /\ Len(a) = Len(accepted) + 1 /\ a[Len(accepted) + 1] = sent
            /\ \A i \in 1 .. Len(accepted) : a[i] = accepted[i]
        BY <1>3, <2>2, AppendProperties
      <4> HIDE DEF a
      <4>2. ASSUME NEW i \in 1 .. Len(a) PROVE a[i] <= sent
        <5>1. i \in 1 .. Len(accepted) \/ i = Len(accepted) + 1  BY <1>3, <4>1
        <5>2. CASE i = Len(accepted) + 1  BY <2>2, <4>1, <5>2 DEF Frames
        <5>3. CASE i \in 1 .. Len(accepted)
          BY <2>2, <3>1, <3>2, <4>1, <5>3 DEF Frames
        <5> QED BY <5>1, <5>2, <5>3
      <4>3. Len(a) + drops_ <= sent /\ Len(a) \in Nat  BY <1>3, <2>2, <3>1, <4>1 DEF Frames
      <4>4. accepted' = a /\ drops_' = drops_  BY <3>4 DEF a
      <4> QED BY <1>3, <4>1, <4>2, <4>3, <4>4
    <3> QED BY <2>3, <3>3, <3>4
  <2>5. TypeOK'
    <3>1. buf_' \in [Slots -> Frames \cup {NoReq}] /\ head_' \in Slots
      <4>1. buf_ \in [Slots -> Frames \cup {NoReq}] /\ head_ \in Slots  BY DEF TypeOK
      <4>2. Mask(head_ + 1) \in Slots  BY <4>1, MaskRange DEF Slots
      <4> QED BY <2>2, <2>3, <4>1, <4>2
    <3>2. drops_' \in 0 .. MaxFrames  BY <2>2, <2>4 DEF Frames
    <3>3. wire' \in 0 .. FrameTicks /\ sent' \in 0 .. MaxFrames  BY <2>1 DEF TypeOK
    <3>4. /\ pc' \in {"idle", "read", "popped", "serve", "provider", "decide"}
          /\ req' \in Frames \cup {NoReq} /\ tail_' \in Slots
          /\ provider_' \in BOOLEAN /\ probing' \in BOOLEAN
          /\ valid_' \in 0 .. MaxFrames /\ served' \in Seq(Frames)
      BY <1>1 DEF TypeOK
    <3> QED BY <1>2, <2>3, <2>4, <3>1, <3>2, <3>3, <3>4 DEF TypeOK
  <2>6. LoopInv'
    <3>1. pc \in {"read", "popped"} => buf_'[tail_] = buf_[tail_] /\ head_' # tail_
      <4>1. head_ \in Slots /\ tail_ \in Slots /\ buf_ \in [Slots -> Frames \cup {NoReq}]
        BY DEF TypeOK
      <4>2. Mask(head_ + 1) = tail_ => UNCHANGED <<buf_, head_>>  BY <1>4 DEF Push
      <4>3. Mask(head_ + 1) # tail_ => buf_' = [buf_ EXCEPT ![head_] = sent] /\ head_' = Mask(head_ + 1)
        BY <1>4 DEF Push
      <4> QED BY <4>1, <4>2, <4>3 DEF LoopInv
    <3>2. pc # "provider" => since' >= RespondTicks
      <4>1. since \in Int /\ since' \in Int  BY <1>2 DEF TypeOK, Cap
      <4> QED BY <1>2, <4>1 DEF LoopInv
    <3> QED BY <1>1, <3>1, <3>2 DEF LoopInv
  <2>7. Counted'  BY <1>1, <2>1, <2>2, <2>4 DEF Counted, Frames
  <2>8. RingIsFifo' /\ [Promise!QNext]_<<InHand \o Queue, served>>
    BY <1>1, <1>4, <2>5, PushStep
  <2> QED BY <2>5, <2>6, <2>7, <2>8
<1>5. CASE UNCHANGED <<buf_, head_, drops_, accepted>>
  <2>1. Quiet  BY <1>1, <1>5 DEF Quiet
  <2>2. InHand' = InHand  BY <1>1 DEF InHand
  <2>3. RingIsFifo' /\ UNCHANGED <<InHand \o Queue, served>>  BY <1>1, <2>1, <2>2, StillQueue
  <2>4. /\ wire' \in 0 .. FrameTicks /\ sent' \in 0 .. MaxFrames
        /\ sent' - OnWire' >= sent - OnWire
        /\ isr_state_' \in {"READY", "COLLECTING"} /\ synced' \in BOOLEAN
    <3>1. wire \in 0 .. FrameTicks /\ sent \in 0 .. MaxFrames /\ synced \in BOOLEAN
          /\ isr_state_ \in {"READY", "COLLECTING"}
      BY DEF TypeOK
    <3>2. CASE StartBit
      <4>1. /\ wire = 0 /\ wire' = 1 /\ sent' = sent + 1 /\ sent < MaxFrames
            /\ isr_state_' \in {"READY", "COLLECTING"} /\ synced' \in BOOLEAN
        BY <3>2 DEF StartBit
      <4>2. OnWire = 0 /\ OnWire' = 1  BY <4>1 DEF OnWire
      <4> QED BY <3>1, <4>1, <4>2
    <3>3. CASE DataBits
      <4>1. wire \in 1 .. FrameTicks - 1 /\ wire' = wire + 1 /\ UNCHANGED sent  BY <3>3 DEF DataBits
      <4>2. wire' \in 0 .. FrameTicks /\ OnWire = 1 /\ OnWire' = 1  BY <4>1 DEF OnWire
      <4>3. isr_state_' = "COLLECTING" /\ synced' \in BOOLEAN  BY <3>3 DEF DataBits
      <4> QED BY <3>1, <4>1, <4>2, <4>3
    <3>4. CASE StopBit
      <4>1. wire' = 0 /\ UNCHANGED sent /\ OnWire = 1 /\ OnWire' = 0
        BY <3>4 DEF StopBit, OnWire
      <4>2. isr_state_' \in {"READY", "COLLECTING"} /\ synced' \in BOOLEAN
        BY <3>1, <3>4 DEF StopBit, isrVars
      <4> QED BY <3>1, <4>1, <4>2
    <3>5. CASE Silence  BY <3>1, <3>5 DEF Silence, wireVars, isrVars, OnWire
    <3> QED BY <3>2, <3>3, <3>4, <3>5 DEF Tick
  <2>5. TypeOK'  BY <1>1, <1>2, <1>5, <2>4 DEF TypeOK
  <2>6. LoopInv'
    <3>1. since \in Int /\ since' \in Int  BY <1>2 DEF TypeOK, Cap
    <3> QED BY <1>1, <1>2, <1>5, <3>1 DEF LoopInv
  <2>7. Counted'
    <3>1. sent \in Int /\ sent' \in Int /\ OnWire \in Int /\ OnWire' \in Int
      BY <2>4 DEF TypeOK, OnWire
    <3>2. \A i \in 1 .. Len(accepted) : accepted[i] \in Int
      <4>1. \A i \in 1 .. Len(accepted) : accepted[i] \in Frames  BY <1>3, ElementOfSeq
      <4> QED BY <4>1 DEF Frames
    <3>3. Len(accepted) + drops_ \in Int  BY <1>3
    <3>4. /\ (Len(accepted) + drops_) + OnWire <= sent
          /\ \A i \in 1 .. Len(accepted) : accepted[i] + OnWire <= sent
      BY DEF Counted
    <3>5. sent' - OnWire' >= sent - OnWire  BY <2>4
    <3>6. (Len(accepted) + drops_) + OnWire' <= sent'  BY <3>1, <3>3, <3>4, <3>5, Shift
    <3>7. \A i \in 1 .. Len(accepted) : accepted[i] + OnWire' <= sent'
      BY <3>1, <3>2, <3>4, <3>5, Shift
    <3> QED BY <1>1, <1>5, <3>6, <3>7 DEF Counted
  <2> QED BY <2>3, <2>5, <2>6, <2>7
<1>6. (StopBit /\ Push(sent, tail_)) \/ UNCHANGED <<buf_, head_, drops_, accepted>>
  BY DEF Tick, StartBit, DataBits, StopBit, Silence, ringVars
<1> QED BY <1>4, <1>5, <1>6

\* The steps of the loop that move no request.
Plain == LoopStart \/ PopRead \/ Serve \/ Decide \/ Noise

LEMMA PlainStep ==
  ASSUME IInv, Plain
  PROVE  IInv' /\ UNCHANGED <<InHand \o Queue, served>>
<1> USE DEF IInv
<1>1. UNCHANGED <<wire, sent, buf_, head_, tail_, drops_, accepted, served>>
  BY DEF Plain, LoopStart, PopRead, Serve, Decide, Noise, wireVars, ringVars
<1>2. InHand' = InHand
  BY DEF Plain, LoopStart, PopRead, Serve, Decide, Noise, InHand
<1>3. RingIsFifo' /\ UNCHANGED <<InHand \o Queue, served>>
  BY <1>1, <1>2, StillQueue DEF Quiet
<1>4. Len(accepted) \in Nat /\ Len(served) \in Nat /\ drops_ \in Nat /\ sent \in 0 .. MaxFrames
  BY DEF TypeOK
<1>5. Counted'
  <2>1. OnWire' = OnWire  BY <1>1 DEF OnWire
  <2>2. valid_' = Len(served) + (IF pc' = "provider" THEN 1 ELSE 0)
    BY <1>4 DEF Plain, LoopStart, PopRead, Serve, Decide, Noise, Counted
  <2> QED BY <1>1, <2>1, <2>2 DEF Counted
<1>6. LoopInv'
  BY <1>1, <1>2 DEF Plain, LoopStart, PopRead, Serve, Decide, Noise, LoopInv, TypeOK, Cap, isrVars
<1>7. valid_' \in 0 .. MaxFrames
  <2>1. CASE Serve
    <3>1. InHand = <<req>> /\ Len(InHand) = 1  BY <2>1 DEF Serve, InHand
    <3>2. Len(accepted) = Len(served) + Len(Waiting) /\ Len(Waiting) = Len(InHand) + Len(Queue)
          /\ Len(Queue) \in Nat
      BY Somewhere, LenProperties
    <3>3. valid_ = Len(served) /\ valid_' = valid_ + 1
      BY <1>4, <2>1 DEF Serve, Counted
    <3>4. OnWire \in 0 .. 1 /\ Len(accepted) + drops_ + OnWire <= sent
      BY DEF OnWire, Counted
    <3> QED BY <1>4, <3>1, <3>2, <3>3, <3>4
  <2>2. CASE ~Serve
    BY <2>2 DEF Plain, LoopStart, PopRead, Decide, Noise, TypeOK
  <2> QED BY <2>1, <2>2
<1>8. TypeOK'
  <2>1. req' \in Frames \cup {NoReq}
    BY DEF Plain, LoopStart, PopRead, Serve, Decide, Noise, TypeOK
  <2>2. /\ isr_state_' \in {"READY", "COLLECTING"} /\ synced' \in BOOLEAN
        /\ pc' \in {"idle", "read", "popped", "serve", "provider", "decide"}
        /\ provider_' \in BOOLEAN /\ probing' \in BOOLEAN
    <3>1. isr_state_' \in {"READY", "COLLECTING"}
      BY DEF Plain, LoopStart, PopRead, Serve, Decide, Noise, TypeOK, isrVars
    <3>2. synced' \in BOOLEAN
      BY Zenon DEF Plain, LoopStart, PopRead, Serve, Decide, Noise, TypeOK, isrVars
    <3>3. pc' \in {"idle", "read", "popped", "serve", "provider", "decide"}
      BY DEF Plain, LoopStart, PopRead, Serve, Decide, Noise, TypeOK
    <3>4. provider_' \in BOOLEAN /\ probing' \in BOOLEAN
      <4>1. (valid_ >= MinFrames) \in BOOLEAN  BY SMT
      <4> QED BY <4>1, Zenon DEF Plain, LoopStart, PopRead, Serve, Decide, Noise, TypeOK, roleVars
    <3> QED BY <3>1, <3>2, <3>3, <3>4
  <2>3. since' \in 0 .. Cap /\ uptime' \in 0 .. WindowTicks
    BY DEF Plain, LoopStart, PopRead, Serve, Decide, Noise, TypeOK, roleVars, Cap
  <2> QED BY <1>1, <1>7, <2>1, <2>2, <2>3 DEF TypeOK
<1> QED BY <1>3, <1>5, <1>6, <1>8

LEMMA StepHolds ==
  ASSUME IInv, [Next]_vars
  PROVE  IInv' /\ [Promise!QNext]_<<InHand \o Queue, served>>
<1>1. CASE Tick  BY <1>1, TickStep
<1>2. CASE Plain  BY <1>2, PlainStep
<1>3. CASE PopAdvance
  <2> USE DEF IInv
  <2>1. /\ RingIsFifo' /\ UNCHANGED <<InHand \o Queue, served>>
        /\ UNCHANGED <<buf_, head_, drops_, accepted, req>> /\ pc' = "serve"
        /\ tail_' = Mask(tail_ + 1) /\ req \in Frames
    BY <1>3, PopStep
  <2>2. /\ UNCHANGED <<wire, sent, isr_state_, synced, since, provider_, probing, uptime, valid_, served>>
        /\ pc = "popped"
    BY <1>3 DEF PopAdvance, wireVars, isrVars, roleVars
  <2>3. tail_' \in Slots
    <3>1. tail_ + 1 \in Int  BY DEF TypeOK, Slots
    <3> QED BY <2>1, <3>1, MaskRange
  <2>4. TypeOK'  BY <2>1, <2>2, <2>3 DEF TypeOK
  <2>5. LoopInv'  BY <2>1, <2>2 DEF LoopInv
  <2>6. Counted'  BY <2>1, <2>2 DEF Counted, OnWire
  <2> QED BY <2>1, <2>4, <2>5, <2>6
<1>4. CASE Answer
  <2> USE DEF IInv
  <2>1. /\ RingIsFifo' /\ served' \in Seq(Frames) /\ Len(served') = Len(served) + 1
        /\ [Promise!QNext]_<<InHand \o Queue, served>>
    BY <1>4, AnswerStep
  <2>2. /\ UNCHANGED <<wire, sent, isr_state_, synced, buf_, head_, tail_, drops_, since,
                       provider_, probing, uptime, valid_, accepted>>
        /\ pc = "provider" /\ pc' = "decide" /\ req' = NoReq /\ since >= AnswerTicks
    BY <1>4 DEF Answer, wireVars, isrVars, ringVars, roleVars
  <2>3. TypeOK'  BY <2>1, <2>2 DEF TypeOK
  <2>4. LoopInv'
    <3>1. since \in Int  BY DEF TypeOK, Cap
    <3> QED BY <2>2, <3>1 DEF LoopInv
  <2>5. Counted'
    <3>1. Len(served) \in Nat  BY DEF TypeOK
    <3> QED BY <2>1, <2>2, <3>1 DEF Counted, OnWire
  <2> QED BY <2>1, <2>3, <2>4, <2>5
<1>5. CASE UNCHANGED vars
  <2>1. InHand' = InHand /\ Queue' = Queue
    BY <1>5 DEF vars, InHand, Queue, Items
  <2>2. TypeOK'  BY <1>5 DEF vars, IInv, TypeOK
  <2>3. RingIsFifo'  BY <1>5, <2>1 DEF vars, IInv, RingIsFifo
  <2>4. LoopInv'  BY <1>5 DEF vars, IInv, LoopInv
  <2>5. Counted'  BY <1>5 DEF vars, IInv, Counted, OnWire
  <2> QED BY <1>5, <2>1, <2>2, <2>3, <2>4, <2>5 DEF IInv, vars
<1> QED BY <1>1, <1>2, <1>3, <1>4, <1>5 DEF Next, LoopStep, Plain
-----------------------------------------------------------------------------
(* The theorems *)

LEMMA Invariance == Spec => []IInv
<1>1. Init => IInv  BY InitHolds
<1>2. IInv /\ [Next]_vars => IInv'  BY StepHolds
<1> QED BY <1>1, <1>2, PTL DEF Spec

\* Indices, counters and stored requests keep their types: the indices never
\* leave the ring, whatever its size and the pace of the thermostat.
THEOREM SlaveTypeCorrect == Spec => []TypeOK
<1>1. IInv => TypeOK  BY DEF IInv
<1> QED BY <1>1, Invariance, PTL

\* No accepted request is lost, repeated or reordered between the interrupt and
\* the answer (OtFifo::push and pop, OtSlave::service).
THEOREM RingKeepsOrder == Spec => []RingIsFifo
<1>1. IInv => RingIsFifo  BY DEF IInv
<1> QED BY <1>1, Invariance, PTL

\* The interrupt, the ring and the three-step pop implement the queue that
\* RequestQueue describes.
THEOREM SlaveIsAQueue == Spec => IsAQueue
<1>1. Init => Promise!QInit
  <2> SUFFICES ASSUME Init PROVE InHand \o Queue = <<>> /\ served = <<>>
    BY DEF Promise!QInit
  <2>1. TypeOK  BY InitHolds DEF IInv
  <2>2. Queue \in Seq(Entry) /\ Len(Queue) = 0
    <3>1. Mask(head_ - tail_) = 0  BY MaskLap DEF Init
    <3> QED BY <2>1, <3>1, QueueIs
  <2>3. Queue = <<>> /\ InHand = <<>>  BY <2>2, EmptySeq DEF Init, InHand
  <2>4. <<>> \o <<>> = <<>>  BY ConcatEmptySeq, EmptySeq
  <2> QED BY <2>3, <2>4 DEF Init
<1>2. IInv /\ [Next]_vars => [Promise!QNext]_(Promise!qvars)
  BY StepHolds DEF Promise!qvars
<1> QED BY <1>1, <1>2, Invariance, PTL DEF Spec, IsAQueue, Promise!QSpec
=============================================================================
