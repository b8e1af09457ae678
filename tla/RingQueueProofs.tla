--------------------------- MODULE RingQueueProofs ---------------------------
(***************************************************************************)
(* Facts about the queue helpers, for a queue of any size and addresses of *)
(* any width: what they return, and that they keep a well-formed queue     *)
(* well formed.                                                            *)
(***************************************************************************)
EXTENDS RingQueue, SequenceTheorems, TLAPS

(* The constants are typed as every other lemma needs them: slot 0 exists, *)
(* and 0 is an address like any other.                                     *)
LEMMA QueueConstants ==
  /\ NUM_POSSIBLE_VIRTINES \in Nat
  /\ 0 \in Slots
  /\ Zero \in Hwaddr
  /\ Virtine \subseteq Hwaddr
BY NumAssumption DEF Slots, Zero, Hwaddr, Virtine, Word, ZeroWord

(* The queue that realize sets up has its pointers inside the buffer.      *)
LEMMA EmptyQueueType == EmptyQueue \in Queue
BY QueueConstants DEF EmptyQueue, Queue

(* next_element stays inside the buffer.                                   *)
LEMMA NextElementType ==
  ASSUME NEW p \in Slots
  PROVE  NextElement(p) \in Slots
BY NumAssumption DEF Slots, NextElement, EndOfQueue

(* pop_head returns an address and leaves a queue.                         *)
LEMMA PopHeadType ==
  ASSUME NEW q \in Queue
  PROVE  HeadValue(q) \in Hwaddr /\ PopHead(q) \in Queue
<1>1. q.head \in Slots /\ q.buffer \in [Slots -> Hwaddr] /\ q.tail \in Slots
  BY DEF Queue
<1>2. HeadValue(q) \in Hwaddr
  BY <1>1 DEF HeadValue
<1>3. NextElement(q.head) \in Slots
  BY <1>1, NextElementType
<1>4. [q.buffer EXCEPT ![q.head] = Zero] \in [Slots -> Hwaddr]
  BY <1>1, QueueConstants
<1>5. [q EXCEPT !.buffer[q.head] = Zero, !.head = NextElement(q.head)] \in Queue
  BY <1>1, <1>3, <1>4 DEF Queue
<1> QED
  BY <1>2, <1>5 DEF PopHead

(* insert_tail leaves a queue.                                             *)
LEMMA InsertTailType ==
  ASSUME NEW q \in Queue, NEW v \in Hwaddr
  PROVE  InsertTail(q, v) \in Queue
<1>1. q.head \in Slots /\ q.buffer \in [Slots -> Hwaddr] /\ q.tail \in Slots
  BY DEF Queue
<1>2. NextElement(q.tail) \in Slots
  BY <1>1, NextElementType
<1>3. [q.buffer EXCEPT ![q.tail] = v] \in [Slots -> Hwaddr]
  BY <1>1
<1>4. [q EXCEPT !.buffer[q.tail] = v, !.tail = NextElement(q.tail)] \in Queue
  BY <1>1, <1>2, <1>3 DEF Queue
<1> QED
  BY <1>4 DEF InsertTail

(* The empty queue is well formed. *)
LEMMA EmptyQueueWellFormed == WellFormed(EmptyQueue) /\ Occupancy(EmptyQueue) = 0
<1>1. Occupancy(EmptyQueue) = 0
  BY QueueConstants DEF Occupancy, EmptyQueue
<1>2. ASSUME NEW s \in Slots
      PROVE  EmptyQueue.buffer[s] = Zero /\ Distance(EmptyQueue, s) = s
  BY NumAssumption DEF EmptyQueue, Distance, Slots
<1>3. ASSUME NEW s \in Slots
      PROVE  ~(Distance(EmptyQueue, s) < Occupancy(EmptyQueue))
  BY <1>1, <1>2, NumAssumption DEF Slots
<1> QED
  BY <1>1, <1>2, <1>3, EmptyQueueType DEF WellFormed

(* How many virtines are in a queue, and how far a slot is from its head.  *)
LEMMA OccupancyType ==
  ASSUME NEW q \in Queue
  PROVE  /\ Occupancy(q) \in 0 .. NUM_POSSIBLE_VIRTINES
         /\ \A s \in Slots : Distance(q, s) \in Slots
<1>1. q.head \in Slots /\ q.tail \in Slots
  BY DEF Queue
<1> QED
  BY <1>1, NumAssumption DEF Occupancy, Distance, Slots

(* The value tests of pop_head and insert_tail tell an empty from a full   *)
(* queue: a well-formed queue can be popped unless it is empty, can take a *)
(* virtine unless it is full, and 0 at its head means that it is empty.    *)
LEMMA ValueTests ==
  ASSUME NEW q, WellFormed(q)
  PROVE  /\ CanPop(q) <=> Occupancy(q) > 0
         /\ CanInsert(q) <=> Occupancy(q) < NUM_POSSIBLE_VIRTINES
         /\ HeadValue(q) = Zero <=> Occupancy(q) = 0
<1>1. q \in Queue
  BY DEF WellFormed
<1>2. q.head \in Slots /\ q.tail \in Slots
  BY <1>1 DEF Queue
<1>3. Distance(q, q.head) = 0
  BY <1>2, NumAssumption DEF Distance, Slots
<1>4. HeadValue(q) # Zero <=> 0 < Occupancy(q)
  BY <1>2, <1>3 DEF WellFormed, HeadValue
<1>5. Occupancy(q) \in 0 .. NUM_POSSIBLE_VIRTINES
  BY <1>1, OccupancyType
<1>6. CASE q.head = q.tail
  BY <1>2, <1>4, <1>5, <1>6, NumAssumption DEF CanPop, CanInsert, Occupancy, HeadValue
<1>7. CASE q.head # q.tail
  <2>1. Occupancy(q) \in 1 .. NUM_POSSIBLE_VIRTINES - 1
    BY <1>2, <1>7, NumAssumption DEF Occupancy, Distance, Slots
  <2> QED
    BY <2>1, <1>4, <1>5, <1>7, NumAssumption DEF CanPop, CanInsert
<1> QED
  BY <1>6, <1>7

(* Distance numbers the slots from head on: no two slots are equally far.  *)
LEMMA DistanceInjective ==
  ASSUME NEW q \in Queue, NEW s \in Slots, NEW t \in Slots,
         Distance(q, s) = Distance(q, t)
  PROVE  s = t
<1>1. q.head \in Slots
  BY DEF Queue
<1> QED
  BY <1>1, NumAssumption DEF Distance, Slots

(* SlotAt finds the slot at a given distance from head.                    *)
LEMMA SlotAtDistance ==
  ASSUME NEW q \in Queue, NEW i \in 1 .. NUM_POSSIBLE_VIRTINES
  PROVE  SlotAt(q, i) \in Slots /\ Distance(q, SlotAt(q, i)) = i - 1
<1>1. q.head \in Slots
  BY DEF Queue
<1> QED
  BY <1>1, NumAssumption DEF Distance, SlotAt, Slots

(* The queue insert_tail leaves when there is room: one more virtine, in   *)
(* the slot that was Occupancy(q) away from head.                          *)
LEMMA InsertTailEffect ==
  ASSUME NEW q, WellFormed(q), NEW v \in Virtine,
         Occupancy(q) < NUM_POSSIBLE_VIRTINES
  PROVE  LET r == InsertTail(q, v)
         IN  /\ r.head = q.head
             /\ q.tail \in Slots
             /\ Distance(q, q.tail) = Occupancy(q)
             /\ r.buffer = [q.buffer EXCEPT ![q.tail] = v]
             /\ r.tail # q.tail
             /\ Occupancy(r) = Occupancy(q) + 1
             /\ WellFormed(r)
<1> DEFINE r == InsertTail(q, v)
<1>1. q \in Queue /\ v \in Hwaddr /\ v # Zero
  BY DEF WellFormed, Virtine
<1>2. q.head \in Slots /\ q.tail \in Slots /\ q.buffer \in [Slots -> Hwaddr]
  BY <1>1 DEF Queue
<1>3. r = [q EXCEPT !.buffer[q.tail] = v, !.tail = NextElement(q.tail)]
  BY ValueTests DEF InsertTail
<1>4. r \in Queue
  BY <1>1, InsertTailType
<1>5. /\ r.head = q.head
      /\ r.tail = NextElement(q.tail)
      /\ r.buffer = [q.buffer EXCEPT ![q.tail] = v]
  BY <1>1, <1>3 DEF Queue
<1>6. Occupancy(q) \in 0 .. NUM_POSSIBLE_VIRTINES
  BY <1>1, OccupancyType
<1>7. Distance(q, q.tail) = Occupancy(q)
  <2>1. CASE q.head = q.tail
    BY <2>1, <1>2, NumAssumption DEF Occupancy, Distance, Slots
  <2>2. CASE q.head # q.tail
    BY <2>2 DEF Occupancy
  <2> QED
    BY <2>1, <2>2
<1>8. \A s \in Slots : Distance(r, s) = Distance(q, s)
  BY <1>5 DEF Distance
<1>9. Occupancy(r) = Occupancy(q) + 1
  <2>1. CASE r.tail # q.head
    <3>1. Occupancy(r) = Distance(q, NextElement(q.tail))
      BY <2>1, <1>2, <1>5, <1>8, NextElementType DEF Occupancy
    <3> QED
      BY <3>1, <2>1, <1>2, <1>5, <1>7, NumAssumption
      DEF Distance, NextElement, EndOfQueue, Slots
  <2>2. CASE r.tail = q.head
    <3>1. Occupancy(q) = NUM_POSSIBLE_VIRTINES - 1 /\ q.head # q.tail
      BY <2>2, <1>2, <1>5, <1>7, NumAssumption
      DEF Distance, NextElement, EndOfQueue, Slots
    <3>2. Distance(q, q.head) = 0
      BY <1>2, NumAssumption DEF Distance, Slots
    <3>3. q.buffer[q.head] # Zero
      BY <3>1, <3>2, <1>2, NumAssumption DEF WellFormed
    <3>4. r.buffer[r.head] # Zero
      BY <3>1, <3>3, <1>2, <1>5
    <3> QED
      BY <2>2, <3>1, <3>4, <1>5, NumAssumption DEF Occupancy
  <2> QED
    BY <2>1, <2>2
<1>10. ASSUME NEW s \in Slots
       PROVE  r.buffer[s] # Zero <=> Distance(r, s) < Occupancy(r)
  <2>1. Distance(q, s) \in Slots
    BY <1>1, OccupancyType
  <2>2. CASE s = q.tail
    BY <2>1, <2>2, <1>1, <1>2, <1>5, <1>6, <1>7, <1>8, <1>9
  <2>3. CASE s # q.tail
    <3>1. Distance(q, s) # Occupancy(q)
      BY <2>3, <1>1, <1>2, <1>7, DistanceInjective
    <3>2. r.buffer[s] = q.buffer[s]
      BY <2>3, <1>2, <1>5
    <3>3. q.buffer[s] # Zero <=> Distance(q, s) < Occupancy(q)
      BY DEF WellFormed
    <3> QED
      BY <3>1, <3>2, <3>3, <2>1, <1>6, <1>8, <1>9, NumAssumption DEF Slots
  <2> QED
    BY <2>2, <2>3
<1>11. r.tail # q.tail
  BY <1>2, <1>5, NumAssumption DEF NextElement, EndOfQueue, Slots
<1> QED
  BY <1>2, <1>4, <1>5, <1>7, <1>9, <1>10, <1>11 DEF WellFormed

(* The queue pop_head leaves when there is something to pop.               *)
LEMMA PopHeadEffect ==
  ASSUME NEW q, WellFormed(q), Occupancy(q) > 0
  PROVE  LET r == PopHead(q)
         IN  /\ HeadValue(q) \in Virtine
             /\ q.head \in Slots
             /\ r.head = NextElement(q.head)
             /\ r.buffer = [q.buffer EXCEPT ![q.head] = Zero]
             /\ Occupancy(r) = Occupancy(q) - 1
             /\ WellFormed(r)
<1> DEFINE r == PopHead(q)
<1>1. q \in Queue
  BY DEF WellFormed
<1>2. q.head \in Slots /\ q.tail \in Slots /\ q.buffer \in [Slots -> Hwaddr]
  BY <1>1 DEF Queue
<1>3. r = [q EXCEPT !.buffer[q.head] = Zero, !.head = NextElement(q.head)]
  BY ValueTests DEF PopHead
<1>4. r \in Queue
  BY <1>1, PopHeadType
<1>5. /\ r.head = NextElement(q.head)
      /\ r.tail = q.tail
      /\ r.buffer = [q.buffer EXCEPT ![q.head] = Zero]
  BY <1>1, <1>3 DEF Queue
<1>6. Occupancy(q) \in 1 .. NUM_POSSIBLE_VIRTINES
  BY <1>1, OccupancyType
<1>7. HeadValue(q) \in Virtine
  <2>1. HeadValue(q) # Zero
    BY ValueTests, <1>6
  <2> QED
    BY <2>1, <1>1, PopHeadType DEF Virtine
<1>8. ASSUME NEW s \in Slots
      PROVE  Distance(r, s) = IF s = q.head THEN NUM_POSSIBLE_VIRTINES - 1
                              ELSE Distance(q, s) - 1
  <2>1. CASE q.head = EndOfQueue
    <3>1. r.head = 0
      BY <2>1, <1>5 DEF NextElement
    <3> QED
      BY <2>1, <3>1, <1>2, NumAssumption DEF Distance, EndOfQueue, Slots
  <2>2. CASE q.head # EndOfQueue
    <3>1. r.head = q.head + 1
      BY <2>2, <1>5 DEF NextElement
    <3> QED
      BY <2>2, <3>1, <1>2, NumAssumption DEF Distance, EndOfQueue, Slots
  <2> QED
    BY <2>1, <2>2
<1>9. Occupancy(r) = Occupancy(q) - 1
  <2>1. CASE r.head # r.tail
    <3>1. CASE q.head = q.tail
      <4>1. Occupancy(q) = NUM_POSSIBLE_VIRTINES
        BY <3>1, <1>6 DEF Occupancy
      <4>2. Occupancy(r) = NUM_POSSIBLE_VIRTINES - 1
        BY <2>1, <3>1, <1>2, <1>5, <1>8 DEF Occupancy
      <4> QED
        BY <4>1, <4>2
    <3>2. CASE q.head # q.tail
      BY <2>1, <3>2, <1>2, <1>5, <1>8 DEF Occupancy
    <3> QED
      BY <3>1, <3>2
  <2>2. CASE r.head = r.tail
    <3>1. q.head # q.tail /\ Distance(q, q.tail) = 1
      <4>1. q.tail = NextElement(q.head)
        BY <2>2, <1>5
      <4> QED
        BY <4>1, <1>2, NumAssumption DEF Distance, NextElement, EndOfQueue, Slots
    <3>2. Occupancy(q) = 1
      BY <3>1 DEF Occupancy
    <3>3. q.buffer[q.tail] = Zero
      BY <3>1, <3>2, <1>2 DEF WellFormed
    <3>4. r.buffer[r.head] = Zero
      <4>1. r.head = q.tail
        BY <2>2, <1>5
      <4> QED
        BY <4>1, <3>1, <3>3, <1>2, <1>5
    <3> QED
      BY <2>2, <3>2, <3>4 DEF Occupancy
  <2> QED
    BY <2>1, <2>2
<1>10. ASSUME NEW s \in Slots
       PROVE  r.buffer[s] # Zero <=> Distance(r, s) < Occupancy(r)
  <2>1. Distance(q, s) \in Slots
    BY <1>1, OccupancyType
  <2>2. CASE s = q.head
    BY <2>2, <1>2, <1>5, <1>6, <1>8, <1>9, NumAssumption
  <2>3. CASE s # q.head
    <3>1. r.buffer[s] = q.buffer[s]
      BY <2>3, <1>2, <1>5
    <3>2. q.buffer[s] # Zero <=> Distance(q, s) < Occupancy(q)
      BY DEF WellFormed
    <3> QED
      BY <2>3, <3>1, <3>2, <2>1, <1>6, <1>8, <1>9, NumAssumption DEF Slots
  <2> QED
    BY <2>2, <2>3
<1> QED
  BY <1>2, <1>4, <1>5, <1>7, <1>9, <1>10 DEF WellFormed

(* Whether or not there is room or something to pop, a well-formed queue   *)
(* stays one, as long as the address 0 is never inserted.                  *)
LEMMA WellFormedPreserved ==
  ASSUME NEW q, WellFormed(q)
  PROVE  /\ WellFormed(PopHead(q))
         /\ \A v \in Virtine : WellFormed(InsertTail(q, v))
<1>1. Occupancy(q) \in 0 .. NUM_POSSIBLE_VIRTINES
  BY OccupancyType DEF WellFormed
<1>2. WellFormed(PopHead(q))
  <2>1. CASE Occupancy(q) > 0
    BY <2>1, PopHeadEffect
  <2>2. CASE ~(Occupancy(q) > 0)
    BY <2>2, ValueTests DEF PopHead
  <2> QED
    BY <2>1, <2>2
<1>3. ASSUME NEW v \in Virtine
      PROVE  WellFormed(InsertTail(q, v))
  <2>1. CASE Occupancy(q) < NUM_POSSIBLE_VIRTINES
    BY <2>1, InsertTailEffect
  <2>2. CASE ~(Occupancy(q) < NUM_POSSIBLE_VIRTINES)
    BY <2>2, ValueTests DEF InsertTail
  <2> QED
    BY <2>1, <2>2
<1> QED
  BY <1>2, <1>3

-----------------------------------------------------------------------------
(* The queue as a sequence. *)

(* The contents of a well-formed queue are virtines, one for each occupied *)
(* slot, counted from head.                                                *)
LEMMA ContentsType ==
  ASSUME NEW q, WellFormed(q)
  PROVE  /\ Contents(q) \in Seq(Virtine)
         /\ Len(Contents(q)) = Occupancy(q)
         /\ \A i \in 1 .. Occupancy(q) : Contents(q)[i] = q.buffer[SlotAt(q, i)]
<1>1. q \in Queue
  BY DEF WellFormed
<1>2. Occupancy(q) \in 0 .. NUM_POSSIBLE_VIRTINES
  BY <1>1, OccupancyType
<1>3. ASSUME NEW i \in 1 .. Occupancy(q)
      PROVE  q.buffer[SlotAt(q, i)] \in Virtine
  <2>1. i \in 1 .. NUM_POSSIBLE_VIRTINES
    BY <1>2, NumAssumption
  <2>2. SlotAt(q, i) \in Slots /\ Distance(q, SlotAt(q, i)) = i - 1
    BY <2>1, <1>1, SlotAtDistance
  <2>3. q.buffer[SlotAt(q, i)] # Zero
    BY <2>2, <1>2 DEF WellFormed
  <2> QED
    BY <2>2, <2>3, <1>1 DEF Queue, Virtine
<1>4. Contents(q) \in [1 .. Occupancy(q) -> Virtine]
  BY <1>3 DEF Contents
<1>5. Contents(q) \in Seq(Virtine)
  BY <1>2, <1>4, SeqDef
<1>6. Len(Contents(q)) = Occupancy(q)
  BY <1>2, <1>4, <1>5, LenProperties DEF Contents
<1> QED
  BY <1>5, <1>6 DEF Contents

(* insert_tail appends, or leaves a full queue as it is.                   *)
LEMMA InsertTailAppends ==
  ASSUME NEW q, WellFormed(q), NEW v \in Virtine
  PROVE  Contents(InsertTail(q, v)) =
           IF Len(Contents(q)) < NUM_POSSIBLE_VIRTINES
           THEN Append(Contents(q), v) ELSE Contents(q)
<1> DEFINE r == InsertTail(q, v)
<1>1. q \in Queue
  BY DEF WellFormed
<1>2. Occupancy(q) \in 0 .. NUM_POSSIBLE_VIRTINES
  BY <1>1, OccupancyType
<1>3. CASE ~(Occupancy(q) < NUM_POSSIBLE_VIRTINES)
  BY <1>3, ContentsType, ValueTests DEF InsertTail
<1>4. CASE Occupancy(q) < NUM_POSSIBLE_VIRTINES
  <2>1. /\ r.head = q.head
        /\ q.tail \in Slots
        /\ Distance(q, q.tail) = Occupancy(q)
        /\ r.buffer = [q.buffer EXCEPT ![q.tail] = v]
        /\ Occupancy(r) = Occupancy(q) + 1
        /\ WellFormed(r)
    BY <1>4, InsertTailEffect
  <2> HIDE DEF r
  <2>2. Contents(r) \in Seq(Virtine) /\ Len(Contents(r)) = Occupancy(q) + 1
    BY <2>1, ContentsType
  <2>3. Contents(q) \in Seq(Virtine) /\ Len(Contents(q)) = Occupancy(q)
    BY ContentsType
  <2>4. /\ Append(Contents(q), v) \in Seq(Virtine)
        /\ Len(Append(Contents(q), v)) = Occupancy(q) + 1
        /\ \A i \in 1 .. Occupancy(q) + 1 :
             Append(Contents(q), v)[i] =
               IF i <= Occupancy(q) THEN Contents(q)[i] ELSE v
    BY <2>3, AppendProperties, <1>2
  <2>5. ASSUME NEW i \in 1 .. Occupancy(q) + 1
        PROVE  Contents(r)[i] = IF i <= Occupancy(q) THEN Contents(q)[i] ELSE v
    <3>1. i \in 1 .. NUM_POSSIBLE_VIRTINES
      BY <1>2, <1>4, NumAssumption
    <3>2. SlotAt(q, i) \in Slots /\ Distance(q, SlotAt(q, i)) = i - 1
      BY <3>1, <1>1, SlotAtDistance
    <3>3. SlotAt(r, i) = SlotAt(q, i)
      BY <2>1 DEF SlotAt
    <3>4. Contents(r)[i] = r.buffer[SlotAt(q, i)]
      <4>1. i \in 1 .. Occupancy(r)
        BY <2>1
      <4>2. Contents(r)[i] = r.buffer[SlotAt(r, i)]
        BY <4>1, <2>1, ContentsType
      <4> QED
        BY <4>2, <3>3
    <3>5. CASE i <= Occupancy(q)
      <4>1. SlotAt(q, i) # q.tail
        BY <3>2, <3>5, <2>1, <1>2
      <4>2. r.buffer[SlotAt(q, i)] = q.buffer[SlotAt(q, i)]
        BY <4>1, <3>2, <2>1, <1>1 DEF Queue
      <4>3. i \in 1 .. Occupancy(q)
        BY <3>5, <1>2
      <4>4. Contents(q)[i] = q.buffer[SlotAt(q, i)]
        BY <4>3, ContentsType
      <4> QED
        BY <3>4, <3>5, <4>2, <4>4
    <3>6. CASE ~(i <= Occupancy(q))
      <4>1. i = Occupancy(q) + 1
        BY <3>6, <1>2
      <4>2. SlotAt(q, i) = q.tail
        BY <4>1, <3>2, <2>1, <1>1, <1>2, DistanceInjective
      <4> QED
        BY <3>4, <3>6, <4>2, <2>1, <1>1 DEF Queue
    <3> QED
      BY <3>5, <3>6
  <2>6. Contents(r) = Append(Contents(q), v)
    BY <2>2, <2>4, <2>5, SeqEqual
  <2> QED
    BY <2>3, <2>6, <1>4 DEF r
<1> QED
  BY <1>3, <1>4

(* pop_head returns the first virtine and leaves the others; on an empty   *)
(* queue it returns 0 and leaves it as it is.                              *)
LEMMA PopHeadTakesFirst ==
  ASSUME NEW q, WellFormed(q)
  PROVE  /\ Contents(q) = <<>> =>
              HeadValue(q) = Zero /\ PopHead(q) = q
         /\ Contents(q) # <<>> =>
              /\ HeadValue(q) = Head(Contents(q))
              /\ HeadValue(q) \in Virtine
              /\ Contents(PopHead(q)) = Tail(Contents(q))
<1> DEFINE r == PopHead(q)
<1>1. q \in Queue
  BY DEF WellFormed
<1>2. q.head \in Slots /\ q.buffer \in [Slots -> Hwaddr]
  BY <1>1 DEF Queue
<1>3. Occupancy(q) \in 0 .. NUM_POSSIBLE_VIRTINES
  BY <1>1, OccupancyType
<1>4. Contents(q) \in Seq(Virtine) /\ Len(Contents(q)) = Occupancy(q)
  BY ContentsType
<1>5. Contents(q) = <<>> <=> Occupancy(q) = 0
  BY <1>3, <1>4, EmptySeq
<1>6. CASE Contents(q) = <<>>
  BY <1>5, <1>6, ValueTests DEF PopHead
<1>7. CASE Contents(q) # <<>>
  <2>1. Occupancy(q) > 0
    BY <1>3, <1>5, <1>7
  <2>2. /\ HeadValue(q) \in Virtine
        /\ r.head = NextElement(q.head)
        /\ r.buffer = [q.buffer EXCEPT ![q.head] = Zero]
        /\ Occupancy(r) = Occupancy(q) - 1
        /\ WellFormed(r)
    BY <2>1, PopHeadEffect
  <2> HIDE DEF r
  <2>3. SlotAt(q, 1) = q.head
    BY <1>2, NumAssumption DEF SlotAt, Slots
  <2>4. Head(Contents(q)) = HeadValue(q)
    <3>1. Contents(q)[1] = q.buffer[q.head]
      BY <2>1, <2>3, <1>3, ContentsType
    <3> QED
      BY <3>1, <1>4, <1>7 DEF HeadValue
  <2>5. /\ Tail(Contents(q)) \in Seq(Virtine)
        /\ Len(Tail(Contents(q))) = Occupancy(q) - 1
        /\ \A i \in 1 .. Occupancy(q) - 1 : Tail(Contents(q))[i] = Contents(q)[i + 1]
    BY <1>4, <1>7, HeadTailProperties
  <2>6. Contents(r) \in Seq(Virtine) /\ Len(Contents(r)) = Occupancy(q) - 1
    BY <2>2, ContentsType
  <2>7. ASSUME NEW i \in 1 .. Occupancy(q) - 1
        PROVE  Contents(r)[i] = Contents(q)[i + 1]
    <3>1. i \in 1 .. NUM_POSSIBLE_VIRTINES /\ i + 1 \in 1 .. NUM_POSSIBLE_VIRTINES
      BY <1>3, NumAssumption
    <3>2. SlotAt(r, i) = SlotAt(q, i + 1)
      BY <3>1, <1>2, <2>2, NumAssumption
      DEF SlotAt, NextElement, EndOfQueue, Slots
    <3>3. SlotAt(q, i + 1) \in Slots /\ Distance(q, SlotAt(q, i + 1)) = i
      BY <3>1, <1>1, SlotAtDistance
    <3>4. Distance(q, q.head) = 0
      BY <1>2, NumAssumption DEF Distance, Slots
    <3>5. SlotAt(q, i + 1) # q.head
      BY <3>3, <3>4
    <3>6. r.buffer[SlotAt(q, i + 1)] = q.buffer[SlotAt(q, i + 1)]
      BY <3>3, <3>5, <2>2, <1>2
    <3>7. i \in 1 .. Occupancy(r) /\ i + 1 \in 1 .. Occupancy(q)
      BY <2>2, <1>3
    <3>8. Contents(r)[i] = r.buffer[SlotAt(r, i)]
      BY <3>7, <2>2, ContentsType
    <3>9. Contents(q)[i + 1] = q.buffer[SlotAt(q, i + 1)]
      BY <3>7, ContentsType
    <3> QED
      BY <3>2, <3>6, <3>8, <3>9
  <2>8. Contents(r) = Tail(Contents(q))
    BY <2>5, <2>6, <2>7, SeqEqual
  <2> QED
    BY <1>7, <2>2, <2>4, <2>8 DEF r
<1> QED
  BY <1>6, <1>7
=============================================================================
