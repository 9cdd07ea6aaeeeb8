----------------------------- MODULE RingProofs -----------------------------
(***************************************************************************)
(* Proofs about Ring for every capacity and index width that AttachRing    *)
(* admits: the two ends never touch the same slot, and the ring implements *)
(* BoundedFifo.                                                            *)
(***************************************************************************)
EXTENDS Ring, SequenceTheorems, TLAPS

(* Facts about the remainder that the arithmetic provers need spelled out. *)
LEMMA ModRange ==
    ASSUME NEW x \in Int, NEW b \in Nat, b > 0
    PROVE  x % b \in 0 .. b - 1
OBVIOUS

LEMMA ModQuotient ==
    ASSUME NEW x \in Int, NEW b \in Nat, b > 0
    PROVE  \E q \in Int : x = b * q + (x % b)
OBVIOUS

LEMMA ModUnique ==
    ASSUME NEW b \in Nat, NEW p \in Int, NEW q \in Int,
           NEW r \in 0 .. b - 1, NEW s \in 0 .. b - 1, b * p + r = b * q + s
    PROVE  r = s
OBVIOUS

LEMMA ModMultiple ==
    ASSUME NEW x \in Int, NEW b \in Nat, b > 0, NEW k \in Int
    PROVE  (x + b * k) % b = x % b
<1>1. PICK p \in Int : x = b * p + (x % b)
    BY ModQuotient
<1>2. PICK q \in Int : x + b * k = b * q + ((x + b * k) % b)
    BY ModQuotient
<1>3. b * (p + k) + (x % b) = b * q + ((x + b * k) % b)
    BY <1>1, <1>2
<1>4. x % b \in 0 .. b - 1 /\ (x + b * k) % b \in 0 .. b - 1
    BY ModRange
<1> QED
    BY <1>3, <1>4, ModUnique

LEMMA ModApart ==
    ASSUME NEW x \in Int, NEW y \in Int, NEW b \in Nat, b > 0, x < y, y - x < b
    PROVE  x % b # y % b
<1>1. PICK p \in Int : x = b * p + (x % b)
    BY ModQuotient
<1>2. PICK q \in Int : y = b * q + (y % b)
    BY ModQuotient
<1>3. SUFFICES ASSUME x % b = y % b PROVE FALSE
    OBVIOUS
<1>4. y - x = b * (q - p)
    BY <1>1, <1>2, <1>3
<1>5. CASE q <= p
    <2>1. b * (q - p) <= 0
        BY <1>5
    <2> QED
        BY <2>1, <1>4
<1>6. CASE q >= p + 1
    <2>1. b * (q - p) >= b
        BY <1>6
    <2> QED
        BY <2>1, <1>4
<1> QED
    BY <1>5, <1>6

LEMMA ModPeriodic ==
    ASSUME NEW x \in Int, NEW b \in Nat, b > 0, NEW m \in Nat, m % b = 0
    PROVE  (x + m) % b = x % b
<1>1. PICK k \in Int : m = b * k + (m % b)
    BY ModQuotient
<1>2. m = b * k
    BY <1>1
<1> QED
    BY <1>2, ModMultiple

LEMMA SlotPeriod ==
    ASSUME NEW x \in Int
    PROVE  slot(x + IndexMod) = slot(x)
BY ModPeriodic, RingAssumption DEF slot

LEMMA SlotApart ==
    ASSUME NEW x \in Int, NEW y \in Int, x < y, y - x < Capacity
    PROVE  slot(x) # slot(y)
BY ModApart, RingAssumption DEF slot

LEMMA SlotType ==
    ASSUME NEW x \in Int
    PROVE  slot(x) \in Slots
BY ModRange, RingAssumption DEF slot, Slots

(* The wrapping index arithmetic, by cases. *)
LEMMA SuccessorCases ==
    ASSUME NEW i \in Indexes
    PROVE  /\ Successor(i) \in Indexes
           /\ Successor(i) = IF i + 1 = IndexMod THEN 0 ELSE i + 1
BY RingAssumption DEF Indexes, Successor

LEMMA CountCases ==
    ASSUME head \in Indexes, tail \in Indexes
    PROVE  /\ Count \in Nat
           /\ Count = IF head >= tail THEN head - tail ELSE head - tail + IndexMod
BY RingAssumption DEF Indexes, Count

LEMMA CountUp ==
    ASSUME head \in Indexes, tail \in Indexes, tail' = tail, head' = Successor(head),
           Count < Capacity
    PROVE  /\ head' \in Indexes
           /\ Count' = Count + 1
<1>1. head' \in Indexes /\ tail' \in Indexes
    BY SuccessorCases
<1>2. Count' = IF head' >= tail' THEN head' - tail' ELSE head' - tail' + IndexMod
    BY <1>1, RingAssumption DEF Indexes, Count
<1> QED
    BY <1>1, <1>2, CountCases, SuccessorCases, RingAssumption DEF Indexes

LEMMA CountDown ==
    ASSUME head \in Indexes, tail \in Indexes, head' = head, tail' = Successor(tail),
           Count > 0
    PROVE  /\ tail' \in Indexes
           /\ Count' = Count - 1
<1>1. head' \in Indexes /\ tail' \in Indexes
    BY SuccessorCases
<1>2. Count' = IF head' >= tail' THEN head' - tail' ELSE head' - tail' + IndexMod
    BY <1>1, RingAssumption DEF Indexes, Count
<1> QED
    BY <1>1, <1>2, CountCases, SuccessorCases, RingAssumption DEF Indexes

(* The slot that head names is the one after the published ones. *)
LEMMA HeadSlot ==
    ASSUME head \in Indexes, tail \in Indexes
    PROVE  slot(head) = slot(tail + Count)
<1>1. CASE head >= tail
    <2>1. tail + Count = head
        BY <1>1, CountCases, RingAssumption DEF Indexes
    <2> QED
        BY <2>1
<1>2. CASE head < tail
    <2>1. tail + Count = head + IndexMod
        BY <1>2, CountCases, RingAssumption DEF Indexes
    <2>2. head \in Int
        BY DEF Indexes
    <2> QED
        BY <2>1, <2>2, SlotPeriod
<1> QED
    BY <1>1, <1>2, RingAssumption DEF Indexes

LEMMA TailSlot ==
    ASSUME NEW i \in Indexes, NEW k \in Int
    PROVE  slot(Successor(i) + k) = slot(i + 1 + k)
<1>1. CASE i + 1 = IndexMod
    <2>1. Successor(i) + k = k /\ i + 1 + k = k + IndexMod
        BY <1>1, SuccessorCases, RingAssumption DEF Indexes
    <2> QED
        BY <2>1, SlotPeriod
<1>2. CASE i + 1 # IndexMod
    BY <1>2, SuccessorCases
<1> QED
    BY <1>1, <1>2

LEMMA HeadApart ==
    ASSUME head \in Indexes, tail \in Indexes, Count < Capacity,
           NEW k \in 0 .. Count - 1
    PROVE  slot(tail + k) # slot(head)
<1>1. tail + k \in Int /\ tail + Count \in Int /\ tail + k < tail + Count
      /\ (tail + Count) - (tail + k) < Capacity
    BY CountCases, RingAssumption DEF Indexes
<1> QED
    BY <1>1, HeadSlot, SlotApart

-----------------------------------------------------------------------------
(* The indexes stay machine words and the memory holds frames. *)
THEOREM RingTypeCorrect == Spec => []TypeOK
<1>1. Init => TypeOK
    BY DEF Init, AttachRing, TypeOK
<1>2. TypeOK /\ [Next]_vars => TypeOK'
    <2> SUFFICES ASSUME TypeOK, [Next]_vars PROVE TypeOK'
        OBVIOUS
    <2> USE DEF TypeOK, producer, consumer
    <2>0. slot(head) \in Slots /\ slot(tail) \in Slots
        BY SlotType DEF Indexes
    <2>1. CASE ProduceBegin
        BY <2>1 DEF ProduceBegin
    <2>2. CASE Encode
        BY <2>0, <2>2 DEF Encode, Slot
    <2>3. CASE Copy
        BY <2>0, <2>3 DEF Copy, Slot
    <2>4. CASE ProduceCommit
        BY <2>4, SuccessorCases DEF ProduceCommit
    <2>5. CASE Poll
        BY <2>5, SuccessorCases DEF Poll
    <2>6. CASE ConsumeBegin
        BY <2>6 DEF ConsumeBegin
    <2>7. CASE Decode
        BY <2>0, <2>7, SuccessorCases DEF Decode, Slot
    <2>8. CASE HostRestart
        BY <2>8 DEF HostRestart
    <2>9. CASE UNCHANGED vars
        BY <2>9 DEF vars
    <2> QED
        BY <2>1, <2>2, <2>3, <2>4, <2>5, <2>6, <2>7, <2>8, <2>9
        DEF Next, Producer, Consumer
<1> QED
    BY <1>1, <1>2, PTL DEF Spec

(* The bookkeeping of the ring: what RingInv says of the indexes. *)
THEOREM RingInvHolds == Spec => []RingInv
<1>1. Init => RingInv
    BY DEF Init, AttachRing, RingInv, Filling, Reading
<1>2. TypeOK /\ RingInv /\ [Next]_vars => RingInv'
    <2> SUFFICES ASSUME TypeOK, RingInv, [Next]_vars PROVE RingInv'
        OBVIOUS
    <2> USE DEF RingInv, Filling, Reading, producer, consumer
    <2>0. head \in Indexes /\ tail \in Indexes /\ Count \in Nat /\ Capacity \in Nat
          /\ pendingRead \in BOOLEAN
        BY CountCases, RingAssumption DEF TypeOK
    <2>1. CASE ProduceBegin
        BY <2>0, <2>1 DEF ProduceBegin, Count
    <2>2. CASE Encode
        BY <2>0, <2>2 DEF Encode, Count
    <2>3. CASE Copy
        BY <2>0, <2>3 DEF Copy, Count
    <2>4. CASE ProduceCommit
        <3>1. Count' = Count + 1 /\ Count < Capacity
            BY <2>0, <2>4, CountUp DEF ProduceCommit
        <3> QED
            BY <2>0, <2>4, <3>1 DEF ProduceCommit
    <2>5. CASE Poll
        <3>1. CASE pendingRead
            <4>1. Count' = Count - 1
                BY <2>0, <2>5, <3>1, CountDown DEF Poll
            <4> QED
                BY <2>0, <2>5, <4>1 DEF Poll
        <3>2. CASE ~pendingRead
            <4>1. Count' = Count
                BY <2>5, <3>2 DEF Poll, Count
            <4> QED
                BY <2>0, <2>5, <4>1 DEF Poll
        <3> QED
            BY <3>1, <3>2
    <2>6. CASE ConsumeBegin
        <3>1. Count' = Count
            BY <2>6 DEF ConsumeBegin, Count
        <3>2. head # tail => Count > 0
            BY <2>0, CountCases, RingAssumption DEF Indexes
        <3> QED
            BY <2>0, <2>6, <3>1, <3>2 DEF ConsumeBegin
    <2>7. CASE Decode
        <3>1. CASE tail' = Successor(tail) /\ UNCHANGED <<pendingRead, got>>
            <4>1. Count' = Count - 1
                BY <2>0, <2>7, <3>1, CountDown DEF Decode
            <4> QED
                BY <2>0, <2>7, <3>1, <4>1 DEF Decode
        <3>2. CASE tail' = tail /\ pendingRead'
            <4>1. Count' = Count
                BY <2>7, <3>2 DEF Decode, Count
            <4> QED
                BY <2>0, <2>7, <3>2, <4>1 DEF Decode
        <3> QED
            BY <2>7, <3>1, <3>2 DEF Decode
    <2>8. CASE HostRestart
        BY <2>0, <2>8 DEF HostRestart, Count
    <2>9. CASE UNCHANGED vars
        BY <2>0, <2>9 DEF vars, Count
    <2> QED
        BY <2>1, <2>2, <2>3, <2>4, <2>5, <2>6, <2>7, <2>8, <2>9
        DEF Next, Producer, Consumer
<1> QED
    BY <1>1, <1>2, RingTypeCorrect, PTL DEF Spec

(* The two ends never access the same slot: ProduceBegin and ConsumeBegin *)
(* hand out different ones, in every ring that AttachRing accepts.        *)
THEOREM NoDataRaceHolds == Spec => []NoDataRace
<1>1. TypeOK /\ RingInv => NoDataRace
    <2> SUFFICES ASSUME TypeOK, RingInv, Filling, Reading PROVE slot(head) # slot(tail)
        BY DEF NoDataRace
    <2>1. Count < Capacity /\ 0 \in 0 .. Count - 1 /\ tail + 0 = tail
        BY CountCases, RingAssumption DEF TypeOK, RingInv, Indexes
    <2> QED
        BY <2>1, HeadApart DEF TypeOK
<1> QED
    BY <1>1, RingTypeCorrect, RingInvHolds, PTL

-----------------------------------------------------------------------------
(* Published frames stay whole, through every step of either end. *)
LEMMA ContentStep ==
    ASSUME TypeOK, RingInv, ContentInv, [Next]_vars
    PROVE  ContentInv'
<1> USE DEF producer, consumer
<1>0. /\ head \in Indexes /\ tail \in Indexes /\ Count \in Nat /\ Capacity \in Nat
      /\ tail \in Int /\ slot(head) \in Slots /\ slot(tail) \in Slots
      /\ slots \in [Slots -> Slot]
    BY CountCases, RingAssumption, SlotType DEF TypeOK, Indexes
<1>1. CASE ProduceBegin
    BY <1>1 DEF ProduceBegin, ContentInv, PayloadStableUntilPoll, Count
<1>2. CASE Encode
    <2>1. Count < Capacity /\ UNCHANGED Count
        BY <1>2 DEF Encode, RingInv, Filling, Count
    <2>2. \A k \in 0 .. Count - 1 : slots'[slot(tail + k)] = slots[slot(tail + k)]
        BY <1>0, <1>2, <2>1, HeadApart, SlotType DEF Encode
    <2>3. slots'[slot(head)].hdr = pmsg
        BY <1>0, <1>2 DEF Encode, Slot
    <2>4. Reading => 0 \in 0 .. Count - 1 /\ tail + 0 = tail
        BY <1>0 DEF RingInv
    <2>5. PayloadStableUntilPoll'
        BY <1>2, <2>2, <2>4
        DEF Encode, ContentInv, PayloadStableUntilPoll, Reading
    <2> QED
        BY <1>2, <2>1, <2>2, <2>3, <2>5 DEF Encode, ContentInv
<1>3. CASE Copy
    <2>1. Count < Capacity /\ UNCHANGED Count
        BY <1>3 DEF Copy, RingInv, Filling, Count
    <2>2. \A k \in 0 .. Count - 1 : slots'[slot(tail + k)] = slots[slot(tail + k)]
        BY <1>0, <1>3, <2>1, HeadApart, SlotType DEF Copy
    <2>3. slots'[slot(head)].hdr = pmsg /\ slots'[slot(head)].body = pmsg
        BY <1>0, <1>3 DEF Copy, Slot, ContentInv
    <2>4. Reading => 0 \in 0 .. Count - 1 /\ tail + 0 = tail
        BY <1>0 DEF RingInv
    <2>5. PayloadStableUntilPoll'
        BY <1>3, <2>2, <2>4
        DEF Copy, ContentInv, PayloadStableUntilPoll, Reading
    <2> QED
        BY <1>3, <2>1, <2>2, <2>3, <2>5 DEF Copy, ContentInv
<1>4. CASE ProduceCommit
    <2>1. Count' = Count + 1
        BY <1>0, <1>4, CountUp DEF ProduceCommit, RingInv, Filling
    <2>2. slot(tail + Count) = slot(head)
        BY <1>0, HeadSlot
    <2>3. \A k \in 0 .. Count : slots[slot(tail + k)].hdr = slots[slot(tail + k)].body
        BY <1>0, <1>4, <2>2 DEF ProduceCommit, ContentInv
    <2> QED
        BY <1>0, <1>4, <2>1, <2>3 DEF ProduceCommit, ContentInv, PayloadStableUntilPoll
<1>5. CASE Poll
    <2>1. CASE pendingRead
        <3>1. Count' = Count - 1
            BY <1>0, <1>5, <2>1, CountDown DEF Poll, RingInv, Reading
        <3>2. \A k \in 0 .. Count' - 1 : k + 1 \in 0 .. Count - 1
                                         /\ slot(tail' + k) = slot(tail + (k + 1))
            BY <1>0, <1>5, <2>1, <3>1, TailSlot DEF Poll
        <3> QED
            BY <1>5, <3>2 DEF Poll, ContentInv, PayloadStableUntilPoll
    <2>2. CASE ~pendingRead
        BY <1>5, <2>2 DEF Poll, ContentInv, PayloadStableUntilPoll, Count
    <2> QED
        BY <2>1, <2>2
<1>6. CASE ConsumeBegin
    BY <1>6 DEF ConsumeBegin, ContentInv, PayloadStableUntilPoll, Count, RingInv
<1>7. CASE Decode
    <2>0. 0 \in 0 .. Count - 1 /\ tail + 0 = tail
        BY <1>0, <1>7 DEF Decode, RingInv, Reading
    <2>1. CASE tail' = Successor(tail) /\ UNCHANGED <<pendingRead, got>>
        <3>1. Count' = Count - 1
            BY <1>0, <1>7, <2>1, CountDown DEF Decode, RingInv, Reading
        <3>2. \A k \in 0 .. Count' - 1 : k + 1 \in 0 .. Count - 1
                                         /\ slot(tail' + k) = slot(tail + (k + 1))
            BY <1>0, <2>1, <3>1, TailSlot
        <3>3. ~pendingRead'
            BY <1>7, <2>1 DEF Decode, RingInv
        <3> QED
            BY <1>7, <3>2, <3>3 DEF Decode, ContentInv, PayloadStableUntilPoll
    <2>2. CASE tail' = tail /\ pendingRead' /\ got' = slots[slot(tail)].hdr
        <3>1. slots[slot(tail)].hdr = slots[slot(tail)].body
            BY <2>0 DEF ContentInv
        <3>2. slots[slot(tail)] = [hdr |-> got', body |-> got']
            BY <1>0, <2>2, <3>1 DEF Slot
        <3> QED
            BY <1>7, <2>2, <3>2 DEF Decode, ContentInv, PayloadStableUntilPoll, Count
    <2> QED
        BY <1>7, <2>1, <2>2 DEF Decode
<1>8. CASE HostRestart
    BY <1>8 DEF HostRestart, ContentInv, PayloadStableUntilPoll, Count
<1>9. CASE UNCHANGED vars
    BY <1>9 DEF vars, ContentInv, PayloadStableUntilPoll, Count
<1> QED
    BY <1>1, <1>2, <1>3, <1>4, <1>5, <1>6, <1>7, <1>8, <1>9
    DEF Next, Producer, Consumer

LEMMA ContentHolds == Spec => []ContentInv
<1>1. Init => ContentInv
    <2> SUFFICES ASSUME Init PROVE ContentInv
        OBVIOUS
    <2>1. \A k \in 0 .. Count - 1 : slot(tail + k) \in Slots
        BY SlotType DEF Init, AttachRing, Indexes
    <2> QED
        BY <2>1 DEF Init, AttachRing, ContentInv, PayloadStableUntilPoll
<1> QED
    BY <1>1, ContentStep, RingTypeCorrect, RingInvHolds, PTL DEF Spec

(* A frame that Poll returned is whole and stays so until the next Poll. *)
THEOREM PayloadStableHolds == Spec => []PayloadStableUntilPoll
<1>1. ContentInv => PayloadStableUntilPoll
    BY DEF ContentInv
<1> QED
    BY <1>1, ContentHolds, PTL

-----------------------------------------------------------------------------
(* The published frames as a sequence. *)
PublishedShape ==
    /\ Published \in Seq(Messages)
    /\ Len(Published) = Count
    /\ \A i \in 1 .. Count : Published[i] = slots[slot(tail + i - 1)].hdr

LEMMA PublishedSeq == TypeOK /\ ContentInv => PublishedShape
<1> SUFFICES ASSUME TypeOK, ContentInv PROVE PublishedShape
    OBVIOUS
<1>0. Count \in Nat /\ tail \in Int /\ slots \in [Slots -> Slot]
    BY CountCases DEF TypeOK, Indexes
<1>1. ASSUME NEW i \in 1 .. Count
      PROVE  /\ Published[i] = slots[slot(tail + i - 1)].hdr
             /\ Published[i] \in Messages
    <2>1. i - 1 \in 0 .. Count - 1 /\ tail + (i - 1) = tail + i - 1 /\ tail + i - 1 \in Int
        BY <1>0
    <2>2. slots[slot(tail + i - 1)].hdr = slots[slot(tail + i - 1)].body
        BY <2>1 DEF ContentInv
    <2>3. slots[slot(tail + i - 1)] \in Slot
        BY <1>0, <2>1, SlotType
    <2> QED
        BY <2>2, <2>3 DEF Published, Slot
<1>2. Published \in [1 .. Count -> Messages]
    BY <1>1 DEF Published
<1> QED
    BY <1>0, <1>1, <1>2 DEF PublishedShape

(* A step that leaves the published slots alone leaves the sequence alone. *)
LEMMA PublishedSame ==
    ASSUME UNCHANGED tail, UNCHANGED Count, Count \in Nat,
           \A k \in 0 .. Count - 1 : slots'[slot(tail + k)] = slots[slot(tail + k)],
           tail \in Int
    PROVE  UNCHANGED Published
<1>1. ASSUME NEW i \in 1 .. Count
      PROVE  slots'[slot(tail + i - 1)] = slots[slot(tail + i - 1)]
    <2>1. i - 1 \in 0 .. Count - 1 /\ tail + (i - 1) = tail + i - 1
        OBVIOUS
    <2> QED
        BY <2>1
<1> QED
    BY <1>1 DEF Published, slot

(* Releasing the oldest slot removes the first of the sequence. *)
LEMMA PublishedTail ==
    ASSUME TypeOK, ContentInv, TypeOK', ContentInv', Count > 0,
           UNCHANGED <<head, slots>>, tail' = Successor(tail)
    PROVE  Published # <<>> /\ Published' = Tail(Published)
<1>0. /\ head \in Indexes /\ tail \in Indexes /\ tail \in Int /\ tail' \in Int
      /\ Count \in Nat
    BY CountCases DEF TypeOK, Indexes
<1>1. Count' = Count - 1
    BY <1>0, CountDown
<1>2. /\ Published \in Seq(Messages) /\ Len(Published) = Count
      /\ \A i \in 1 .. Count : Published[i] = slots[slot(tail + i - 1)].hdr
    BY PublishedSeq DEF PublishedShape
<1>3. /\ Published' \in Seq(Messages) /\ Len(Published') = Count'
      /\ \A i \in 1 .. Count' : Published'[i] = slots'[slot(tail' + i - 1)].hdr
    <2>1. PublishedShape'
        BY PublishedSeq, PTL
    <2> QED
        BY <2>1 DEF PublishedShape, slot
<1>4. ASSUME NEW i \in 1 .. Count - 1
      PROVE  Published'[i] = Published[i + 1]
    <2>1. slot(tail' + i - 1) = slot(tail + (i + 1) - 1)
        <3>1. slot(Successor(tail) + (i - 1)) = slot(tail + 1 + (i - 1))
            BY <1>0, TailSlot
        <3>2. tail' + i - 1 = Successor(tail) + (i - 1)
              /\ tail + (i + 1) - 1 = tail + 1 + (i - 1)
            BY <1>0
        <3> QED
            BY <3>1, <3>2
    <2> QED
        BY <1>1, <1>2, <1>3, <2>1
<1>5. Published # <<>>
    BY <1>0, <1>2
<1>6. Tail(Published) \in Seq(Messages) /\ Len(Tail(Published)) = Count - 1
      /\ \A i \in 1 .. Count - 1 : Tail(Published)[i] = Published[i + 1]
    BY <1>0, <1>2, <1>5
<1> QED
    BY <1>1, <1>3, <1>4, <1>5, <1>6, SeqEqual

(* One step of the ring is one step, or none, of the FIFO. *)
LEMMA FifoStep ==
    ASSUME TypeOK, RingInv, ContentInv, TypeOK', ContentInv', [Next]_vars
    PROVE  [AsFifo!Put \/ AsFifo!Take \/ AsFifo!Release \/ AsFifo!Drop]_(AsFifo!fifo)
<1> USE DEF producer, consumer
<1>0. /\ head \in Indexes /\ tail \in Indexes /\ Count \in Nat /\ Capacity \in Nat
      /\ tail \in Int /\ slot(head) \in Slots /\ slot(tail) \in Slots
      /\ slots \in [Slots -> Slot] /\ pendingRead \in BOOLEAN
    BY CountCases, RingAssumption, SlotType DEF TypeOK, Indexes
<1>s. /\ Published \in Seq(Messages) /\ Len(Published) = Count
      /\ \A i \in 1 .. Count : Published[i] = slots[slot(tail + i - 1)].hdr
    BY PublishedSeq DEF PublishedShape
<1>1. CASE ProduceBegin
    <2>1. UNCHANGED <<Published, pendingRead>>
        BY <1>1 DEF ProduceBegin, Published, Count
    <2> QED
        BY <2>1 DEF AsFifo!fifo
<1>2. CASE Encode
    <2>1. Count < Capacity /\ UNCHANGED Count
        BY <1>2 DEF Encode, RingInv, Filling, Count
    <2>2. \A k \in 0 .. Count - 1 : slots'[slot(tail + k)] = slots[slot(tail + k)]
        BY <1>0, <1>2, <2>1, HeadApart, SlotType DEF Encode
    <2>3. UNCHANGED <<Published, pendingRead>>
        BY <1>0, <1>2, <2>1, <2>2, PublishedSame DEF Encode
    <2> QED
        BY <2>3 DEF AsFifo!fifo
<1>3. CASE Copy
    <2>1. Count < Capacity /\ UNCHANGED Count
        BY <1>3 DEF Copy, RingInv, Filling, Count
    <2>2. \A k \in 0 .. Count - 1 : slots'[slot(tail + k)] = slots[slot(tail + k)]
        BY <1>0, <1>3, <2>1, HeadApart, SlotType DEF Copy
    <2>3. UNCHANGED <<Published, pendingRead>>
        BY <1>0, <1>3, <2>1, <2>2, PublishedSame DEF Copy
    <2> QED
        BY <2>3 DEF AsFifo!fifo
<1>4. CASE ProduceCommit
    <2>1. Count' = Count + 1 /\ Count < Capacity
        BY <1>0, <1>4, CountUp DEF ProduceCommit, RingInv, Filling
    <2>2. slots[slot(tail + Count)].hdr = pmsg /\ pmsg \in Messages
        BY <1>0, <1>4, HeadSlot DEF ProduceCommit, ContentInv, TypeOK
    <2>3. /\ Published' \in Seq(Messages) /\ Len(Published') = Count + 1
          /\ \A i \in 1 .. Count + 1 : Published'[i] = slots[slot(tail + i - 1)].hdr
        <3>1. PublishedShape'
            BY PublishedSeq, PTL
        <3> QED
            BY <1>4, <2>1, <3>1 DEF PublishedShape, ProduceCommit, slot
    <2>4. /\ Append(Published, pmsg) \in Seq(Messages)
          /\ Len(Append(Published, pmsg)) = Count + 1
          /\ \A i \in 1 .. Count : Append(Published, pmsg)[i] = Published[i]
          /\ Append(Published, pmsg)[Count + 1] = pmsg
        BY <1>0, <1>s, <2>2
    <2>5. Published'[Count + 1] = pmsg
        <3>1. tail + (Count + 1) - 1 = tail + Count /\ Count + 1 \in 1 .. Count + 1
            BY <1>0
        <3> QED
            BY <2>2, <2>3, <3>1
    <2>6. \A i \in 1 .. Count : Published'[i] = Published[i]
        BY <1>0, <1>s, <2>3
    <2>7. \A i \in 1 .. Count + 1 : Published'[i] = Append(Published, pmsg)[i]
        BY <1>0, <2>4, <2>5, <2>6
    <2>8. Published' = Append(Published, pmsg)
        BY <2>3, <2>4, <2>7, SeqEqual
    <2>9. AsFifo!Put
        BY <1>4, <1>s, <2>1, <2>2, <2>8 DEF ProduceCommit, AsFifo!Put
    <2> QED
        BY <2>9
<1>5. CASE Poll
    <2>1. CASE pendingRead
        <3>1. Count > 0
            BY <1>5, <2>1 DEF Poll, RingInv, Reading
        <3>2. Published' = Tail(Published)
            BY <1>5, <2>1, <3>1, PublishedTail DEF Poll
        <3>3. AsFifo!Release
            BY <1>5, <2>1, <3>2 DEF Poll, AsFifo!Release
        <3> QED
            BY <3>3
    <2>2. CASE ~pendingRead
        <3>1. UNCHANGED <<Published, pendingRead>>
            BY <1>0, <1>5, <2>2 DEF Poll, Published, Count
        <3> QED
            BY <3>1 DEF AsFifo!fifo
    <2> QED
        BY <2>1, <2>2
<1>6. CASE ConsumeBegin
    <2>1. UNCHANGED <<Published, pendingRead>>
        BY <1>6 DEF ConsumeBegin, Published, Count
    <2> QED
        BY <2>1 DEF AsFifo!fifo
<1>7. CASE Decode
    <2>1. Count > 0 /\ ~pendingRead
        BY <1>7 DEF Decode, RingInv, Reading
    <2>2. Published # <<>> /\ Head(Published) = slots[slot(tail)].hdr
        <3>1. 1 \in 1 .. Count /\ tail + 1 - 1 = tail
            BY <1>0, <2>1
        <3>2. Published[1] = slots[slot(tail)].hdr
            BY <1>s, <3>1
        <3> QED
            BY <1>0, <1>s, <2>1, <3>2
    <2>3. CASE /\ slots[slot(tail)].hdr \in Undecodable
               /\ tail' = Successor(tail)
               /\ UNCHANGED <<pendingRead, got>>
        <3>1. Published' = Tail(Published)
            BY <1>7, <2>1, <2>3, PublishedTail DEF Decode
        <3>2. AsFifo!Drop
            BY <2>1, <2>2, <2>3, <3>1 DEF AsFifo!Drop
        <3> QED
            BY <3>2
    <2>4. CASE /\ slots[slot(tail)].hdr \notin Undecodable
               /\ pendingRead' = TRUE
               /\ UNCHANGED tail
        <3>1. UNCHANGED Published
            BY <1>7, <2>4 DEF Decode, Published, Count
        <3>2. AsFifo!Take
            BY <2>1, <2>2, <2>4, <3>1 DEF AsFifo!Take
        <3> QED
            BY <3>2
    <2> QED
        BY <1>7, <2>3, <2>4 DEF Decode
<1>8. CASE HostRestart
    <2>1. UNCHANGED <<Published, pendingRead>>
        BY <1>8 DEF HostRestart, Published, Count
    <2> QED
        BY <2>1 DEF AsFifo!fifo
<1>9. CASE UNCHANGED vars
    <2>1. UNCHANGED <<Published, pendingRead>>
        BY <1>9 DEF vars, Published, Count
    <2> QED
        BY <2>1 DEF AsFifo!fifo
<1> QED
    BY <1>1, <1>2, <1>3, <1>4, <1>5, <1>6, <1>7, <1>8, <1>9
    DEF Next, Producer, Consumer

(* The ring, with its wrapping indexes and its separate writes of header,    *)
(* payload and index, behaves as a bounded FIFO: emit and Poll never lose,   *)
(* repeat, reorder or tear a frame.                                          *)
THEOREM RingImplementsFifo == Spec => ImplementsFifo
<1>1. Init => AsFifo!Start
    <2> SUFFICES ASSUME Init PROVE AsFifo!Start
        OBVIOUS
    <2>1. TypeOK
        BY DEF Init, AttachRing, TypeOK
    <2>2. \A k \in 0 .. Count - 1 : slot(tail + k) \in Slots
        BY SlotType DEF Init, AttachRing, Indexes
    <2>3. ContentInv
        BY <2>2 DEF Init, AttachRing, ContentInv, PayloadStableUntilPoll
    <2>4. Published \in Seq(Messages) /\ Len(Published) = Count
        BY <2>1, <2>3, PublishedSeq DEF PublishedShape
    <2> QED
        BY <2>4 DEF Init, AttachRing, AsFifo!Start
<1>2. TypeOK /\ RingInv /\ ContentInv /\ TypeOK' /\ ContentInv' /\ [Next]_vars
      => [AsFifo!Put \/ AsFifo!Take \/ AsFifo!Release \/ AsFifo!Drop]_(AsFifo!fifo)
    BY FifoStep
<1> QED
    BY <1>1, <1>2, RingTypeCorrect, RingInvHolds, ContentHolds, PTL
    DEF Spec, ImplementsFifo, AsFifo!Fifo
=============================================================================
