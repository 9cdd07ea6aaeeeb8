-------------------------------- MODULE Ring --------------------------------
(***************************************************************************)
(* One direction of a bus connection: the single-producer single-consumer  *)
(* ring of bus/ring.go in shared memory, driven by Client.emit at one end  *)
(* and Client.Poll at the other (bus/client.go).  The ends are different   *)
(* processes and synchronise only through the two indexes, so every access *)
(* to shared memory is a step of its own.  An end's load of the index that *)
(* only it writes is folded into its next step.                            *)
(*                                                                         *)
(* The indexes are machine words that wrap: they count modulo IndexMod     *)
(* (2^64), and the slot of an index is the index masked to the capacity.   *)
(***************************************************************************)
EXTENDS Integers, Sequences

CONSTANTS
    Capacity,       \* slots of the ring
    IndexMod,       \* 2^w for indexes of w bits
    Messages,       \* the frames that are sent
    Undecodable     \* those of them that Decode refuses

(* AttachRing refuses a capacity that is not a power of two (from 2 to 2^31), *)
(* so that it divides the range of the indexes.                               *)
ASSUME RingAssumption ==
    /\ Capacity \in Nat
    /\ Capacity >= 2
    /\ IndexMod \in Nat
    /\ IndexMod > Capacity
    /\ IndexMod % Capacity = 0
    /\ Undecodable \subseteq Messages

Indexes == 0 .. IndexMod - 1
Slots == 0 .. Capacity - 1
(* The two writes that fill a slot: the encoded header, then the payload. *)
Slot == [hdr : Messages, body : Messages]

VARIABLES
    head,           \* index of the next slot to publish, written by the producer
    tail,           \* index of the oldest unreleased slot, written by the consumer
    slots,          \* [Slots -> Slot]: the shared memory
    ppc,            \* where the producer is in emit
    pmsg,           \* the frame it is sending
    cpc,            \* where the consumer is in Poll
    pendingRead,    \* Client.pendingRead: the last Poll returned a frame
    got,            \* the header that Poll returned
    epochChanged    \* the host has restarted since the attach

producer == <<ppc, pmsg>>
consumer == <<cpc, pendingRead, got>>
vars == <<head, tail, slots, producer, consumer, epochChanged>>

slot(index) == index % Capacity
Successor(index) == (index + 1) % IndexMod

(* Ring.Count, in the wrapping arithmetic of the indexes. *)
Count == (head - tail) % IndexMod
-----------------------------------------------------------------------------
(* AttachRing takes over a ring at any position, with any content. *)
AttachRing ==
    /\ head \in Indexes
    /\ tail \in Indexes
    /\ Count <= Capacity
    /\ slots \in [Slots -> {s \in Slot : s.hdr = s.body}]

Init ==
    /\ AttachRing
    /\ ppc = "idle" /\ pmsg \in Messages
    /\ cpc = "out" /\ pendingRead = FALSE /\ got \in Messages
    /\ epochChanged = FALSE

(* A bug: a full ring is taken for one with room. *)
ProduceBeginFull ==
    /\ ppc = "idle" /\ ~epochChanged
    /\ Count <= Capacity
    /\ ppc' = "encode" /\ pmsg' \in Messages
    /\ UNCHANGED <<head, tail, slots, consumer, epochChanged>>

(* emit up to Ring.ProduceBegin; with no room it is ErrWouldBlock and nothing changes. *)
ProduceBegin ==
    /\ ppc = "idle" /\ ~epochChanged
    /\ Count < Capacity
    /\ ppc' = "encode" /\ pmsg' \in Messages
    /\ UNCHANGED <<head, tail, slots, consumer, epochChanged>>

(* emit: Frame.Encode into the slot. *)
Encode ==
    /\ ppc = "encode"
    /\ slots' = [slots EXCEPT ![slot(head)].hdr = pmsg]
    /\ ppc' = "copy"
    /\ UNCHANGED <<head, tail, pmsg, consumer, epochChanged>>

(* A bug: the slot is published before its payload is copied. *)
CopyAfterCommit ==
    /\ ppc = "copy"
    /\ ppc' = "commit"
    /\ UNCHANGED <<head, tail, slots, pmsg, consumer, epochChanged>>

(* emit: the payload into the slot. *)
Copy ==
    /\ ppc = "copy"
    /\ slots' = [slots EXCEPT ![slot(head)].body = pmsg]
    /\ ppc' = "commit"
    /\ UNCHANGED <<head, tail, pmsg, consumer, epochChanged>>

(* Ring.ProduceCommit *)
ProduceCommit ==
    /\ ppc = "commit"
    /\ head' = Successor(head)
    /\ ppc' = "idle"
    /\ UNCHANGED <<tail, slots, pmsg, consumer, epochChanged>>

(* A bug: the slot of the frame that Poll returned is not released. *)
PollRepeats ==
    /\ cpc = "out" /\ ~epochChanged
    /\ cpc' = "begin"
    /\ pendingRead' = FALSE
    /\ UNCHANGED <<head, tail, slots, got, producer, epochChanged>>

(* Poll: release the slot of the frame that the previous Poll returned. *)
Poll ==
    /\ cpc = "out" /\ ~epochChanged
    /\ cpc' = "begin"
    /\ pendingRead' = FALSE
    /\ tail' = IF pendingRead THEN Successor(tail) ELSE tail
    /\ UNCHANGED <<head, slots, got, producer, epochChanged>>

(* Ring.ConsumeBegin: with nothing to read Poll returns. *)
ConsumeBegin ==
    /\ cpc = "begin"
    /\ cpc' = IF head = tail THEN "out" ELSE "decode"
    /\ UNCHANGED <<head, tail, slots, pendingRead, got, producer, epochChanged>>

(* A bug: a frame that does not decode stays where it is. *)
DecodeStuck ==
    /\ cpc = "decode"
    /\ cpc' = "out"
    /\ got' = slots[slot(tail)].hdr
    /\ pendingRead' = (slots[slot(tail)].hdr \notin Undecodable)
    /\ UNCHANGED <<head, tail, slots, producer, epochChanged>>

(* Poll: decode the header in the slot.  A frame that does not decode is     *)
(* released at once and Poll returns as if there were none; otherwise the    *)
(* caller gets a view of the payload, which stays in the slot.               *)
Decode ==
    /\ cpc = "decode"
    /\ cpc' = "out"
    /\ \/ /\ slots[slot(tail)].hdr \in Undecodable
          /\ tail' = Successor(tail)
          /\ UNCHANGED <<pendingRead, got>>
       \/ /\ slots[slot(tail)].hdr \notin Undecodable
          /\ pendingRead' = TRUE
          /\ got' = slots[slot(tail)].hdr
          /\ UNCHANGED tail
    /\ UNCHANGED <<head, slots, producer, epochChanged>>

(* The host restarts: Client.EpochChanged holds from now on.  A frame that  *)
(* emit has begun is still published, and a slot that is held stays held.   *)
HostRestart ==
    /\ ~epochChanged
    /\ epochChanged' = TRUE
    /\ UNCHANGED <<head, tail, slots, producer, consumer>>

Producer == ProduceBegin \/ Encode \/ Copy \/ ProduceCommit
Consumer == Poll \/ ConsumeBegin \/ Decode

Next == Producer \/ Consumer \/ HostRestart

Spec == Init /\ [][Next]_vars

(* The consumer's loop (runModuleClient, awaitReply) polls for ever. *)
FairSpec == Spec /\ WF_vars(Consumer)
-----------------------------------------------------------------------------
(* Type correctness: the indexes never leave the range of a machine word and *)
(* an end is always at one of the steps of emit or Poll.                     *)
TypeOK ==
    /\ head \in Indexes
    /\ tail \in Indexes
    /\ slots \in [Slots -> Slot]
    /\ ppc \in {"idle", "encode", "copy", "commit"}
    /\ pmsg \in Messages
    /\ cpc \in {"out", "begin", "decode"}
    /\ pendingRead \in BOOLEAN
    /\ got \in Messages
    /\ epochChanged \in BOOLEAN

(* An end is at work on its slot. *)
Filling == ppc # "idle"
Reading == cpc = "decode" \/ (cpc = "out" /\ pendingRead)

(* The slot that the producer is filling, and the one that the consumer is   *)
(* reading (in Decode, or as the payload of the last Poll), are never the    *)
(* same: the two processes share no byte without an index between them, also *)
(* when the indexes have wrapped.                                            *)
NoDataRace == Filling /\ Reading => slot(head) # slot(tail)

(* Why: the producer fills only while there is room, the consumer reads only *)
(* while there is a frame, and neither can take that away from the other.    *)
RingInv ==
    /\ Count <= Capacity
    /\ Filling => Count < Capacity
    /\ Reading => Count > 0
    /\ pendingRead => cpc = "out"

(* The payload that Poll returned belongs to the frame it returned and keeps *)
(* its bytes until the next Poll, whatever the producer publishes meanwhile. *)
PayloadStableUntilPoll ==
    cpc = "out" /\ pendingRead => slots[slot(tail)] = [hdr |-> got, body |-> got]

(* Why: a published frame is whole, and nothing writes into it. *)
ContentInv ==
    /\ \A k \in 0 .. Count - 1 : slots[slot(tail + k)].hdr = slots[slot(tail + k)].body
    /\ ppc \in {"copy", "commit"} => slots[slot(head)].hdr = pmsg
    /\ ppc = "commit" => slots[slot(head)].body = pmsg
    /\ PayloadStableUntilPoll

(* What is between the indexes; a torn frame is no message. *)
Published == [i \in 1 .. Count |->
                LET s == slots[slot(tail + i - 1)] IN
                IF s.hdr = s.body THEN s.hdr ELSE s]
AsFifo == INSTANCE BoundedFifo WITH queue <- Published, holding <- pendingRead

(* The ring implements a bounded FIFO that neither loses, repeats, reorders *)
(* nor tears a frame.                                                       *)
ImplementsFifo == AsFifo!Fifo

(* Every published frame is got out of the ring: it never blocks behind one *)
(* that does not decode, and a full ring does not stay full.                *)
EveryFrameLeaves ==
    \A i \in Indexes : (tail = i /\ head # i) ~> (tail # i \/ epochChanged)
=============================================================================
