--------------------------- MODULE BusClientProofs ---------------------------
(***************************************************************************)
(* What BusClient and the frames of BusWire guarantee for every geometry,  *)
(* every size of a word, a header and a payload, and every way in which    *)
(* the handshake may fail: nothing leaks, a frame is viewed where it was   *)
(* placed, and a body arrives whole.                                       *)
(***************************************************************************)
EXTENDS BusClient, FiniteSetTheorems, TLAPS

(* Where the client is, what it holds there. *)
Labels == {"dial", "connect", "retry", "request", "reply", "check", "adopt",
           "attached", "detached", "failed"} \cup Regions

(* The regions that are mapped when the client is at a label. *)
MappedAt(label) ==
    CASE label = "arena" -> {"control"}
      [] label = "queues" -> {"control", "arena"}
      [] label \in {"adopt", "attached"} -> Regions
      [] OTHER -> {}

HeldOK ==
    /\ pc \in Labels
    /\ maps = MappedAt(pc)
    /\ sock \in BOOLEAN /\ fds \subseteq Regions
    /\ pc \in {"dial", "retry", "attached", "detached", "failed"} => ~sock
    /\ fds # {} => pc \in {"check"} \cup Regions
    /\ sending.status = "sending" => pc = "attached"

LEMMA HeldInit == Init => HeldOK
<1> SUFFICES ASSUME Init PROVE HeldOK
  OBVIOUS
<1>1. /\ pc = "dial" /\ maps = {} /\ sock = FALSE /\ fds = {}
      /\ sending.status = "none"
  BY DEF Init, NoMessage
<1>2. MappedAt(pc) = {}
  BY <1>1 DEF MappedAt
<1> QED BY <1>1, <1>2 DEF HeldOK, Labels

LEMMA HeldStep == HeldOK /\ [Next]_vars => HeldOK'
<1> SUFFICES ASSUME HeldOK, [Next]_vars PROVE HeldOK'
  OBVIOUS
<1> USE DEF HeldOK, Labels, MappedAt, Regions, net, Goto, Fail
<1>1. CASE HostChanges \/ CtxEnds \/ UNCHANGED vars
  BY <1>1 DEF HostChanges, CtxEnds, vars
<1>2. CASE Dial
  BY <1>2 DEF Dial
<1>3. CASE Connect
  BY <1>3 DEF Connect
<1>4. CASE RetryStops \/ RetryAgain
  BY <1>4 DEF RetryStops, RetryAgain
<1>5. CASE Request
  BY <1>5 DEF Request
<1>6. CASE HostReplies
  BY <1>6 DEF HostReplies
<1>7. CASE CheckReply
  BY <1>7 DEF CheckReply
<1>8. CASE Map
  BY <1>8 DEF Map, Next3
<1>9. CASE Adopt
  BY <1>9 DEF Adopt
<1>10. CASE Detach
  BY <1>10 DEF Detach
<1>11. CASE SendStart
  BY <1>11 DEF SendStart
<1>12. CASE SendFragment
  BY <1>12 DEF SendFragment
<1> QED BY <1>1, <1>2, <1>3, <1>4, <1>5, <1>6, <1>7, <1>8, <1>9, <1>10, <1>11, <1>12
        DEF Next, Client

LEMMA HeldHolds == Init /\ [][Next]_vars => []HeldOK
BY HeldInit, HeldStep, PTL

(* Every way out of ConnectClient and Detach gives back the socket, the      *)
(* descriptors and the mappings; and a message goes into mapped regions.     *)
THEOREM NothingLeaksHolds == FairSpec => []NothingLeaks
<1>1. HeldOK => NothingLeaks
  BY DEF HeldOK, NothingLeaks, MappedAt, Labels, Regions
<1> QED BY <1>1, HeldHolds, PTL DEF FairSpec

-----------------------------------------------------------------------------
(* Arithmetic of words. *)

LEMMA ModBelow ==
    ASSUME NEW b \in Nat, NEW x \in Nat, x < b
    PROVE  x % b = x
OBVIOUS

LEMMA ModOnce ==
    ASSUME NEW b \in Nat, NEW x \in Nat, b <= x, x < b + b
    PROVE  x % b = x - b
<1>1. b > 0 /\ x - b \in 0 .. b - 1
  OBVIOUS
<1>2. x % b \in 0 .. b - 1
  BY <1>1
<1>3. PICK q \in Int : x = b * q + (x % b)
  BY <1>1
<1>4. CASE q <= 0
  <2>1. b * q <= 0
    BY <1>4
  <2> QED BY <1>2, <1>3, <2>1
<1>5. CASE q >= 2
  <2>1. b * q >= b + b
    BY <1>5
  <2> QED BY <1>2, <1>3, <2>1
<1>6. CASE q = 1
  BY <1>2, <1>3, <1>6
<1> QED BY <1>4, <1>5, <1>6

(* The sum of a reference and a length that has not come out below the       *)
(* reference has not wrapped.                                                *)
LEMMA NoWrap ==
    ASSUME NEW ref \in 0 .. WordMod - 1, NEW len \in 0 .. MaxPayload,
           (ref + len) % WordMod >= ref, len > 0
    PROVE  (ref + len) % WordMod = ref + len
<1>1. WordMod \in Nat /\ len < WordMod
  BY WireAssumption
<1>2. CASE ref + len < WordMod
  BY <1>1, <1>2, ModBelow
<1>3. CASE ref + len >= WordMod
  <2>1. ref + len \in Nat /\ ref + len < WordMod + WordMod
    BY <1>1
  <2>2. (ref + len) % WordMod = (ref + len) - WordMod
    BY <1>1, <1>3, <2>1, ModOnce
  <2> QED BY <1>1, <2>2
<1> QED BY <1>1, <1>2, <1>3

-----------------------------------------------------------------------------
(* Frames. *)

GeometryTypeOK == geometry \in Geometry /\ laid \in Geometry

LEMMA GeometryInit == Init => GeometryTypeOK
BY GeometryAssumption DEF Init, GeometryTypeOK

LEMMA GeometryStep == GeometryTypeOK /\ [Next]_vars => GeometryTypeOK'
BY GeometryAssumption
   DEF GeometryTypeOK, Next, Client, vars, net, HostChanges, CtxEnds, Dial, Connect, RetryStops,
       RetryAgain, Request, HostReplies, CheckReply, Map, Adopt, Detach, SendStart, SendFragment

LEMMA GeometryHolds == Init /\ [][Next]_vars => []GeometryTypeOK
BY GeometryInit, GeometryStep, PTL

(* The end of a payload that is accepted has not wrapped. *)
LEMMA AcceptedEnds ==
    ASSUME NEW f \in Headers, NEW slotSize \in Nat, NEW arenaSize \in Nat,
           CheckPlacement(f, slotSize, arenaSize), "inline" \in f.flags
    PROVE  /\ f.ref \in Nat /\ f.len \in Nat \ {0}
           /\ End(f) = f.ref + f.len
           /\ f.ref >= HdrLen /\ f.ref + f.len <= slotSize
<1>1. /\ f.ref \in 0 .. WordMod - 1 /\ f.len \in 0 .. MaxPayload + 1
      /\ HdrLen \in Nat \ {0} /\ MaxPayload \in Nat /\ WordMod \in Nat
  BY WireAssumption DEF Headers
<1>2. f.len > 0 /\ f.len <= MaxPayload
  BY <1>1 DEF CheckPlacement, Validate, Placements
<1>3. End(f) >= f.ref /\ f.ref >= HdrLen /\ End(f) <= slotSize
  BY <1>2 DEF CheckPlacement
<1>4. End(f) = f.ref + f.len
  BY <1>1, <1>2, <1>3, NoWrap DEF End
<1> QED BY <1>1, <1>2, <1>3, <1>4

LEMMA AcceptedIsViewed ==
    ASSUME NEW f \in Headers, NEW laidSize \in Nat, NEW arenaSize \in Nat, NEW slotSize \in Nat,
           CheckPlacement(f, laidSize, arenaSize)
    PROVE  /\ ~PollPanics(f, slotSize, laidSize)
           /\ Viewed(f, slotSize) \subseteq HdrLen .. laidSize - 1
           /\ Cardinality(Viewed(f, slotSize)) =
                    IF "inline" \in f.flags /\ End(f) <= slotSize THEN f.len ELSE 0
<1>1. CASE "inline" \in f.flags /\ End(f) <= slotSize
  <2>1. /\ f.ref \in Nat /\ f.len \in Nat \ {0} /\ HdrLen \in Nat
        /\ End(f) = f.ref + f.len
        /\ f.ref >= HdrLen /\ f.ref + f.len <= laidSize
    BY <1>1, AcceptedEnds, WireAssumption
  <2>2. Viewed(f, slotSize) = f.ref .. f.ref + f.len - 1
    BY <1>1, <2>1 DEF Viewed, Sliced
  <2>3. Cardinality(f.ref .. f.ref + f.len - 1) = f.len
    <3>1. /\ f.ref \in Int /\ f.ref + f.len - 1 \in Int
          /\ ~(f.ref > f.ref + f.len - 1)
          /\ (f.ref + f.len - 1) - f.ref + 1 = f.len
      BY <2>1
    <3> QED BY <3>1, FS_Interval
  <2>4. f.ref .. f.ref + f.len - 1 \subseteq HdrLen .. laidSize - 1
    BY <2>1
  <2>5. ~PollPanics(f, slotSize, laidSize)
    BY <2>1 DEF PollPanics
  <2> QED BY <1>1, <2>2, <2>3, <2>4, <2>5
<1>2. CASE ~("inline" \in f.flags /\ End(f) <= slotSize)
  <2>1. Viewed(f, slotSize) = {} /\ ~PollPanics(f, slotSize, laidSize)
    BY <1>2 DEF Viewed, PollPanics, Sliced
  <2> QED BY <1>2, <2>1, FS_EmptySet
<1> QED BY <1>1, <1>2

(* A frame that passes CheckPlacement for the slots as they are laid out is  *)
(* viewed by Poll inside its slot, and never panics it, whatever the reply   *)
(* said of their size: for every geometry and width of a word.               *)
THEOREM PlacedIsViewedHolds == FairSpec => []PlacedIsViewed
<1>1. GeometryTypeOK => PlacedIsViewed
  <2> SUFFICES ASSUME GeometryTypeOK, NEW f \in Headers,
                      CheckPlacement(f, laid.slotSize, laid.arenaSize)
               PROVE  LET view == Viewed(f, geometry.slotSize) IN
                      /\ ~PollPanics(f, geometry.slotSize, laid.slotSize)
                      /\ view \subseteq HdrLen .. laid.slotSize - 1
                      /\ Cardinality(view) =
                            IF "inline" \in f.flags /\ End(f) <= geometry.slotSize
                            THEN f.len ELSE 0
    BY DEF PlacedIsViewed
  <2>1. geometry.slotSize \in Nat /\ laid.slotSize \in Nat /\ laid.arenaSize \in Nat
    BY DEF GeometryTypeOK, Geometry
  <2> QED BY <2>1, AcceptedIsViewed
<1> QED BY <1>1, GeometryHolds, PTL DEF FairSpec

(* Whatever the sizes in the reply and in the regions, the copy of emit keeps *)
(* the whole payload or CheckPlacement refuses the frame at the laid size; and *)
(* what it accepts is viewed byte for byte where emit copied it.               *)
THEOREM EmittedIsViewedHolds == FairSpec => []EmittedIsViewed
<1>1. GeometryTypeOK => EmittedIsViewed
  <2> SUFFICES ASSUME GeometryTypeOK,
                      NEW p \in Patterns, NEW n \in 0 .. MaxPayload, NEW more \in BOOLEAN,
                      NEW corr \in {0, 1},
                      emit(Emitted({p} \cup (IF more THEN {"more"} ELSE {}), corr, n).flags
                               \ Placements, corr, n, geometry.inlineBudget,
                           geometry.slotSize, laid.slotSize) = "ok"
               PROVE  LET f == Emitted({p} \cup (IF more THEN {"more"} ELSE {}), corr, n)
                          kept == Copied(n, laid.slotSize)
                          accepted == CheckPlacement(f, laid.slotSize, laid.arenaSize)
                      IN  /\ laid.slotSize >= geometry.slotSize => kept = n
                          /\ accepted <=> kept = n
                          /\ accepted =>
                                /\ ~PollPanics(f, geometry.slotSize, laid.slotSize)
                                /\ Viewed(f, geometry.slotSize) = HdrLen .. HdrLen + kept - 1
    BY Zenon DEF EmittedIsViewed
  <2> DEFINE f == Emitted({p} \cup (IF more THEN {"more"} ELSE {}), corr, n)
             kept == Copied(n, laid.slotSize)
             accepted == CheckPlacement(f, laid.slotSize, laid.arenaSize)
  <2>1. /\ n \in Nat /\ n <= MaxPayload /\ MaxPayload \in Nat /\ WordMod \in Nat
        /\ HdrLen \in Nat \ {0} /\ HdrLen + MaxPayload < WordMod
        /\ geometry.slotSize \in Nat /\ laid.slotSize \in Nat
    BY WireAssumption DEF GeometryTypeOK, Geometry
  <2>2. /\ f.ref = (IF n > 0 THEN HdrLen ELSE 0) /\ f.len = n
        /\ "inline" \in f.flags <=> n > 0
    BY DEF Emitted, Patterns
  <2>3. Emitted(f.flags \ Placements, corr, n) = f
    <3>1. f.flags \ Placements = {p} \cup (IF more THEN {"more"} ELSE {})
      BY DEF Emitted, Placements, Patterns
    <3> QED BY <3>1
  <2> HIDE DEF f
  <2>4. /\ Validate(f) /\ PayloadFits(n, geometry.inlineBudget, geometry.slotSize)
        /\ laid.slotSize >= HdrLen
    BY <2>1, <2>3 DEF emit, f
  <2>5. kept = n <=> HdrLen + n <= laid.slotSize
    BY <2>1, <2>4 DEF Copied
  <2>6. CASE n = 0
    <3>1. Viewed(f, geometry.slotSize) = {} /\ HdrLen .. HdrLen + n - 1 = {}
      BY <2>1, <2>2, <2>6 DEF Viewed, Sliced
    <3>2. ~PollPanics(f, geometry.slotSize, laid.slotSize)
      BY <2>1, <2>2, <2>6 DEF PollPanics, Sliced
    <3>3. kept = n
      BY <2>1, <2>4, <2>5, <2>6
    <3>4. accepted
      BY <2>2, <2>4, <2>6 DEF CheckPlacement
    <3> HIDE DEF kept, accepted
    <3>5. HdrLen .. HdrLen + kept - 1 = HdrLen .. HdrLen + n - 1
      BY <3>3
    <3>6. Viewed(f, geometry.slotSize) = HdrLen .. HdrLen + kept - 1
      BY <3>1, <3>5
    <3> QED BY <3>2, <3>3, <3>4, <3>6 DEF f, kept, accepted
  <2>7. CASE n > 0
    <3>1. HdrLen + n <= geometry.slotSize
      BY <2>4, <2>7 DEF PayloadFits
    <3>2. End(f) = HdrLen + n
      <4>1. HdrLen + n \in Nat /\ HdrLen + n < WordMod
        BY <2>1
      <4> QED BY <2>1, <2>2, <2>7, <4>1, ModBelow DEF End
    <3>3. accepted <=> HdrLen + n <= laid.slotSize
      BY <2>1, <2>2, <2>4, <2>7, <3>2 DEF CheckPlacement
    <3>4. Viewed(f, geometry.slotSize) = HdrLen .. HdrLen + n - 1
      BY <2>1, <2>2, <2>7, <3>1, <3>2 DEF Viewed, Sliced
    <3>5. HdrLen + n <= laid.slotSize => ~PollPanics(f, geometry.slotSize, laid.slotSize)
      BY <2>1, <2>2, <2>7, <3>2 DEF PollPanics
    <3>6. laid.slotSize >= geometry.slotSize => kept = n
      BY <2>1, <2>5, <3>1
    <3> HIDE DEF kept, accepted
    <3>7. accepted <=> kept = n
      BY <2>5, <3>3
    <3>8. accepted => /\ ~PollPanics(f, geometry.slotSize, laid.slotSize)
                      /\ Viewed(f, geometry.slotSize) = HdrLen .. HdrLen + kept - 1
      BY <3>3, <3>4, <3>5, <3>7
    <3> QED BY <3>6, <3>7, <3>8 DEF f, kept, accepted
  <2> QED BY <2>1, <2>6, <2>7
<1> QED BY <1>1, GeometryHolds, PTL DEF FairSpec

-----------------------------------------------------------------------------
(* The walk over a body: what was sent is what arrived, and the end has not  *)
(* been marked before the last fragment.                                     *)
Sending == [status : {"none", "sending", "sent", "runtime", "payload", "protocol"},
            len : Nat, offset : Nat, bytes : Nat, finals : Nat]

BodyInv ==
    /\ sending \in Sending
    /\ sending.status # "none" => pc \in {"attached", "detached"}
    /\ sending.status = "sending" =>
            /\ chunk > 0
            /\ sending.offset <= sending.len
            /\ sending.finals = 0
            /\ laid = geometry => sending.bytes = sending.offset
    /\ BodyArrives

LEMMA BodyInit == Init => BodyInv
BY DEF Init, BodyInv, Sending, NoMessage, BodyArrives

(* A fragment of a body fits, or the geometry was bad. *)
LEMMA FragmentFits ==
    ASSUME GeometryTypeOK, laid = geometry, Fits, chunk > 0, NEW part \in 0 .. chunk,
           NEW more \in BOOLEAN
    PROVE  Fragment("request", 1, ModuleMessageHeaderLen + part, more, geometry.inlineBudget,
                    geometry.slotSize, laid.slotSize) = "ok"
<1> DEFINE n == ModuleMessageHeaderLen + part
           flags == {"request"} \cup (IF more THEN {"more"} ELSE {})
           f == Emitted(flags, 1, n)
<1>1. /\ n \in Nat /\ n > 0 /\ n <= geometry.inlineBudget
      /\ n <= MaxPayload
      /\ HdrLen + n <= geometry.slotSize /\ HdrLen <= geometry.slotSize
      /\ geometry.slotSize \in Nat /\ HdrLen \in Nat /\ MaxPayload \in Nat
  BY WireAssumption DEF GeometryTypeOK, Geometry, chunk, Fits
<1> HIDE DEF n
<1>2. /\ f.version /\ ~f.leased /\ f.corr = 1 /\ f.len = n
      /\ f.flags = flags \cup {"inline"}
  BY <1>1 DEF Emitted
<1>3. /\ f.flags \cap Patterns = {"request"} /\ f.flags \cap Placements = {"inline"}
      /\ "unknown" \notin f.flags /\ "notification" \notin f.flags
      /\ "request" \in f.flags /\ "inline" \in f.flags
      /\ {"request", "reply"} \cap f.flags # {}
  BY <1>2 DEF Patterns, Placements
<1>4. ExactlyOne(f.flags \cap Patterns) /\ ExactlyOne(f.flags \cap Placements)
  BY <1>3, FS_Singleton DEF ExactlyOne
<1> HIDE DEF f
<1>5. Validate(f)
  <2>1. f.len > 0 /\ f.len <= MaxPayload /\ f.corr # 0
    BY <1>1, <1>2
  <2> QED BY <1>2, <1>3, <1>4, <2>1, Zenon DEF Validate
<1>6. emit(flags, 1, n, geometry.inlineBudget, geometry.slotSize, laid.slotSize) = "ok"
  BY <1>1, <1>5 DEF emit, PayloadFits, f
<1> QED BY <1>1, <1>6 DEF Fragment, n

LEMMA FragmentCopied ==
    ASSUME GeometryTypeOK, NEW n \in Nat, NEW more \in BOOLEAN, n > 0,
           Fragment("request", 1, n, more, geometry.inlineBudget, geometry.slotSize,
                    laid.slotSize) = "ok",
           laid = geometry
    PROVE  Copied(n, laid.slotSize) = n
<1>1. PayloadFits(n, geometry.inlineBudget, geometry.slotSize)
  BY DEF Fragment, emit
<1> QED BY <1>1, WireAssumption DEF PayloadFits, Copied

LEMMA BodyFragment ==
    ASSUME GeometryTypeOK, BodyInv, SendFragment
    PROVE  BodyInv'
<1> DEFINE n == ModuleMessageHeaderLen + Part
           result == Fragment("request", 1, n, More, geometry.inlineBudget,
                              geometry.slotSize, laid.slotSize)
           arrived == Copied(n, laid.slotSize)
<1>1. /\ chunk \in Nat /\ chunk > 0 /\ sending \in Sending
      /\ sending.offset \in Nat /\ sending.len \in Nat /\ sending.offset <= sending.len
      /\ sending.bytes \in Nat /\ sending.finals = 0
      /\ laid = geometry => sending.bytes = sending.offset
      /\ pc \in {"attached", "detached"} /\ ModuleMessageHeaderLen \in Nat \ {0}
  BY WireAssumption DEF SendFragment, BodyInv, GeometryTypeOK, Geometry, chunk, Sending
<1>2. /\ Part \in 0 .. chunk /\ n \in Nat /\ n > 0 /\ More \in BOOLEAN
      /\ sending.offset + Part <= sending.len
      /\ ~More => sending.offset + Part = sending.len
  BY <1>1 DEF Part, More
<1>3. /\ sending' = IF result # "ok" THEN [sending EXCEPT !.status = result]
                    ELSE [sending EXCEPT
                            !.offset = @ + Part,
                            !.bytes = IF ModuleMessageFits(Part, arrived) THEN @ + Part ELSE @,
                            !.finals = IF More THEN @ ELSE @ + 1,
                            !.status = IF More THEN "sending" ELSE "sent"]
      /\ UNCHANGED <<geometry, laid, pc>>
  BY DEF SendFragment, More
<1>4. chunk' = chunk /\ (Fits' <=> Fits)
  BY <1>3 DEF chunk, Fits
<1>5. result \in {"ok", "payload", "protocol"}
  BY DEF Fragment, emit
<1>6. laid = geometry /\ Fits => result = "ok"
  BY <1>1, <1>2, FragmentFits
<1>7. laid = geometry /\ result = "ok" => ModuleMessageFits(Part, arrived)
  <2> SUFFICES ASSUME laid = geometry, result = "ok" PROVE ModuleMessageFits(Part, arrived)
    OBVIOUS
  <2>1. arrived = n
    BY <1>2, FragmentCopied
  <2> QED BY <1>1, <1>2, <2>1 DEF ModuleMessageFits
<1> HIDE DEF n, result, arrived
<1>8. CASE result # "ok"
  <2>1. /\ sending'.status \in {"payload", "protocol"} /\ sending' \in Sending
    BY <1>1, <1>3, <1>5, <1>8 DEF Sending
  <2> QED BY <1>1, <1>3, <1>4, <1>6, <1>8, <2>1 DEF BodyInv, BodyArrives
<1>9. CASE result = "ok"
  <2> DEFINE bytes == IF ModuleMessageFits(Part, arrived) THEN sending.bytes + Part
                                                        ELSE sending.bytes
             finals == IF More THEN sending.finals ELSE sending.finals + 1
             status == IF More THEN "sending" ELSE "sent"
  <2>1. /\ bytes \in Nat /\ finals = (IF More THEN 0 ELSE 1)
        /\ status \in {"sending", "sent"}
        /\ laid = geometry => bytes = sending.bytes + Part
        /\ sending.offset + Part \in Nat
    BY <1>1, <1>2, <1>7, <1>9
  <2>2. sending' = [sending EXCEPT !.offset = sending.offset + Part, !.bytes = bytes,
                                   !.finals = finals, !.status = status]
    BY <1>1, <1>3, <1>9 DEF Sending
  <2> HIDE DEF bytes, finals
  <2>3. /\ sending' \in Sending /\ sending'.len = sending.len
        /\ sending'.offset = sending.offset + Part
        /\ sending'.status = IF More THEN "sending" ELSE "sent"
        /\ sending'.finals = IF More THEN 0 ELSE 1
        /\ laid = geometry => sending'.bytes = sending.bytes + Part
    BY <1>1, <2>1, <2>2 DEF Sending
  <2> QED BY <1>1, <1>2, <1>3, <1>4, <2>3 DEF BodyInv, BodyArrives
<1> QED BY <1>8, <1>9

LEMMA BodyStep == GeometryTypeOK /\ BodyInv /\ [Next]_vars => BodyInv'
<1> SUFFICES ASSUME GeometryTypeOK, BodyInv, [Next]_vars PROVE BodyInv'
  OBVIOUS
<1>1. CASE SendFragment
  BY <1>1, BodyFragment
<1>2. CASE SendStart
  <2>1. PICK len \in 0 .. MaxLen :
            sending' = [NoMessage EXCEPT !.len = len,
                            !.status = IF chunk <= 0 THEN "runtime" ELSE "sending"]
    BY <1>2 DEF SendStart
  <2>2. /\ sending' \in Sending /\ sending'.status \in {"runtime", "sending"}
        /\ sending'.status = "sending" => chunk > 0
        /\ sending'.len = len /\ sending'.offset = 0 /\ sending'.bytes = 0
        /\ sending'.finals = 0
    <3> DEFINE status == IF chunk <= 0 THEN "runtime" ELSE "sending"
    <3>1. len \in Nat /\ chunk \in Int
      BY GeometryAssumption, WireAssumption DEF GeometryTypeOK, Geometry, chunk
    <3>2. status \in {"runtime", "sending"} /\ (status = "sending" => chunk > 0)
      BY <3>1
    <3>3. sending' = [status |-> status, len |-> len, offset |-> 0, bytes |-> 0, finals |-> 0]
      BY <2>1 DEF NoMessage
    <3> HIDE DEF status
    <3> QED BY <3>1, <3>2, <3>3 DEF Sending
  <2>3. UNCHANGED <<pc, geometry, laid>> /\ pc = "attached" /\ chunk' = chunk /\ len \in Nat
    BY <1>2, GeometryAssumption DEF SendStart, chunk
  <2> QED BY <2>2, <2>3 DEF BodyInv, BodyArrives
<1>3. CASE HostReplies
  <2>1. sending' = sending /\ sending.status = "none" /\ sending \in Sending
    BY <1>3 DEF HostReplies, BodyInv
  <2> QED BY <2>1 DEF BodyInv, BodyArrives
<1>4. CASE \/ HostChanges \/ CtxEnds \/ UNCHANGED vars
           \/ Dial \/ Connect \/ RetryStops \/ RetryAgain \/ Request \/ CheckReply
           \/ Map \/ Adopt \/ Detach
  <2>1. UNCHANGED <<sending, geometry, laid>>
    BY <1>4 DEF HostChanges, CtxEnds, vars, Dial, Connect, RetryStops, RetryAgain, Request,
                CheckReply, Map, Adopt, Detach, net
  <2>2. pc \in {"attached", "detached"} => pc' \in {"attached", "detached"}
    BY <1>4 DEF HostChanges, CtxEnds, vars, Dial, Connect, RetryStops, RetryAgain, Request,
                CheckReply, Map, Adopt, Detach, net, Goto, Regions
  <2>3. chunk' = chunk /\ (Fits' <=> Fits)
    BY <2>1 DEF chunk, Fits
  <2> QED BY <2>1, <2>2, <2>3 DEF BodyInv, BodyArrives
<1> QED BY <1>1, <1>2, <1>3, <1>4 DEF Next, Client

(* A body of any length arrives whole over regions laid out as the reply     *)
(* says, for any geometry with room for a payload of the budget; a body that *)
(* does not get through is the geometry's fault.                             *)
THEOREM BodyArrivesHolds == FairSpec => []BodyArrives
<1>1. BodyInv => BodyArrives
  BY DEF BodyInv
<1> QED BY <1>1, BodyInit, BodyStep, GeometryHolds, PTL DEF FairSpec
=============================================================================
