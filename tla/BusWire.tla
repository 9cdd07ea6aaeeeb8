------------------------------ MODULE BusWire ------------------------------
(***************************************************************************)
(* The frames of the bus and the module messages inside them: what         *)
(* bus/wire.go and bus/module_protocol.go accept, where bus/client.go puts *)
(* a payload when it emits a frame and where it looks for it when it polls *)
(* one.  Byte layout is left out; sizes and references are kept, in words  *)
(* of WordMod values, because they are what can overflow.                  *)
(***************************************************************************)
EXTENDS Integers, FiniteSets

CONSTANTS
    HdrLen,                     \* bytes of a frame header
    ModuleMessageHeaderLen,     \* bytes of a module message header
    MaxPayload,                 \* bound on the payload of a frame
    WordMod                     \* 2^64: references and their sums wrap there

ASSUME WireAssumption ==
    /\ HdrLen \in Nat \ {0} /\ ModuleMessageHeaderLen \in Nat \ {0}
    /\ MaxPayload \in Nat /\ WordMod \in Nat
    /\ HdrLen + MaxPayload < WordMod

Patterns == {"notification", "request", "reply", "cancel"}
Placements == {"inline", "arena"}
Flags == Patterns \cup Placements \cup {"control", "more", "unknown"}

(* A frame f has f.flags, a subset of Flags; f.version, whether its WireVersion *)
(* is the one this build speaks; f.corr; f.ref and f.len, its PayloadRef and    *)
(* PayloadLen; and f.leased, whether its Generation is not 0.                   *)

ExactlyOne(S) == Cardinality(S) = 1

Validate(f) ==
    /\ f.version
    /\ "unknown" \notin f.flags
    /\ ExactlyOne(f.flags \cap Patterns)
    /\ IF f.len > 0 THEN ExactlyOne(f.flags \cap Placements) /\ f.len <= MaxPayload
                    ELSE f.flags \cap Placements = {} /\ f.ref = 0
    /\ "more" \in f.flags =>
            {"request", "reply"} \cap f.flags # {} /\ "inline" \in f.flags
    /\ f.leased => "arena" \in f.flags
    /\ "notification" \in f.flags <=> f.corr = 0

(* Where a payload ends: the sum wraps. *)
End(f) == (f.ref + f.len) % WordMod

(* A bug: the end of the payload is compared, but not whether it wrapped. *)
CheckPlacementWraps(f, slotSize, arenaSize) ==
    /\ Validate(f)
    /\ f.len > 0 => IF "inline" \in f.flags
                    THEN f.ref >= HdrLen /\ End(f) <= slotSize
                    ELSE f.len <= arenaSize

CheckPlacement(f, slotSize, arenaSize) ==
    /\ Validate(f)
    /\ f.len > 0 => IF "inline" \in f.flags
                    THEN End(f) >= f.ref /\ f.ref >= HdrLen /\ End(f) <= slotSize
                    ELSE f.len <= arenaSize

(* Poll decodes and validates a frame but does not check its placement: it    *)
(* slices the slot when the end of the payload, wrapped, lies within slotSize, *)
(* the size of the attach reply.  The slice panics if the reference is past    *)
(* that end or the end past room, the bytes mapped from the slot on.           *)
Sliced(f, slotSize) == "inline" \in f.flags /\ f.len > 0 /\ End(f) <= slotSize
PollPanics(f, slotSize, room) == Sliced(f, slotSize) /\ (f.ref > End(f) \/ End(f) > room)

(* The bytes of the slot that the payload of an event stands for, otherwise.   *)
Viewed(f, slotSize) == IF Sliced(f, slotSize) THEN f.ref .. End(f) - 1 ELSE {}
-----------------------------------------------------------------------------
(* Client.emit. *)

Emitted(flags, corr, n) ==
    [flags |-> flags \cup (IF n > 0 THEN {"inline"} ELSE {}), version |-> TRUE,
     corr |-> corr, ref |-> IF n > 0 THEN HdrLen ELSE 0, len |-> n, leased |-> FALSE]

(* A bug: the header takes no room in the slot. *)
PayloadFitsBare(n, budget, slotSize) == n > 0 => n <= budget /\ n <= slotSize

PayloadFits(n, budget, slotSize) == n > 0 => n <= budget /\ HdrLen + n <= slotSize

(* What emit returns if the host is the same and there is room.  The budget    *)
(* and slotSize are those of the attach reply, room is the slot of the ring.   *)
emit(flags, corr, n, budget, slotSize, room) ==
    IF ~PayloadFits(n, budget, slotSize) THEN "payload"
    ELSE IF ~Validate(Emitted(flags, corr, n)) \/ room < HdrLen THEN "protocol"
    ELSE "ok"

(* The bytes of a payload that the copy into the slot keeps. *)
Copied(n, room) == IF HdrLen + n <= room THEN n ELSE room - HdrLen

(* RequestFragment and ReplyFragment. *)
Fragment(pattern, corr, n, more, budget, slotSize, room) ==
    IF corr = 0 \/ (more /\ n = 0) THEN "protocol"
    ELSE emit({pattern} \cup (IF more THEN {"more"} ELSE {}), corr, n, budget, slotSize, room)

(* DecodeModuleMessage: the message with this body length is accepted from a  *)
(* payload of n bytes.                                                        *)
ModuleMessageFits(body, n) ==
    n >= ModuleMessageHeaderLen /\ body <= n - ModuleMessageHeaderLen
=============================================================================
