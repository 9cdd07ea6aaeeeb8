----------------------------- MODULE BusClient -----------------------------
(***************************************************************************)
(* A client of the bus, from bus/client_connect.go, bus/client.go and      *)
(* bus/region.go: it connects to the socket of the host, is sent three     *)
(* descriptors, maps them, adopts the regions, sends messages in fragments *)
(* that fit the geometry the host gave it, and detaches.  The host may be  *)
(* away, restart, refuse or fail at any point of the handshake.            *)
(***************************************************************************)
EXTENDS BusWire

CONSTANTS
    Geometries,     \* the geometries the host may announce
    MaxLen          \* bound on the length of a message's body

Geometry == [slotSize : Nat, inlineBudget : Nat, arenaSize : Nat]

ASSUME GeometryAssumption == Geometries \subseteq Geometry /\ MaxLen \in Nat

VARIABLES
    host,       \* "listening", "stale" (its socket refuses) or "missing"
    ctxDone,    \* the context of ConnectClient has ended
    pc,         \* where the client is
    sock,       \* the attach socket is open
    fds,        \* the descriptors that are open
    maps,       \* the regions that are mapped
    reply,      \* what the host replied to the attach request
    geometry,   \* the geometry in that reply
    laid,       \* the geometry that the mapped regions themselves declare
    sending     \* the message being sent, and what its receiver has of it

net == <<host, ctxDone>>
vars == <<net, pc, sock, fds, maps, reply, geometry, laid, sending>>

Regions == {"control", "arena", "queues"}
Replies == {"none", "ok", "denied", "malformed"}

(* The regions are mapped in this order. *)
Next3(label) == CASE label = "control" -> "arena" [] label = "arena" -> "queues"
                  [] OTHER -> "adopt"

NoMessage == [status |-> "none", len |-> 0, offset |-> 0, bytes |-> 0, finals |-> 0]

Goto(label) == pc' = label
-----------------------------------------------------------------------------
(* The world. *)

HostChanges ==
    /\ \E h \in {"listening", "stale", "missing"} : h # host /\ host' = h
    /\ UNCHANGED <<ctxDone, pc, sock, fds, maps, reply, geometry, laid, sending>>

CtxEnds ==
    /\ ~ctxDone /\ ctxDone' = TRUE
    /\ UNCHANGED <<host, pc, sock, fds, maps, reply, geometry, laid, sending>>
-----------------------------------------------------------------------------
(* ConnectClient and connectModule: a refused connection is tried again. *)

Dial ==
    /\ pc = "dial"
    /\ \/ sock' = TRUE /\ Goto("connect")
       \/ sock' = FALSE /\ Goto("failed")
    /\ UNCHANGED <<net, fds, maps, reply, geometry, laid, sending>>

Connect ==
    /\ pc = "connect"
    /\ \/ host = "listening" /\ Goto("request") /\ UNCHANGED sock
       \/ host = "stale" /\ Goto("retry") /\ sock' = FALSE
       \/ host = "missing" /\ Goto("failed") /\ sock' = FALSE
    /\ UNCHANGED <<net, fds, maps, reply, geometry, laid, sending>>

(* A bug: nobody looks at the context between two attempts. *)
RetryStopsNever ==
    /\ FALSE
    /\ UNCHANGED vars

RetryStops ==
    /\ pc = "retry" /\ ctxDone /\ Goto("failed")
    /\ UNCHANGED <<net, sock, fds, maps, reply, geometry, laid, sending>>

RetryAgain ==
    /\ pc = "retry" /\ Goto("dial")
    /\ UNCHANGED <<net, sock, fds, maps, reply, geometry, laid, sending>>
-----------------------------------------------------------------------------
(* AttachAs.  Whoever called it closes the socket when it returns. *)

Fail == Goto("failed") /\ sock' = FALSE /\ fds' = {}

Request ==
    /\ pc = "request"
    /\ \/ Goto("reply") /\ UNCHANGED <<sock, fds>>
       \/ Fail
    /\ UNCHANGED <<net, maps, reply, geometry, laid, sending>>

(* The host answers, with descriptors or without, or it has gone away. *)
HostReplies ==
    /\ pc = "reply"
    /\ \/ /\ \E r \in Replies \ {"none"}, passed \in SUBSET Regions,
                   g \in Geometries, l \in Geometries :
                reply' = r /\ fds' = passed /\ geometry' = g /\ laid' = l
          /\ Goto("check") /\ UNCHANGED sock
       \/ Fail /\ UNCHANGED <<reply, geometry, laid>>
    /\ UNCHANGED <<net, maps, sending>>

CheckReply ==
    /\ pc = "check"
    /\ \/ reply = "ok" /\ fds = Regions /\ Goto("control") /\ UNCHANGED <<sock, fds>>
       \/ ~(reply = "ok" /\ fds = Regions) /\ Fail
    /\ UNCHANGED <<net, maps, reply, geometry, laid, sending>>

(* A bug: a mapping that fails leaves the earlier ones. *)
MapLeaks ==
    /\ pc \in Regions
    /\ \/ /\ maps' = maps \cup {pc} /\ Goto(Next3(pc))
          /\ fds' = IF Next3(pc) = "adopt" THEN {} ELSE fds
          /\ UNCHANGED sock
       \/ Fail /\ UNCHANGED maps
    /\ UNCHANGED <<net, reply, geometry, laid, sending>>

(* Map one region; the descriptors are closed when all are mapped. *)
Map ==
    /\ pc \in Regions
    /\ \/ /\ maps' = maps \cup {pc} /\ Goto(Next3(pc))
          /\ fds' = IF Next3(pc) = "adopt" THEN {} ELSE fds
          /\ UNCHANGED sock
       \/ maps' = {} /\ Fail
    /\ UNCHANGED <<net, reply, geometry, laid, sending>>

(* AttachControl: the geometry in the control region must make sense; nobody  *)
(* compares it with the reply's.  The rest of a region, which AttachQueuePair *)
(* and AttachRing look at too, may be valid or not.                           *)
GeometryOK == /\ laid.slotSize # 0 /\ laid.arenaSize # 0
              /\ laid.inlineBudget <= laid.slotSize

Adopt ==
    /\ pc = "adopt"
    /\ \/ GeometryOK /\ Goto("attached") /\ sock' = FALSE /\ UNCHANGED <<fds, maps>>
       \/ maps' = {} /\ Fail
    /\ UNCHANGED <<net, reply, geometry, laid, sending>>

(* Detach, deferred until the module's loop has returned. *)
Detach ==
    /\ pc = "attached" /\ sending.status # "sending"
    /\ Goto("detached") /\ maps' = {}
    /\ UNCHANGED <<net, sock, fds, reply, geometry, laid, sending>>
-----------------------------------------------------------------------------
(* ModuleCaller.send and replyModuleResult: the same walk over a body. *)

chunk == geometry.inlineBudget - ModuleMessageHeaderLen

SendStart ==
    /\ pc = "attached" /\ sending.status # "sending"
    /\ \E len \in 0 .. MaxLen :
        sending' = [NoMessage EXCEPT !.len = len,
                        !.status = IF chunk <= 0 THEN "runtime" ELSE "sending"]
    /\ UNCHANGED <<net, pc, sock, fds, maps, reply, geometry, laid>>

Part == IF sending.len - sending.offset > chunk THEN chunk ELSE sending.len - sending.offset

(* A bug: the last fragment of a body that fills its fragments says more. *)
MoreOffByOne == Part = chunk

More == sending.offset + Part < sending.len

(* One fragment, and what becomes of it at the other end: the payload in the *)
(* slot is decoded as a module message, and appended.                        *)
SendFragment ==
    /\ sending.status = "sending"
    /\ LET n == ModuleMessageHeaderLen + Part
           result == Fragment("request", 1, n, More, geometry.inlineBudget,
                              geometry.slotSize, laid.slotSize)
           arrived == Copied(n, laid.slotSize)
       IN sending' =
            IF result # "ok" THEN [sending EXCEPT !.status = result]
            ELSE [sending EXCEPT
                    !.offset = @ + Part,
                    !.bytes = IF ModuleMessageFits(Part, arrived) THEN @ + Part ELSE @,
                    !.finals = IF More THEN @ ELSE @ + 1,
                    !.status = IF sending.offset + Part < sending.len THEN "sending" ELSE "sent"]
    /\ UNCHANGED <<net, pc, sock, fds, maps, reply, geometry, laid>>
-----------------------------------------------------------------------------
Init ==
    /\ host \in {"listening", "stale", "missing"} /\ ctxDone = FALSE
    /\ pc = "dial" /\ sock = FALSE /\ fds = {} /\ maps = {}
    /\ reply = "none" /\ geometry \in Geometries /\ laid = geometry
    /\ sending = NoMessage

Client == \/ Dial \/ Connect \/ RetryStops \/ RetryAgain \/ Request \/ CheckReply
          \/ Map \/ Adopt \/ SendFragment

Next == HostChanges \/ CtxEnds \/ Client \/ HostReplies \/ SendStart \/ Detach

(* The client runs, and the host answers or goes away.  A retry that finds its *)
(* context ended and its timer expired takes either way, but not always the    *)
(* same one: Go chooses among the ready cases at random.                       *)
FairSpec ==
    /\ Init /\ [][Next]_vars
    /\ WF_vars(Client) /\ WF_vars(HostReplies) /\ SF_vars(RetryStops)
-----------------------------------------------------------------------------
(* Every way out of the handshake gives back what it took: no socket, no       *)
(* descriptor and, unless the client is attached, no mapping is left; and what  *)
(* is still being sent goes into mapped regions.                               *)
NothingLeaks ==
    /\ pc \in {"attached", "detached", "failed"} =>
        ~sock /\ fds = {} /\ maps = IF pc = "attached" THEN Regions ELSE {}
    /\ sending.status = "sending" => maps = Regions

(* When the context ends, ConnectClient returns, whether the host keeps        *)
(* restarting, stays away or answers; it does hang on a host that accepts the  *)
(* connection and then neither answers nor closes it.                          *)
CancelEndsConnect == ctxDone ~> pc \in {"attached", "detached", "failed"}

Attached == pc = "attached" /\ sending.status = "none"
Fits == /\ geometry.inlineBudget + HdrLen <= geometry.slotSize
        /\ geometry.inlineBudget <= MaxPayload

(* A frame that CheckPlacement accepts for the slots as they are laid out is   *)
(* viewed inside its slot and past the header, and never panics, though Poll   *)
(* goes by the size in the attach reply and adds without looking for a wrap.   *)
(* The view is the whole payload, or nothing where the reply's size, smaller   *)
(* than the slot, ends before it.                                              *)
Headers == [flags : {{p} \cup q \cup m : p \in Patterns, q \in SUBSET Placements,
                                        m \in {{}, {"more"}}},
            version : {TRUE}, corr : {0, 1}, ref : 0 .. WordMod - 1,
            len : 0 .. MaxPayload + 1, leased : BOOLEAN]

PlacedIsViewed ==
    Attached => \A f \in Headers :
        CheckPlacement(f, laid.slotSize, laid.arenaSize) =>
            LET view == Viewed(f, geometry.slotSize) IN
            /\ ~PollPanics(f, geometry.slotSize, laid.slotSize)
            /\ view \subseteq HdrLen .. laid.slotSize - 1
            /\ Cardinality(view) =
                    IF "inline" \in f.flags /\ End(f) <= geometry.slotSize THEN f.len ELSE 0

(* What emit puts into a slot is there for the other end, at any size that     *)
(* emit accepts and in every pattern that the client's operations use.  The    *)
(* copy keeps the whole payload unless the slots are laid out smaller than the *)
(* reply says; a frame whose payload it cut, CheckPlacement refuses at the     *)
(* laid size, and any other it accepts, and Poll views exactly what was copied.*)
EmittedIsViewed ==
    Attached => \A p \in Patterns, n \in 0 .. MaxPayload, more \in BOOLEAN, corr \in {0, 1} :
        LET f == Emitted({p} \cup (IF more THEN {"more"} ELSE {}), corr, n)
            kept == Copied(n, laid.slotSize)
            accepted == CheckPlacement(f, laid.slotSize, laid.arenaSize)
        IN  emit(f.flags \ Placements, corr, n, geometry.inlineBudget, geometry.slotSize,
                 laid.slotSize) = "ok" =>
                /\ laid.slotSize >= geometry.slotSize => kept = n
                /\ accepted <=> kept = n
                /\ accepted => /\ ~PollPanics(f, geometry.slotSize, laid.slotSize)
                               /\ Viewed(f, geometry.slotSize) = HdrLen .. HdrLen + kept - 1

(* A body of any length arrives whole, with the end marked once and last, over *)
(* regions laid out as the reply says, with room for the frame header beside   *)
(* the inline budget and no budget above the bound on payloads.  Where the     *)
(* reply and the regions differ, emit cuts the payload to the slot without an  *)
(* error, so the property cannot be wider.                                     *)
BodyArrives ==
    laid = geometry =>
        /\ sending.status = "sent" => sending.bytes = sending.len /\ sending.finals = 1
        /\ sending.status = "sending" => sending.finals = 0
        /\ sending.status \in {"payload", "protocol"} => ~Fits
=============================================================================
