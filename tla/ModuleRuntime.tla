--------------------------- MODULE ModuleRuntime ---------------------------
(***************************************************************************)
(* The serving side of the module bus: runModuleClient of                  *)
(* bus/module_runtime.go.  One goroutine, the loop, drains finished work,  *)
(* polls the inbound ring, puts requests together from their fragments and *)
(* starts a handler goroutine for each complete one; a handler ends by     *)
(* sending its result over the channel done.  The loop alone writes        *)
(* replies, and waits when the outbound ring is full.                      *)
(*                                                                         *)
(* The rings are the FIFOs of module Ring.  Callers and the host, which    *)
(* relays between them and this process, are the environment.              *)
(***************************************************************************)
EXTENDS Integers, FiniteSets, Sequences

CONSTANTS
    Calls,              \* the calls that are made to this process
    CallOf,             \* [Calls -> Call]: what each of them sends
    Stages,             \* the event kinds the process serves
    HandlerStatus,      \* what the handler may return
    moduleMaxInFlight,  \* bound on assemblies, on jobs and of the channel done
    MaxBody,            \* ModuleMessageMaxBody, in fragments
    InboundCap,         \* capacity of the inbound ring
    OutboundCap,        \* capacity of the outbound ring
    MaxClock            \* bound on time

Corrs == {CallOf[c].corr : c \in Calls}
Trace == {"t1", "t2"}

(* A call is sent in frags fragments; the ones in bad have no valid module     *)
(* message.  deadline is 0 for none.  A successful response has resp fragments. *)
(* A call of type other is no request at all, but a frame that strayed here.    *)
Call == [type : {"request", "other"}, corr : Nat \ {0}, kind : Nat \ {0}, frags : Nat \ {0}, bad : SUBSET Nat,
         deadline : Nat, trace : Trace, resp : Nat \ {0}]

Status == {"ok", "cancelled", "deadline", "invalid", "internal"}

ASSUME CallsAssumption == IsFiniteSet(Calls) /\ Calls # {} /\ CallOf \in [Calls -> Call]
ASSUME SizesAssumption ==
    /\ moduleMaxInFlight \in Nat \ {0}
    /\ MaxBody \in Nat \ {0}
    /\ InboundCap \in Nat \ {0}
    /\ OutboundCap \in Nat \ {0}
    /\ MaxClock \in Nat
    /\ HandlerStatus \subseteq Status

VARIABLES
    inbound,        \* frames that the host relayed and the loop has not polled
    outbound,       \* number of reply fragments that the host has not taken
    sent,           \* [Calls -> Nat]: fragments the caller has sent
    gaveUp,         \* the calls their callers have cancelled
    clock,          \* CLOCK_MONOTONIC
    ctxDone,        \* the process was told to stop
    epochChanged,   \* the host has restarted
    mpc,            \* where the loop is
    now,            \* the loop's reading of the clock
    assemblies,     \* [Corrs -> Seq(fragment)], empty where there is none
    jobs,           \* [Corrs -> Work], NoWork where there is none
    done,           \* the channel: correlations of finished work
    reply,          \* the reply being sent: to which call, status, fragments left
    replies,        \* [Calls -> Seq(Status)]: replies sent in full, history
    exit            \* what runModuleClient returned

env == <<sent, gaveUp, clock, ctxDone, epochChanged>>
vars == <<inbound, outbound, env, mpc, now, assemblies, jobs, done, reply, replies, exit>>

Fragment == [call : Calls, part : Nat]
Frame == [type : {"request", "cancel", "other"}, call : Calls, part : Nat]

(* doomed is history: the work was cancelled or late when its handler returned. *)
Work == [call : Calls, body : Seq(Fragment),
         phase : {"none", "running", "returned", "done"},
         cancelled : BOOLEAN, doomed : BOOLEAN, status : Status]

AnyCall == CHOOSE c \in Calls : TRUE
NoWork == [call |-> AnyCall, body |-> <<>>, phase |-> "none", cancelled |-> FALSE,
           doomed |-> FALSE, status |-> "ok"]

Jobs == {k \in Corrs : jobs[k].phase # "none"}
Assemblies == {k \in Corrs : assemblies[k] # <<>>}

Expired(c, time) == CallOf[c].deadline # 0 /\ time >= CallOf[c].deadline
-----------------------------------------------------------------------------
(* Callers and the host. *)

SendFragment(c) ==
    /\ sent[c] < CallOf[c].frags /\ c \notin gaveUp
    /\ Len(inbound) < InboundCap
    /\ sent' = [sent EXCEPT ![c] = @ + 1]
    /\ inbound' = Append(inbound, [type |-> CallOf[c].type, call |-> c, part |-> sent[c] + 1])
    /\ UNCHANGED <<outbound, gaveUp, clock, ctxDone, epochChanged, mpc, now, assemblies,
                   jobs, done, reply, replies, exit>>

(* Client.Cancel: the caller wants no more of this call. *)
SendCancel(c) ==
    /\ sent[c] > 0 /\ c \notin gaveUp
    /\ Len(inbound) < InboundCap
    /\ gaveUp' = gaveUp \cup {c}
    /\ inbound' = Append(inbound, [type |-> "cancel", call |-> c, part |-> 0])
    /\ UNCHANGED <<outbound, sent, clock, ctxDone, epochChanged, mpc, now, assemblies,
                   jobs, done, reply, replies, exit>>

HostTakes ==
    /\ outbound > 0
    /\ outbound' = outbound - 1
    /\ UNCHANGED <<inbound, env, mpc, now, assemblies, jobs, done, reply, replies, exit>>

HostRestart ==
    /\ ~epochChanged
    /\ epochChanged' = TRUE
    /\ UNCHANGED <<inbound, outbound, sent, gaveUp, clock, ctxDone, mpc, now, assemblies,
                   jobs, done, reply, replies, exit>>

Stop ==
    /\ ~ctxDone
    /\ ctxDone' = TRUE
    /\ UNCHANGED <<inbound, outbound, sent, gaveUp, clock, epochChanged, mpc, now,
                   assemblies, jobs, done, reply, replies, exit>>

Tick ==
    /\ clock < MaxClock
    /\ clock' = clock + 1
    /\ UNCHANGED <<inbound, outbound, sent, gaveUp, ctxDone, epochChanged, mpc, now,
                   assemblies, jobs, done, reply, replies, exit>>
-----------------------------------------------------------------------------
(* runHandler, in a goroutine of its own for each job. *)

(* The handler returns: whatever it did, what is left of it is its status    *)
(* (an unknown status or an oversized response has become internal).         *)
HandlerReturns(k) ==
    /\ jobs[k].phase = "running"
    /\ \E status \in HandlerStatus :
        jobs' = [jobs EXCEPT ![k] =
                    [@ EXCEPT !.phase = "returned", !.status = status,
                              !.doomed = jobs[k].cancelled \/ Expired(jobs[k].call, clock)]]
    /\ UNCHANGED <<inbound, outbound, env, mpc, now, assemblies, done, reply, replies, exit>>

(* A bug: the deadline is only looked at when the request is accepted. *)
CompleteUnchecked(k) ==
    /\ jobs[k].phase = "returned"
    /\ Len(done) < moduleMaxInFlight
    /\ jobs' = [jobs EXCEPT ![k] =
                    [@ EXCEPT !.phase = "done",
                              !.status = IF jobs[k].cancelled THEN "cancelled" ELSE @]]
    /\ done' = Append(done, k)
    /\ UNCHANGED <<inbound, outbound, env, mpc, now, assemblies, reply, replies, exit>>

(* The status after the checks that follow the handler. *)
Outcome(k) ==
    IF jobs[k].cancelled THEN "cancelled"
    ELSE IF Expired(jobs[k].call, clock) THEN "deadline"
    ELSE jobs[k].status

(* The checks after the handler, and the send, which waits while done is full. *)
Complete(k) ==
    /\ jobs[k].phase = "returned"
    /\ Len(done) < moduleMaxInFlight
    /\ jobs' = [jobs EXCEPT ![k] = [@ EXCEPT !.phase = "done", !.status = Outcome(k)]]
    /\ done' = Append(done, k)
    /\ UNCHANGED <<inbound, outbound, env, mpc, now, assemblies, reply, replies, exit>>
-----------------------------------------------------------------------------
(* The loop. *)

Return(result) == mpc' = "returned" /\ exit' = result

(* replyModuleResult: a reply that is not ok has no body, hence one fragment. *)
StartReply(c, status) ==
    /\ mpc' = "reply"
    /\ reply' = [call |-> c, status |-> status,
                 left |-> IF status = "ok" THEN CallOf[c].resp ELSE 1]

(* Take a result from done, if there is one, and reply (finishModuleWork). *)
Drain ==
    /\ mpc = "drain"
    /\ \/ /\ done # <<>>
          /\ done' = Tail(done)
          /\ jobs' = [jobs EXCEPT ![Head(done)] = NoWork]
          /\ StartReply(jobs[Head(done)].call, jobs[Head(done)].status)
       \/ /\ done = <<>>
          /\ mpc' = "ctx"
          /\ UNCHANGED <<done, jobs, reply>>
    /\ UNCHANGED <<inbound, outbound, env, now, assemblies, replies, exit>>

(* A bug: the loop leaves without waiting for its handlers. *)
CheckCtxLeaves ==
    /\ mpc = "ctx"
    /\ \/ /\ ctxDone
          /\ Return("nil")
          /\ UNCHANGED now
       \/ /\ ~ctxDone
          /\ mpc' = "poll"
          /\ now' = clock
          /\ UNCHANGED exit
    /\ UNCHANGED <<inbound, outbound, env, assemblies, jobs, done, reply, replies>>

(* Told to stop, cancel every job and wait for them; else read the clock. *)
CheckCtx ==
    /\ mpc = "ctx"
    /\ \/ /\ ctxDone
          /\ jobs' = [k \in Corrs |-> IF k \in Jobs THEN [jobs[k] EXCEPT !.cancelled = TRUE]
                                                   ELSE jobs[k]]
          /\ mpc' = "shutdown"
          /\ UNCHANGED now
       \/ /\ ~ctxDone
          /\ mpc' = "poll"
          /\ now' = clock
          /\ UNCHANGED jobs
    /\ UNCHANGED <<inbound, outbound, env, assemblies, done, reply, replies, exit>>

Shutdown ==
    /\ mpc = "shutdown"
    /\ \/ /\ Jobs # {} /\ done # <<>>
          /\ done' = Tail(done)
          /\ jobs' = [jobs EXCEPT ![Head(done)] = NoWork]
          /\ UNCHANGED <<mpc, exit>>
       \/ Jobs = {} /\ Return("nil") /\ UNCHANGED <<done, jobs>>
    /\ UNCHANGED <<inbound, outbound, env, now, assemblies, reply, replies>>

(* The current fragment is in the ring: go on with the next, if there is one. *)
FragmentSent ==
    /\ outbound' = outbound + 1
    /\ \/ /\ reply.left > 1
          /\ reply' = [reply EXCEPT !.left = @ - 1]
          /\ UNCHANGED <<mpc, replies>>
       \/ /\ reply.left = 1
          /\ mpc' = "drain"
          /\ replies' = [replies EXCEPT ![reply.call] = Append(@, reply.status)]
          /\ UNCHANGED reply
    /\ UNCHANGED exit

ReplyAbandoned == Return("error") /\ UNCHANGED <<outbound, reply, replies>>

(* A bug: the loop waits for room even when it is told to stop. *)
SendReplyStubborn ==
    /\ mpc = "reply"
    /\ \/ ~epochChanged /\ outbound < OutboundCap /\ FragmentSent
       \/ epochChanged /\ ReplyAbandoned
    /\ UNCHANGED <<inbound, env, now, assemblies, jobs, done>>

(* replyModuleResult's emit of one fragment.  When the ring is full the loop *)
(* waits, and gives up if it is told to stop; a restarted host makes the     *)
(* emit fail.                                                                *)
SendReply ==
    /\ mpc = "reply"
    /\ \/ ~epochChanged /\ outbound < OutboundCap /\ FragmentSent
       \/ (epochChanged \/ (outbound = OutboundCap /\ ctxDone)) /\ ReplyAbandoned
    /\ UNCHANGED <<inbound, env, now, assemblies, jobs, done>>

(* Poll finds the host restarted, or nothing to do. *)
PollNothing ==
    /\ mpc = "poll"
    /\ \/ epochChanged /\ Return("nil")
       \/ ~epochChanged /\ inbound = <<>> /\ mpc' = "drain" /\ UNCHANGED exit
    /\ UNCHANGED <<inbound, outbound, env, now, assemblies, jobs, done, reply, replies>>

(* Poll returns a frame of the given type. *)
PollFrame(type) ==
    /\ mpc = "poll" /\ ~epochChanged
    /\ inbound # <<>> /\ Head(inbound).type = type
    /\ inbound' = Tail(inbound)
    /\ UNCHANGED <<outbound, env, now, done, replies, exit>>

(* A bug: the cancel of a job is answered, and its handler's result is too. *)
PollCancelReplies ==
    /\ PollFrame("cancel")
    /\ LET k == CallOf[Head(inbound).call].corr IN
        /\ jobs' = IF k \in Jobs THEN [jobs EXCEPT ![k].cancelled = TRUE] ELSE jobs
        /\ assemblies' = [assemblies EXCEPT ![k] = <<>>]
        /\ IF k \in Jobs THEN StartReply(Head(inbound).call, "cancelled")
                         ELSE mpc' = "drain" /\ UNCHANGED reply

(* A bug: a cancel is only for what is still being put together. *)
PollCancelAssembly ==
    /\ PollFrame("cancel")
    /\ assemblies' = [assemblies EXCEPT ![CallOf[Head(inbound).call].corr] = <<>>]
    /\ mpc' = "drain"
    /\ UNCHANGED <<jobs, reply>>

PollCancel ==
    /\ PollFrame("cancel")
    /\ LET k == CallOf[Head(inbound).call].corr IN
        /\ jobs' = IF k \in Jobs THEN [jobs EXCEPT ![k].cancelled = TRUE] ELSE jobs
        /\ assemblies' = [assemblies EXCEPT ![k] = <<>>]
    /\ mpc' = "drain"
    /\ UNCHANGED reply

PollOther ==
    /\ PollFrame("other")
    /\ mpc' = "drain"
    /\ UNCHANGED <<jobs, assemblies, reply>>

(* A bug: a fragment joins any assembly of its correlation. *)
InvalidJoins(f) ==
    \/ CallOf[f.call].kind \notin Stages
    \/ f.part \in CallOf[f.call].bad
    \/ CallOf[f.call].corr \in Jobs

(* The fragment cannot be part of a request: kind not served, no valid message, *)
(* a job under the same correlation, or a header other than the first one's.    *)
Invalid(f) ==
    LET call == CallOf[f.call]
        assembly == assemblies[call.corr]
        first == CallOf[assembly[1].call]
    IN  \/ call.kind \notin Stages
        \/ f.part \in call.bad
        \/ call.corr \in Jobs
        \/ /\ assembly # <<>>
           /\ <<first.kind, first.deadline, first.trace>>
                # <<call.kind, call.deadline, call.trace>>

(* The table of assemblies is full, and this is the first fragment. *)
NoRoom(f) == /\ assemblies[CallOf[f.call].corr] = <<>>
             /\ Cardinality(Assemblies) >= moduleMaxInFlight

(* A bug: a fragment replaces the ones before it. *)
AssembledLast(f) == <<[call |-> f.call, part |-> f.part]>>

Assembled(f) == Append(assemblies[CallOf[f.call].corr], [call |-> f.call, part |-> f.part])

Final(f) == f.part = CallOf[f.call].frags

NewWork(f) == [call |-> f.call, body |-> Assembled(f), phase |-> "running",
               cancelled |-> FALSE, doomed |-> FALSE, status |-> "ok"]

(* A bug: the number of jobs is not bounded. *)
RefusalUnbounded(f) ==
    IF Invalid(f) THEN "invalid"
    ELSE IF NoRoom(f) \/ Len(Assembled(f)) > MaxBody THEN "internal"
    ELSE IF Final(f) /\ Expired(f.call, now) THEN "deadline"
    ELSE "none"

(* Why the request a fragment belongs to is refused, in the order of the checks. *)
Refusal(f) ==
    IF Invalid(f) THEN "invalid"
    ELSE IF NoRoom(f) \/ Len(Assembled(f)) > MaxBody THEN "internal"
    ELSE IF Final(f) /\ Expired(f.call, now) THEN "deadline"
    ELSE IF Final(f) /\ Cardinality(Jobs) >= moduleMaxInFlight THEN "internal"
    ELSE "none"

(* A bug: a request that is refused is dropped without a reply. *)
PollRefusedSilently ==
    /\ PollFrame("request")
    /\ Refusal(Head(inbound)) # "none"
    /\ assemblies' = [assemblies EXCEPT ![CallOf[Head(inbound).call].corr] = <<>>]
    /\ mpc' = "drain"
    /\ UNCHANGED <<jobs, reply>>

(* The request is refused: its assembly goes, and the reply says why. *)
PollRefused ==
    /\ PollFrame("request")
    /\ Refusal(Head(inbound)) # "none"
    /\ StartReply(Head(inbound).call, Refusal(Head(inbound)))
    /\ assemblies' = [assemblies EXCEPT ![CallOf[Head(inbound).call].corr] = <<>>]
    /\ UNCHANGED jobs

PollFragment ==
    /\ PollFrame("request")
    /\ LET f == Head(inbound) IN
        /\ Refusal(f) = "none"
        /\ ~Final(f)
        /\ assemblies' = [assemblies EXCEPT ![CallOf[f.call].corr] = Assembled(f)]
    /\ mpc' = "drain"
    /\ UNCHANGED <<jobs, reply>>

(* The last fragment: a handler goroutine gets a copy of the body. *)
PollInvoke ==
    /\ PollFrame("request")
    /\ LET f == Head(inbound)
           k == CallOf[f.call].corr
       IN
        /\ Refusal(f) = "none"
        /\ Final(f)
        /\ assemblies' = [assemblies EXCEPT ![k] = <<>>]
        /\ jobs' = [jobs EXCEPT ![k] = NewWork(f)]
    /\ mpc' = "drain"
    /\ UNCHANGED reply
-----------------------------------------------------------------------------
Init ==
    /\ inbound = <<>> /\ outbound = 0
    /\ sent = [c \in Calls |-> 0] /\ gaveUp = {}
    /\ clock = 0 /\ ctxDone = FALSE /\ epochChanged = FALSE
    /\ mpc = "drain" /\ now = 0
    /\ assemblies = [k \in Corrs |-> <<>>]
    /\ jobs = [k \in Corrs |-> NoWork]
    /\ done = <<>>
    /\ reply = [call |-> AnyCall, status |-> "ok", left |-> 1]
    /\ replies = [c \in Calls |-> <<>>]
    /\ exit = "none"

Environment ==
    \/ \E c \in Calls : SendFragment(c) \/ SendCancel(c)
    \/ HostTakes \/ HostRestart \/ Stop \/ Tick

Handler(k) == HandlerReturns(k) \/ Complete(k)

Loop == \/ Drain \/ CheckCtx \/ Shutdown \/ SendReply \/ PollNothing
        \/ PollCancel \/ PollOther \/ PollRefused \/ PollFragment \/ PollInvoke

(* runModuleClient has returned: the process exits. *)
Returned == mpc = "returned" /\ UNCHANGED vars

Next == Environment \/ (\E k \in Corrs : Handler(k)) \/ Loop \/ Returned

Spec == Init /\ [][Next]_vars

(* The loop and the handlers run; nothing is asked of callers and host. *)
RunningSpec == Spec /\ WF_vars(Loop) /\ \A k \in Corrs : WF_vars(Handler(k))
-----------------------------------------------------------------------------
(* Type correctness, with the bounds of both rings: whatever runModuleClient *)
(* is doing, it never writes to a full ring.                                 *)
TypeOK ==
    /\ inbound \in Seq(Frame) /\ Len(inbound) <= InboundCap
    /\ outbound \in 0 .. OutboundCap
    /\ sent \in [Calls -> Nat] /\ gaveUp \subseteq Calls
    /\ clock \in 0 .. MaxClock /\ now \in 0 .. MaxClock
    /\ ctxDone \in BOOLEAN /\ epochChanged \in BOOLEAN
    /\ mpc \in {"drain", "ctx", "poll", "reply", "shutdown", "returned"}
    /\ assemblies \in [Corrs -> Seq(Fragment)]
    /\ jobs \in [Corrs -> Work]
    /\ done \in Seq(Corrs)
    /\ reply \in [call : Calls, status : Status, left : Nat \ {0}]
    /\ replies \in [Calls -> Seq(Status)]
    /\ exit \in {"none", "nil", "error"}

(* A handler that has finished never waits to hand over its result, however *)
(* long the loop is busy with a reply: there are never more results than    *)
(* the channel holds.                                                       *)
ResultsNeverBlock ==
    \A k \in Corrs : jobs[k].phase = "returned" => Len(done) < moduleMaxInFlight

(* Why: the channel holds each finished job once, and jobs are bounded.     *)
DoneMatchesJobs ==
    /\ \A i \in 1 .. Len(done) : jobs[done[i]].phase = "done"
    /\ \A i, j \in 1 .. Len(done) : i # j => done[i] # done[j]
    /\ \A k \in Corrs : jobs[k].phase = "done" => \E i \in 1 .. Len(done) : done[i] = k

InFlightInv ==
    /\ Cardinality(Jobs) <= moduleMaxInFlight
    /\ Cardinality(Assemblies) <= moduleMaxInFlight
    /\ DoneMatchesJobs

(* A job that was cancelled, or past its deadline, when its handler returned *)
(* is not reported as a success.                                             *)
DoomedNeverOk ==
    \A k \in Corrs : jobs[k].phase = "done" /\ jobs[k].doomed => jobs[k].status # "ok"

(* Why: neither a cancellation nor the passing of a deadline is taken back. *)
StillDoomed ==
    \A k \in Corrs : jobs[k].phase = "returned" /\ jobs[k].doomed =>
        jobs[k].cancelled \/ Expired(jobs[k].call, clock)

(* runModuleClient leaves running handlers behind in two cases only: the host *)
(* has restarted; or it was told to stop while a reply waited for room, and   *)
(* then it returns the error of that reply without waiting for them.  Every   *)
(* other return, each return with nil of a stop among them, has waited.       *)
HandlersLeftBehind ==
    mpc = "returned" /\ Jobs # {} => epochChanged \/ (ctxDone /\ exit = "error")

(* A call is answered at most once. *)
AnsweredAtMostOnce == \A c \in Calls : Len(replies[c]) <= 1

(* A handler is run on a whole request: the body holds every fragment of    *)
(* the call, in order, and nothing else.                                    *)
WholeBody ==
    \A k \in Jobs :
        jobs[k].body = [n \in 1 .. CallOf[jobs[k].call].frags |->
                            [call |-> jobs[k].call, part |-> n]]

(* What two calls send under one correlation, interleaved, cancelled or broken, *)
(* is never handed to a handler as one body: the header that every fragment     *)
(* repeats tells them apart.                                                    *)
BodiesNeverMixed ==
    \A k \in Jobs : \A n \in 1 .. Len(jobs[k].body) : jobs[k].body[n].call = jobs[k].call

(* Every request that is sent in full is answered, unless its caller gives  *)
(* it up or the process leaves, provided that the host goes on taking       *)
(* replies from the ring.                                                   *)
EveryRequestAnswered ==
    WF_vars(HostTakes) => \A c \in Calls :
        CallOf[c].type = "request" /\ sent[c] = CallOf[c].frags
            ~> replies[c] # <<>> \/ c \in gaveUp \/ mpc = "returned"

(* Told to stop, the process leaves, even if the host never takes another   *)
(* reply.                                                                   *)
StopCompletes == ctxDone ~> mpc = "returned"
=============================================================================
