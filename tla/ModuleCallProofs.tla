-------------------------- MODULE ModuleCallProofs --------------------------
(***************************************************************************)
(* Proofs about ModuleCall for any calls and any bounds: the cancel of a   *)
(* call reaches its handler, only an abandoned send leaves an assembly     *)
(* behind, the caller keeps the promise of RemoteCall, and the composition *)
(* is a runtime: what the module promises to well-behaved callers it keeps *)
(* to this one, as long as the requests given up are fewer than its        *)
(* assemblies.                                                             *)
(***************************************************************************)
EXTENDS ModuleCall, ModuleRuntimeProofs

LEMMA CallFacts ==
    /\ Calls = Corrs /\ Calls \subseteq Nat \ {0}
    /\ \A c \in Calls : /\ CallOf[c].corr = c /\ CallOf[c].type = "request"
                        /\ CallOf[c].frags \in Nat \ {0} /\ CallOf[c].resp \in Nat \ {0}
<1>1. \A c \in Calls : /\ CallOf[c].corr = c /\ CallOf[c].type = "request"
    BY NumberedAssumption
<1>2. Corrs = {c : c \in Calls}
    BY <1>1 DEF Corrs
<1>3. Cardinality(Calls) \in Nat
    BY CallsAssumption, FS_CardinalityType
<1>4. Calls \subseteq Nat \ {0}
    BY <1>3, NumberedAssumption
<1>5. \A c \in Calls : CallOf[c].frags \in Nat \ {0} /\ CallOf[c].resp \in Nat \ {0}
    BY ConstantFacts DEF Call
<1> QED
    BY <1>1, <1>2, <1>4, <1>5

(* The types of the caller and of the way back. *)
Part == [call : Calls, part : Int]
ReplyFrame == [call : Calls, status : Status \cup Refusals, part : Int, more : BOOLEAN]
Outcomes == [status : Status \cup Refusals \cup Reasons \cup {"none"}, body : Seq(Part)]

CallerTypes ==
    /\ transit \in Seq(ReplyFrame) /\ inbox \in Seq(ReplyFrame)
    /\ cpc \in {"idle", "send", "wait", "cancel"}
    /\ current \in Nat /\ (cpc # "idle" => current \in Calls)
    /\ got \in Seq(Part)
    /\ outcome \in [Calls -> Outcomes]
    /\ refusal \in [Calls -> Refusals \cup {"none"}]

(* To the runtime a step of the composition is one of its own, except that the *)
(* host also takes frames that it answers itself.                              *)
LEMMA StepKinds ==
    ASSUME CallerTypes, [CallNext]_callVars
    PROVE  [Next]_vars \/ HostRefuses
<1>1. CASE UNCHANGED callVars
    BY <1>1 DEF callVars
<1>2. CASE Begin \/ SendFails \/ AwaitEpoch \/ AwaitDeadline \/ AwaitFrame \/ AwaitCtx
    BY <1>2 DEF Begin, SendFails, AwaitEpoch, AwaitDeadline, AwaitFrame, AwaitCtx, AwaitNothing
<1>3. CASE Send
    <2>1. current \in Calls /\ SendFragment(current)
        BY <1>3 DEF CallerTypes, Send
    <2> QED
        BY <2>1 DEF Next, Environment
<1>4. CASE Cancel
    <2>1. current \in Calls /\ (SendCancel(current) \/ UNCHANGED vars)
        BY <1>4 DEF CallerTypes, Cancel
    <2> QED
        BY <2>1 DEF Next, Environment
<1>5. CASE Relay \/ Module \/ Idle(HostRestart) \/ Idle(Stop) \/ Idle(Tick)
    BY <1>5 DEF Relay, Module, Idle, Next, Environment
<1>6. ASSUME NEW k \in Corrs, Idle(Handler(k))
      PROVE  [Next]_vars
    BY <1>6 DEF Idle, Next
<1> QED
    BY <1>1, <1>2, <1>3, <1>4, <1>5, <1>6 DEF CallNext, Caller

LEMMA HostRefusesTypes ==
    ASSUME TypeOK, HostRefuses
    PROVE  TypeOK' /\ (InFlightInv => InFlightInv')
<1>1. /\ inbound # <<>> /\ inbound' = Tail(inbound)
      /\ UNCHANGED <<outbound, env, mpc, now, assemblies, jobs, done, reply, replies, exit>>
    BY DEF HostRefuses, served
<1>2. inbound' \in Seq(Frame) /\ Len(inbound') <= InboundCap
    <2>1. inbound \in Seq(Frame) /\ Len(inbound) <= InboundCap
        BY DEF TypeOK
    <2>2. inbound' \in Seq(Frame) /\ Len(inbound') = Len(inbound) - 1 /\ Len(inbound) \in Nat
        BY <1>1, <2>1, HeadTail
    <2> QED
        BY <2>1, <2>2, SizesAssumption
<1>3. TypeOK'
    BY <1>1, <1>2 DEF TypeOK, env
<1>4. InFlightInv => InFlightInv'
    BY <1>1 DEF InFlightInv, DoneMatchesJobs, Jobs, Assemblies
<1> QED
    BY <1>3, <1>4

LEMMA RuntimeKept ==
    ASSUME TypeOK, InFlightInv, CallerTypes, [CallNext]_callVars
    PROVE  TypeOK' /\ InFlightInv'
<1>1. CASE [Next]_vars
    BY <1>1, RuntimeStep, InFlightStep
<1>2. CASE HostRefuses
    BY <1>2, HostRefusesTypes
<1> QED
    BY <1>1, <1>2, StepKinds

LEMMA EndsTypes ==
    ASSUME CallerTypes, NEW label \in {"idle", "cancel"},
           NEW status \in Status \cup Refusals \cup Reasons, NEW body \in Seq(Part),
           Ends(label, status, body)
    PROVE  outcome' \in [Calls -> Outcomes] /\ cpc' = label
<1>1. [status |-> status, body |-> body] \in Outcomes
    BY DEF Outcomes
<1> QED
    BY <1>1 DEF Ends, CallerTypes

LEMMA CallerTypesStep ==
    ASSUME TypeOK, CallerTypes, [CallNext]_callVars
    PROVE  CallerTypes'
<1> USE DEF CallerTypes
<1>1. CASE Begin
    BY <1>1, CallFacts DEF Begin
<1>2. CASE Send
    BY <1>2 DEF Send
<1>3. CASE SendFails \/ AwaitEpoch \/ AwaitDeadline \/ AwaitCtx
    <2>1. \E label \in {"idle", "cancel"}, status \in Reasons : Ends(label, status, <<>>)
        BY <1>3 DEF SendFails, AwaitEpoch, AwaitDeadline, AwaitCtx, AwaitNothing, Reasons
    <2>2. <<>> \in Seq(Part)
        OBVIOUS
    <2>3. outcome' \in [Calls -> Outcomes] /\ cpc' \in {"idle", "cancel"}
        BY <2>1, <2>2, EndsTypes
    <2>4. UNCHANGED <<transit, inbox, current, got, refusal>> /\ current \in Calls
        BY <1>3 DEF SendFails, AwaitEpoch, AwaitDeadline, AwaitCtx, AwaitNothing
    <2> QED
        BY <2>3, <2>4
<1>4. CASE AwaitFrame
    <2> DEFINE f == Head(inbox)
               body == Append(got, [call |-> f.call, part |-> f.part])
    <2>1. f \in ReplyFrame /\ inbox' \in Seq(ReplyFrame)
        BY <1>4, HeadTail DEF AwaitFrame
    <2>2. body \in Seq(Part)
        <3>1. [call |-> f.call, part |-> f.part] \in Part
            BY <2>1 DEF ReplyFrame, Part
        <3> QED
            BY <3>1
    <2>3. f.status \in Status \cup Refusals
        BY <2>1 DEF ReplyFrame
    <2>4. /\ UNCHANGED <<transit, current, refusal>> /\ current \in Calls
          /\ got' = got \/ got' = body
          /\ \/ UNCHANGED <<cpc, outcome>>
             \/ Ends("cancel", f.status, <<>>)
             \/ Ends("cancel", "runtime", <<>>)
             \/ Ends("idle", "ok", body)
        BY <1>4 DEF AwaitFrame
    <2> HIDE DEF f, body
    <2>5. outcome' \in [Calls -> Outcomes] /\ cpc' \in {"idle", "send", "wait", "cancel"}
        <3>1. CASE UNCHANGED <<cpc, outcome>>
            BY <3>1
        <3>2. <<>> \in Seq(Part) /\ "runtime" \in Reasons /\ "ok" \in Status
            BY DEF Reasons, Status
        <3>3. CASE Ends("cancel", f.status, <<>>)
            BY <2>3, <3>2, <3>3, EndsTypes
        <3>4. CASE Ends("cancel", "runtime", <<>>)
            BY <3>2, <3>4, EndsTypes
        <3>5. CASE Ends("idle", "ok", body)
            BY <2>2, <3>2, <3>5, EndsTypes
        <3> QED
            BY <2>4, <3>1, <3>3, <3>4, <3>5
    <2> QED
        BY <2>1, <2>2, <2>4, <2>5
<1>5. CASE Cancel
    BY <1>5 DEF Cancel
<1>6. CASE Relay
    <2>1. Head(transit) \in ReplyFrame /\ transit' \in Seq(ReplyFrame)
        BY <1>6, HeadTail DEF Relay
    <2> QED
        BY <1>6, <2>1 DEF Relay, caller
<1>7. CASE HostRefuses
    <2> DEFINE c == Head(inbound).call
    <2>1. c \in Calls
        BY <1>7, CallerAssumption DEF HostRefuses
    <2>2. UNCHANGED <<transit, cpc, current, got, outcome>>
        BY <1>7 DEF HostRefuses, caller
    <2>3. CASE UNCHANGED <<inbox, refusal>>
        BY <2>2, <2>3
    <2>4. ASSUME NEW status \in Refusals,
                 inbox' = Append(inbox, [call |-> c, status |-> status, part |-> 1, more |-> FALSE]),
                 refusal' = [refusal EXCEPT ![c] = IF @ = "none" THEN status ELSE @]
          PROVE  CallerTypes'
        <3>1. [call |-> c, status |-> status, part |-> 1, more |-> FALSE] \in ReplyFrame
            BY <2>1 DEF ReplyFrame
        <3>2. inbox' \in Seq(ReplyFrame)
            BY <2>4, <3>1
        <3> QED
            BY <2>2, <2>4, <3>2
    <2> QED
        BY <1>7, <2>3, <2>4 DEF HostRefuses
<1>8. CASE Module
    <2>1. Emitted \in ReplyFrame
        <3>1. reply.call \in Calls /\ reply.status \in Status /\ reply.left \in Nat
            BY DEF TypeOK
        <3>2. CallOf[reply.call].resp \in Nat
            BY <3>1, CallFacts
        <3> QED
            BY <3>1, <3>2 DEF Emitted, ReplyFrame
    <2>2. transit' \in Seq(ReplyFrame)
        BY <1>8, <2>1 DEF Module
    <2> QED
        BY <1>8, <2>2 DEF Module, caller
<1>9. CASE \/ Idle(HostRestart) \/ Idle(Stop) \/ Idle(Tick) \/ UNCHANGED callVars
           \/ \E k \in Corrs : Idle(Handler(k))
    BY <1>9 DEF Idle, caller, callVars
<1> QED
    BY <1>1, <1>2, <1>3, <1>4, <1>5, <1>6, <1>7, <1>8, <1>9 DEF CallNext, Caller

-----------------------------------------------------------------------------
(* What one step of the loop does to the jobs, the assemblies, the reply and *)
(* the rings.                                                                *)
HeadCorr == CallOf[Head(inbound).call].corr

LEMMA LoopJobs ==
    ASSUME TypeOK, Loop, NEW k \in Jobs'
    PROVE  \/ /\ k \in Jobs /\ jobs'[k].call = jobs[k].call /\ jobs'[k].phase = jobs[k].phase
              /\ jobs[k].cancelled => jobs'[k].cancelled
              /\ PollCancel /\ k = HeadCorr => jobs'[k].cancelled
           \/ PollInvoke /\ k = HeadCorr /\ jobs'[k].call = Head(inbound).call
<1>0. /\ jobs \in [Corrs -> Work] /\ done \in Seq(Corrs) /\ k \in Corrs
      /\ jobs'[k].phase # "none" /\ jobs[k] \in Work
    BY DEF TypeOK, Jobs
<1> DEFINE Kept == /\ k \in Jobs /\ jobs'[k].call = jobs[k].call
                   /\ jobs'[k].phase = jobs[k].phase
                   /\ jobs[k].cancelled => jobs'[k].cancelled
<1>1. CASE jobs'[k] = jobs[k] /\ ~PollCancel
    BY <1>0, <1>1 DEF Jobs
<1>2. CASE jobs'[k] = [jobs[k] EXCEPT !.cancelled = TRUE]
    <2>1. jobs'[k].cancelled /\ jobs'[k].call = jobs[k].call /\ jobs'[k].phase = jobs[k].phase
        BY <1>0, <1>2 DEF Work
    <2> QED
        BY <1>0, <2>1 DEF Jobs
<1>3. CASE Drain \/ Shutdown
    <2>1. done # <<>> => Head(done) \in Corrs
        BY <1>0
    <2>2. jobs'[k] = jobs[k]
        BY <1>0, <1>3, <2>1 DEF Drain, Shutdown, NoWork
    <2>3. ~PollCancel
        BY <1>3 DEF Drain, Shutdown, PollCancel, PollFrame
    <2> QED
        BY <1>1, <2>2, <2>3
<1>4. CASE CheckCtx
    <2>1. jobs'[k] = jobs[k] \/ jobs'[k] = [jobs[k] EXCEPT !.cancelled = TRUE]
        BY <1>0, <1>4 DEF CheckCtx
    <2>2. ~PollCancel
        BY <1>4 DEF CheckCtx, PollCancel, PollFrame
    <2> QED
        BY <1>1, <1>2, <2>1, <2>2
<1>5. CASE PollCancel
    <2>1. jobs' = IF HeadCorr \in Jobs THEN [jobs EXCEPT ![HeadCorr].cancelled = TRUE] ELSE jobs
        BY <1>5 DEF PollCancel, HeadCorr
    <2>2. CASE k = HeadCorr
        <3>1. k \in Jobs
            BY <1>0, <2>1, <2>2 DEF Jobs
        <3>2. jobs'[k] = [jobs[k] EXCEPT !.cancelled = TRUE]
            BY <1>0, <2>1, <2>2, <3>1
        <3> QED
            BY <1>2, <3>2
    <2>3. CASE k # HeadCorr
        <3>1. jobs'[k] = jobs[k]
            BY <1>0, <2>1, <2>3
        <3> QED
            BY <1>0, <2>3, <3>1 DEF Jobs
    <2> QED
        BY <2>2, <2>3
<1>6. CASE PollInvoke
    <2>1. PollFrame("request") /\ jobs' = [jobs EXCEPT ![HeadCorr] = NewWork(Head(inbound))]
        BY <1>6 DEF PollInvoke, HeadCorr
    <2>2. ~PollCancel
        BY <2>1 DEF PollCancel, PollFrame
    <2>3. CASE k = HeadCorr
        BY <1>0, <1>6, <2>1, <2>3 DEF NewWork
    <2>4. CASE k # HeadCorr
        BY <1>0, <1>1, <2>1, <2>2, <2>4
    <2> QED
        BY <2>3, <2>4
<1>7. CASE SendReply \/ PollNothing \/ PollOther \/ PollRefused \/ PollFragment
    <2>1. jobs' = jobs
        BY <1>7 DEF SendReply, PollNothing, PollOther, PollRefused, PollFragment
    <2>2. ~PollCancel
        BY <1>7 DEF SendReply, PollNothing, PollOther, PollRefused, PollFragment, PollCancel,
                    PollFrame
    <2> QED
        BY <1>1, <2>1, <2>2
<1> QED
    BY <1>3, <1>4, <1>5, <1>6, <1>7 DEF Loop

LEMMA LoopAssemblies ==
    ASSUME TypeOK, Loop, NEW k \in Assemblies'
    PROVE  \/ /\ k \in Assemblies
              /\ PollCancel \/ PollRefused \/ PollInvoke \/ PollFragment => k # HeadCorr
           \/ PollFragment /\ k = HeadCorr
<1>0. assemblies \in [Corrs -> Seq(Fragment)] /\ k \in Corrs /\ assemblies'[k] # <<>>
    BY DEF TypeOK, Assemblies
<1>1. CASE PollCancel \/ PollRefused \/ PollInvoke
    <2>1. assemblies' = [assemblies EXCEPT ![HeadCorr] = <<>>]
        BY <1>1 DEF PollCancel, PollRefused, PollInvoke, HeadCorr
    <2> QED
        BY <1>0, <2>1 DEF Assemblies
<1>2. CASE PollFragment
    <2>1. assemblies' = [assemblies EXCEPT ![HeadCorr] = Assembled(Head(inbound))]
        BY <1>2 DEF PollFragment, HeadCorr
    <2> QED
        BY <1>0, <1>2, <2>1 DEF Assemblies
<1>3. CASE Drain \/ CheckCtx \/ Shutdown \/ SendReply \/ PollNothing \/ PollOther
    <2>1. assemblies' = assemblies
        BY <1>3 DEF Drain, CheckCtx, Shutdown, SendReply, PollNothing, PollOther
    <2>2. ~(PollCancel \/ PollRefused \/ PollInvoke \/ PollFragment)
        BY <1>3 DEF Drain, CheckCtx, Shutdown, SendReply, PollNothing, PollOther,
                    PollCancel, PollRefused, PollInvoke, PollFragment, PollFrame
    <2> QED
        BY <1>0, <2>1, <2>2 DEF Assemblies
<1> QED
    BY <1>1, <1>2, <1>3 DEF Loop

(* A reply that begins: no fragment of it has been sent. *)
Fresh(r) == /\ r.left <= CallOf[r.call].resp
            /\ r.status # "ok" => r.left = 1
            /\ r.status = "ok" => r.left = CallOf[r.call].resp

LEMMA StartsFresh ==
    ASSUME NEW c \in Calls, NEW status, StartReply(c, status)
    PROVE  reply'.call = c /\ reply'.status = status /\ Fresh(reply') /\ mpc' = "reply"
<1>1. CallOf[c].resp \in Nat \ {0}
    BY CallFacts
<1> QED
    BY <1>1 DEF StartReply, Fresh

(* The loop sends a fragment of the reply, abandons it, begins one or does *)
(* nothing to it.                                                          *)
LEMMA LoopReply ==
    ASSUME TypeOK, DoneMatchesJobs, Loop
    PROVE  \/ /\ mpc = "reply" /\ outbound' = outbound + 1 /\ reply.left > 1 /\ mpc' = "reply"
              /\ reply' = [reply EXCEPT !.left = @ - 1] /\ replies' = replies
           \/ /\ mpc = "reply" /\ outbound' = outbound + 1 /\ reply.left = 1 /\ mpc' = "drain"
              /\ replies' = [replies EXCEPT ![reply.call] = Append(@, reply.status)]
           \/ /\ mpc' = "returned" /\ UNCHANGED <<outbound, replies>>
           \/ /\ mpc \notin {"reply", "returned"} /\ mpc' # "reply"
              /\ UNCHANGED <<outbound, replies>>
           \/ /\ mpc \notin {"reply", "returned"} /\ UNCHANGED <<outbound, replies>>
              /\ mpc' = "reply" /\ Fresh(reply')
              /\ \/ \E k \in Jobs : reply'.call = jobs[k].call
                 \/ PollRefused /\ reply'.call = Head(inbound).call
<1>1. CASE SendReply
    BY <1>1 DEF SendReply, FragmentSent, ReplyAbandoned, Return
<1>2. CASE Drain /\ done # <<>>
    <2> DEFINE k == Head(done)
    <2>1. done \in Seq(Corrs)
        BY DEF TypeOK
    <2>2. 1 \in 1 .. Len(done) /\ k = done[1] /\ k \in Corrs
        BY <1>2, <2>1
    <2>3. k \in Jobs
        BY <2>2 DEF DoneMatchesJobs, Jobs
    <2>4. jobs[k].call \in Calls
        BY <2>2 DEF TypeOK, Work
    <2>5. StartReply(jobs[k].call, jobs[k].status) /\ UNCHANGED <<outbound, replies>>
          /\ mpc = "drain"
        BY <1>2 DEF Drain
    <2> QED
        BY <2>3, <2>4, <2>5, StartsFresh
<1>3. CASE PollRefused
    <2>1. Head(inbound).call \in Calls
        BY <1>3, Polled DEF PollRefused
    <2>2. StartReply(Head(inbound).call, Refusal(Head(inbound))) /\ mpc = "poll"
          /\ UNCHANGED <<outbound, replies>>
        BY <1>3 DEF PollRefused, PollFrame
    <2> QED
        BY <1>3, <2>1, <2>2, StartsFresh
<1>4. CASE (Drain /\ done = <<>>) \/ CheckCtx \/ Shutdown
    BY <1>4 DEF Drain, CheckCtx, Shutdown, Return
<1>5. CASE PollNothing \/ PollCancel \/ PollOther \/ PollFragment \/ PollInvoke
    BY <1>5 DEF PollNothing, PollFrame, PollCancel, PollOther, PollFragment, PollInvoke, Return
<1> QED
    BY <1>1, <1>2, <1>3, <1>4, <1>5 DEF Loop

LEMMA LoopInbound ==
    ASSUME TypeOK, Loop
    PROVE  /\ UNCHANGED env
           /\ \/ /\ inbound' = inbound
                 /\ ~PollCancel /\ ~PollOther /\ ~PollRefused /\ ~PollFragment /\ ~PollInvoke
              \/ /\ mpc = "poll" /\ ~epochChanged /\ inbound # <<>> /\ inbound' = Tail(inbound)
                 /\ Head(inbound) = inbound[1] /\ 1 \in Positions /\ inbound[1].call \in Calls
                 /\ \/ PollCancel /\ inbound[1].type = "cancel"
                    \/ PollOther /\ inbound[1].type = "other"
                    \/ PollRefused /\ inbound[1].type = "request"
                    \/ PollFragment /\ inbound[1].type = "request"
                    \/ PollInvoke /\ inbound[1].type = "request"
<1>1. CASE Drain \/ CheckCtx \/ Shutdown \/ SendReply \/ PollNothing
    BY <1>1 DEF Drain, CheckCtx, Shutdown, SendReply, PollNothing,
                PollCancel, PollOther, PollRefused, PollInvoke, PollFragment, PollFrame
<1>2. ASSUME NEW type, PollFrame(type)
      PROVE  /\ mpc = "poll" /\ ~epochChanged /\ inbound # <<>> /\ inbound' = Tail(inbound)
             /\ Head(inbound) = inbound[1] /\ 1 \in Positions /\ inbound[1].call \in Calls
             /\ inbound[1].type = type /\ UNCHANGED env
    BY <1>2, Polled DEF PollFrame
<1>3. CASE PollCancel \/ PollOther \/ PollRefused \/ PollFragment \/ PollInvoke
    BY <1>2, <1>3 DEF PollCancel, PollOther, PollRefused, PollFragment, PollInvoke
<1> QED
    BY <1>1, <1>3 DEF Loop

-----------------------------------------------------------------------------
(* Where the caller is: the calls up to the current one have returned, except *)
(* that the current one may be open, and only a call whose send failed has    *)
(* been sent in part for good.                                                *)
Waiting == cpc \in {"send", "wait"}

ControlInv ==
    /\ \A c \in Calls : outcome[c].status = "none" <=> c > current \/ (c = current /\ Waiting)
    /\ cpc \in {"wait", "cancel"} => sent[current] = CallOf[current].frags
    /\ \A c \in Calls : sent[c] <= CallOf[c].frags
    /\ \A c \in Calls : c > current => sent[c] = 0
    /\ \A c \in Calls : 0 < sent[c] /\ sent[c] < CallOf[c].frags =>
            (c = current /\ cpc = "send") \/ outcome[c].status = "unsent"

LEMMA SentGrows ==
    ASSUME TypeOK, CallerTypes, [CallNext]_callVars
    PROVE  /\ \A c \in Calls : sent[c] \in Nat /\ sent'[c] \in Nat /\ sent'[c] >= sent[c]
           /\ \/ sent' = sent
              \/ Send /\ sent' = [sent EXCEPT ![current] = @ + 1]
<1>1. sent \in [Calls -> Nat]
    BY DEF TypeOK
<1>2. CASE sent' = sent
    BY <1>1, <1>2
<1>3. CASE Send
    <2>1. sent' = [sent EXCEPT ![current] = @ + 1]
        BY <1>3 DEF Send, SendFragment
    <2>2. ASSUME NEW c \in Calls
          PROVE  sent[c] \in Nat /\ sent'[c] \in Nat /\ sent'[c] >= sent[c]
        BY <1>1, <2>1
    <2> QED
        BY <1>3, <2>1, <2>2
<1>4. CASE \/ Begin \/ SendFails \/ AwaitEpoch \/ AwaitDeadline \/ AwaitFrame \/ AwaitCtx
           \/ Cancel \/ Relay \/ HostRefuses \/ UNCHANGED callVars
    <2>1. sent' = sent
        BY <1>4 DEF Begin, SendFails, AwaitEpoch, AwaitDeadline, AwaitFrame, AwaitCtx,
                    AwaitNothing, Cancel, SendCancel, Relay, HostTakes, HostRefuses, served,
                    callVars, vars, env
    <2> QED
        BY <1>2, <2>1
<1>5. CASE Module
    <2>1. CASE Loop
        BY <1>2, <2>1, LoopInbound DEF env
    <2>2. CASE Returned
        BY <1>2, <2>2 DEF Returned, vars, env
    <2> QED
        BY <1>5, <2>1, <2>2 DEF Module
<1>6. CASE Idle(HostRestart) \/ Idle(Stop) \/ Idle(Tick) \/ \E k \in Corrs : Idle(Handler(k))
    BY <1>2, <1>6 DEF Idle, HostRestart, Stop, Tick, Handler, HandlerReturns, Complete, env
<1> QED
    BY <1>3, <1>4, <1>5, <1>6 DEF CallNext, Caller

LEMMA ControlKept ==
    ASSUME ControlInv, UNCHANGED <<cpc, current, outcome, sent>>
    PROVE  ControlInv'
BY DEF ControlInv, Waiting

(* The current call ends: after it has been sent in full, or unsent. *)
LEMMA ControlEnds ==
    ASSUME TypeOK, CallerTypes, ControlInv, UNCHANGED <<current, sent>>, current \in Calls,
           NEW label \in {"idle", "cancel"}, NEW status \in Status \cup Refusals \cup Reasons,
           NEW body, Ends(label, status, body),
           \/ cpc = "wait"
           \/ cpc = "send" /\ label = "idle" /\ status = "unsent"
    PROVE  ControlInv'
<1>1. status # "none"
    BY DEF Status, Refusals, Reasons
<1>2. /\ outcome'[current].status = status /\ cpc' = label
      /\ \A c \in Calls : c # current => outcome'[c] = outcome[c]
    BY DEF Ends, CallerTypes
<1>3. \A c \in Calls : outcome'[c].status = "none" <=> c > current
    <2> SUFFICES ASSUME NEW c \in Calls
                 PROVE  outcome'[c].status = "none" <=> c > current
        OBVIOUS
    <2>1. current \in Nat
        BY DEF CallerTypes
    <2>2. CASE c = current
        BY <1>1, <1>2, <2>1, <2>2
    <2>3. CASE c # current
        BY <1>2, <2>3 DEF ControlInv
    <2> QED
        BY <2>2, <2>3
<1>4. cpc = "wait" => sent[current] = CallOf[current].frags
    BY DEF ControlInv
<1>5. \A c \in Calls : 0 < sent[c] /\ sent[c] < CallOf[c].frags => outcome'[c].status = "unsent"
    <2> SUFFICES ASSUME NEW c \in Calls, 0 < sent[c], sent[c] < CallOf[c].frags
                 PROVE  outcome'[c].status = "unsent"
        OBVIOUS
    <2>1. CASE c = current
        <3>1. cpc # "wait"
            BY <1>4, <2>1, CallFacts DEF TypeOK
        <3> QED
            BY <1>2, <2>1, <3>1
    <2>2. CASE c # current
        BY <1>2, <2>2 DEF ControlInv
    <2> QED
        BY <2>1, <2>2
<1> QED
    BY <1>2, <1>3, <1>4, <1>5 DEF ControlInv, Waiting

LEMMA ControlStep ==
    ASSUME TypeOK, CallerTypes, ControlInv, [CallNext]_callVars
    PROVE  ControlInv'
<1>0. /\ current \in Nat /\ sent \in [Calls -> Nat]
      /\ \A c \in Calls : c \in Nat /\ CallOf[c].frags \in Nat \ {0}
      /\ "unsent" \in Reasons /\ "runtime" \in Reasons /\ "ok" \in Status
    BY CallFacts DEF CallerTypes, TypeOK, Reasons, Status
<1>1. CASE Begin
    <2>1. /\ cpc = "idle" /\ cpc' = "send" /\ current' = current + 1
          /\ UNCHANGED <<sent, outcome>>
        BY <1>1 DEF Begin, vars, env
    <2>2. \A c \in Calls : outcome[c].status = "none" <=> c > current
        BY <2>1 DEF ControlInv, Waiting
    <2>3. \A c \in Calls : c > current <=> c > current + 1 \/ c = current + 1
        BY <1>0
    <2>4. \A c \in Calls : outcome'[c].status = "none" <=> c > current' \/ (c = current' /\ Waiting')
        BY <2>1, <2>2, <2>3 DEF Waiting
    <2>5. \A c \in Calls : c > current' => sent'[c] = 0
        BY <2>1, <2>3 DEF ControlInv
    <2>6. \A c \in Calls : 0 < sent[c] /\ sent[c] < CallOf[c].frags => outcome[c].status = "unsent"
        BY <2>1 DEF ControlInv
    <2> QED
        BY <2>1, <2>4, <2>5, <2>6 DEF ControlInv
<1>2. CASE Send
    <2>1. /\ cpc = "send" /\ current \in Calls /\ UNCHANGED <<current, outcome>>
          /\ sent[current] < CallOf[current].frags
          /\ sent' = [sent EXCEPT ![current] = @ + 1]
          /\ cpc' = IF sent'[current] = CallOf[current].frags THEN "wait" ELSE "send"
        BY <1>2 DEF Send, SendFragment, CallerTypes
    <2>2. /\ sent'[current] = sent[current] + 1 /\ sent'[current] <= CallOf[current].frags
          /\ \A c \in Calls : c # current => sent'[c] = sent[c]
        <3>1. sent'[current] = sent[current] + 1
            BY <1>0, <2>1
        <3>2. sent[current] \in Nat /\ CallOf[current].frags \in Nat
            BY <1>0, <2>1
        <3>3. sent[current] + 1 <= CallOf[current].frags
            BY <2>1, <3>2
        <3> QED
            BY <1>0, <2>1, <3>1, <3>3
    <2>3. Waiting /\ Waiting'
        BY <2>1 DEF Waiting
    <2>4. \A c \in Calls : outcome'[c].status = "none" <=> c > current' \/ (c = current' /\ Waiting')
        BY <2>1, <2>3 DEF ControlInv
    <2>5. cpc' \in {"wait", "cancel"} => sent'[current'] = CallOf[current'].frags
        BY <2>1
    <2>6. \A c \in Calls : sent'[c] <= CallOf[c].frags
        BY <2>2 DEF ControlInv
    <2>7. \A c \in Calls : c > current' => sent'[c] = 0
        <3>1. \A c \in Calls : c > current => c # current
            BY <1>0
        <3> QED
            BY <2>1, <2>2, <3>1 DEF ControlInv
    <2>8. ASSUME NEW c \in Calls, 0 < sent'[c], sent'[c] < CallOf[c].frags
          PROVE  (c = current' /\ cpc' = "send") \/ outcome'[c].status = "unsent"
        <3>1. CASE c = current
            <4>1. sent'[current] # CallOf[current].frags
                BY <1>0, <2>1, <2>2, <2>8, <3>1
            <4> QED
                BY <2>1, <3>1, <4>1
        <3>2. CASE c # current
            BY <2>1, <2>2, <2>8, <3>2 DEF ControlInv
        <3> QED
            BY <3>1, <3>2
    <2> QED
        BY <2>4, <2>5, <2>6, <2>7, <2>8 DEF ControlInv
<1>3. CASE SendFails
    <2>1. /\ cpc = "send" /\ current \in Calls /\ Ends("idle", "unsent", <<>>)
          /\ UNCHANGED <<current, sent>>
        BY <1>3 DEF SendFails, CallerTypes, vars, env
    <2> QED
        BY <1>0, <2>1, ControlEnds
<1>4. CASE AwaitEpoch \/ AwaitDeadline \/ AwaitCtx
    <2>1. /\ cpc = "wait" /\ current \in Calls /\ UNCHANGED <<current, sent>>
          /\ \E status \in Reasons : Ends("cancel", status, <<>>)
        BY <1>4 DEF AwaitEpoch, AwaitDeadline, AwaitCtx, AwaitNothing, CallerTypes, vars, env,
                    Reasons
    <2> QED
        BY <2>1, ControlEnds
<1>5. CASE AwaitFrame
    <2>1. /\ cpc = "wait" /\ current \in Calls /\ UNCHANGED <<current, sent>>
        BY <1>5 DEF AwaitFrame, CallerTypes, vars, env
    <2>2. Head(inbox).status \in Status \cup Refusals
        <3>1. Head(inbox) \in ReplyFrame
            BY <1>5, HeadTail DEF AwaitFrame, CallerTypes
        <3> QED
            BY <3>1 DEF ReplyFrame
    <2> DEFINE body == Append(got, [call |-> Head(inbox).call, part |-> Head(inbox).part])
    <2>3. \/ UNCHANGED <<cpc, outcome>>
          \/ Ends("cancel", Head(inbox).status, <<>>)
          \/ Ends("cancel", "runtime", <<>>)
          \/ Ends("idle", "ok", body)
        BY <1>5 DEF AwaitFrame
    <2> HIDE DEF body
    <2> QED
        BY <1>0, <2>1, <2>2, <2>3, ControlEnds, ControlKept
<1>6. CASE Cancel
    <2>1. cpc = "cancel" /\ cpc' = "idle" /\ UNCHANGED <<current, outcome, sent>>
        BY <1>6 DEF Cancel, SendCancel, vars, env
    <2> QED
        BY <2>1 DEF ControlInv, Waiting
<1>7. CASE \/ Relay \/ HostRefuses \/ Module \/ UNCHANGED callVars
           \/ Idle(HostRestart) \/ Idle(Stop) \/ Idle(Tick) \/ \E k \in Corrs : Idle(Handler(k))
    <2>1. UNCHANGED <<cpc, current, outcome>>
        BY <1>7 DEF Relay, HostRefuses, Module, Idle, caller, callVars
    <2>2. CASE Send
        BY <1>2, <2>2
    <2>3. CASE sent' = sent
        BY <2>1, <2>3, ControlKept
    <2> QED
        BY <2>2, <2>3, SentGrows
<1> QED
    BY <1>1, <1>2, <1>3, <1>4, <1>5, <1>6, <1>7 DEF CallNext, Caller

-----------------------------------------------------------------------------
(* Everything that is about a call comes from a fragment that was sent, and the *)
(* module knows nothing of a call that the host refuses.                        *)
Known(c) == sent[c] > 0
KnownHere(c) == Known(c) /\ c \notin Refused

FramesKnown ==
    \A i \in Positions :
        /\ inbound[i].type \in {"request", "cancel"}
        /\ Known(inbound[i].call)
        /\ inbound[i].type = "request" => inbound[i].part \in 1 .. sent[inbound[i].call]
JobsKnown == \A k \in Jobs : jobs[k].call = k /\ KnownHere(k)
AssembliesKnown == \A k \in Assemblies : KnownHere(k)
ReplyKnown ==
    mpc = "reply" => /\ KnownHere(reply.call)
                     /\ reply.left <= CallOf[reply.call].resp
                     /\ reply.status # "ok" => reply.left = 1
TransitKnown == \A i \in 1 .. Len(transit) : KnownHere(transit[i].call)
InboxKnown == \A i \in 1 .. Len(inbox) : Known(inbox[i].call)
AnswersKnown == \A c \in Calls : replies[c] # <<>> \/ refusal[c] # "none" => Known(c)

WhereInv == /\ FramesKnown /\ JobsKnown /\ AssembliesKnown /\ ReplyKnown
            /\ TransitKnown /\ InboxKnown /\ AnswersKnown

LEMMA StillKnown ==
    ASSUME TypeOK, CallerTypes, [CallNext]_callVars, NEW c \in Calls
    PROVE  (Known(c) => Known(c)') /\ (KnownHere(c) => KnownHere(c)')
<1>1. sent[c] \in Nat /\ sent'[c] \in Nat /\ sent'[c] >= sent[c]
    BY SentGrows
<1> QED
    BY <1>1 DEF Known, KnownHere

LEMMA FramesKnownKept ==
    ASSUME TypeOK, FramesKnown, UNCHANGED sent,
           inbound' = inbound \/ (inbound # <<>> /\ inbound' = Tail(inbound))
    PROVE  FramesKnown'
<1>1. CASE inbound' = inbound
    BY <1>1 DEF FramesKnown, Positions, Known
<1>2. CASE inbound # <<>> /\ inbound' = Tail(inbound)
    <2> SUFFICES ASSUME NEW i \in Positions'
                 PROVE  /\ inbound'[i].type \in {"request", "cancel"}
                        /\ Known(inbound'[i].call)
                        /\ inbound'[i].type = "request" =>
                                inbound'[i].part \in 1 .. sent[inbound'[i].call]
        BY DEF FramesKnown, Known
    <2>1. i + 1 \in Positions /\ inbound'[i] = inbound[i + 1]
        BY <1>2, RingTail
    <2> QED
        BY <2>1 DEF FramesKnown
<1> QED
    BY <1>1, <1>2

LEMMA FramesKnownAppend ==
    ASSUME TypeOK, FramesKnown, NEW c \in Calls, SendFragment(c) \/ SendCancel(c)
    PROVE  FramesKnown'
<1>0. CallOf[c].type = "request" /\ sent \in [Calls -> Nat]
    BY CallFacts DEF TypeOK
<1> DEFINE f == [type |-> CallOf[c].type, call |-> c, part |-> sent[c] + 1]
           g == [type |-> "cancel", call |-> c, part |-> 0]
           new == inbound'[Len(inbound) + 1]
<1>1. \/ SendFragment(c) /\ inbound' = Append(inbound, f) /\ sent' = [sent EXCEPT ![c] = @ + 1]
      \/ SendCancel(c) /\ inbound' = Append(inbound, g) /\ sent' = sent /\ sent[c] > 0
    BY DEF SendFragment, SendCancel
<1>2. /\ \A i \in Positions : i \in Positions' /\ inbound'[i] = inbound[i]
      /\ \A i \in Positions' : i \in Positions \/ i = Len(inbound) + 1
    BY <1>1, RingAppend
<1>3. \A d \in Calls : sent[d] \in Nat /\ sent'[d] \in Nat /\ sent'[d] >= sent[d]
    <2> TAKE d \in Calls
    <2>1. CASE SendFragment(c) /\ sent' = [sent EXCEPT ![c] = @ + 1]
        <3>1. sent'[d] = sent[d] \/ sent'[d] = sent[d] + 1
            BY <1>0, <2>1
        <3> QED
            BY <1>0, <3>1
    <2>2. CASE sent' = sent
        BY <1>0, <2>2
    <2> QED
        BY <1>1, <2>1, <2>2
<1>4. /\ new.type \in {"request", "cancel"} /\ new.call = c /\ sent'[c] > 0
      /\ new.type = "request" => new.part \in 1 .. sent'[c]
    <2>1. CASE SendFragment(c) /\ inbound' = Append(inbound, f)
                /\ sent' = [sent EXCEPT ![c] = @ + 1]
        <3>1. new = f
            BY <2>1, RingAppend
        <3>2. sent'[c] = sent[c] + 1 /\ sent[c] \in Nat
            BY <1>0, <2>1
        <3>3. f.type = "request" /\ f.call = c /\ f.part = sent[c] + 1
            BY <1>0
        <3>4. sent[c] + 1 \in 1 .. sent[c] + 1 /\ sent[c] + 1 > 0
            BY <3>2
        <3> HIDE DEF f, new
        <3> QED
            BY <3>1, <3>2, <3>3, <3>4
    <2>2. CASE inbound' = Append(inbound, g) /\ sent' = sent /\ sent[c] > 0
        <3>1. new = g
            BY <2>2, RingAppend
        <3> QED
            BY <2>2, <3>1
    <2> QED
        BY <1>1, <2>1, <2>2
<1> SUFFICES ASSUME NEW i \in Positions'
             PROVE  /\ inbound'[i].type \in {"request", "cancel"}
                    /\ sent'[inbound'[i].call] > 0
                    /\ inbound'[i].type = "request" =>
                            inbound'[i].part \in 1 .. sent'[inbound'[i].call]
    BY DEF FramesKnown, Known
<1>5. CASE i \in Positions
    <2>1. /\ inbound[i].call \in Calls /\ inbound[i].part \in Nat /\ inbound'[i] = inbound[i]
        BY <1>2, <1>5, FrameTypes
    <2>2. /\ inbound[i].type \in {"request", "cancel"} /\ sent[inbound[i].call] > 0
          /\ inbound[i].type = "request" => inbound[i].part \in 1 .. sent[inbound[i].call]
        BY <1>5 DEF FramesKnown, Known
    <2>3. /\ sent[inbound[i].call] \in Nat /\ sent'[inbound[i].call] \in Nat
          /\ sent'[inbound[i].call] >= sent[inbound[i].call]
        BY <1>3, <2>1
    <2> QED
        BY <2>1, <2>2, <2>3
<1>6. CASE i = Len(inbound) + 1
    BY <1>4, <1>6
<1> QED
    BY <1>2, <1>5, <1>6

(* How a step moves the frames on the way to the module. *)
LEMMA InboundMoves ==
    ASSUME TypeOK, CallerTypes, [CallNext]_callVars
    PROVE  \/ UNCHANGED <<inbound, sent, gaveUp>>
           \/ /\ Module \/ HostRefuses
              /\ inbound # <<>> /\ inbound' = Tail(inbound) /\ UNCHANGED <<sent, gaveUp>>
           \/ current \in Calls /\ Send /\ SendFragment(current)
           \/ current \in Calls /\ Cancel /\ SendCancel(current)
<1>1. CASE \/ Begin \/ SendFails \/ AwaitEpoch \/ AwaitDeadline \/ AwaitFrame \/ AwaitCtx
           \/ Relay \/ UNCHANGED callVars
    BY <1>1 DEF Begin, SendFails, AwaitEpoch, AwaitDeadline, AwaitFrame, AwaitCtx, AwaitNothing,
                Relay, HostTakes, callVars, vars, env
<1>2. CASE Send
    BY <1>2 DEF Send, CallerTypes
<1>3. CASE Cancel
    BY <1>3 DEF Cancel, CallerTypes, vars, env
<1>4. CASE HostRefuses
    BY <1>4 DEF HostRefuses, served, env
<1>5. CASE Module
    <2>1. CASE Loop
        BY <1>5, <2>1, LoopInbound DEF env
    <2>2. CASE Returned
        BY <2>2 DEF Returned, vars, env
    <2> QED
        BY <1>5, <2>1, <2>2 DEF Module
<1>6. CASE Idle(HostRestart) \/ Idle(Stop) \/ Idle(Tick) \/ \E k \in Corrs : Idle(Handler(k))
    BY <1>6 DEF Idle, HostRestart, Stop, Tick, Handler, HandlerReturns, Complete, env
<1> QED
    BY <1>1, <1>2, <1>3, <1>4, <1>5, <1>6 DEF CallNext, Caller

LEMMA FramesKnownStep ==
    ASSUME TypeOK, CallerTypes, FramesKnown, [CallNext]_callVars
    PROVE  FramesKnown'
BY InboundMoves, FramesKnownKept, FramesKnownAppend

(* A frame that the module takes is of a call the host has not refused. *)
LEMMA ModuleTakes ==
    ASSUME TypeOK, FramesKnown, Module,
           PollCancel \/ PollRefused \/ PollFragment \/ PollInvoke
    PROVE  HeadCorr = Head(inbound).call /\ KnownHere(HeadCorr) /\ HeadCorr \in Calls
<1>1. Loop
    BY DEF Loop
<1>2. /\ mpc = "poll" /\ ~epochChanged /\ inbound # <<>> /\ Head(inbound) = inbound[1]
      /\ 1 \in Positions /\ inbound[1].call \in Calls
    BY <1>1, LoopInbound
<1>3. Head(inbound).call \notin Refused
    <2>1. CASE Returned
        BY <1>2, <2>1 DEF Returned
    <2> QED
        BY <1>2, <2>1 DEF Module
<1>4. Known(inbound[1].call)
    BY <1>2 DEF FramesKnown
<1> QED
    BY <1>2, <1>3, <1>4, CallFacts DEF HeadCorr, KnownHere

(* Steps outside the module's loop: what they do to its tables. *)
LEMMA TablesKept ==
    ASSUME TypeOK, CallerTypes, [CallNext]_callVars, ~(Module /\ Loop)
    PROVE  /\ UNCHANGED <<assemblies, mpc, reply, replies>>
           /\ \A k \in Jobs' : /\ k \in Jobs /\ jobs'[k].call = jobs[k].call
                               /\ jobs'[k].cancelled = jobs[k].cancelled
                               /\ jobs'[k].phase = "running" => jobs[k].phase = "running"
<1>1. ASSUME UNCHANGED jobs
      PROVE  \A k \in Jobs' : /\ k \in Jobs /\ jobs'[k].call = jobs[k].call
                              /\ jobs'[k].cancelled = jobs[k].cancelled
                              /\ jobs'[k].phase = "running" => jobs[k].phase = "running"
    BY <1>1 DEF Jobs
<1>2. CASE \/ Begin \/ SendFails \/ AwaitEpoch \/ AwaitDeadline \/ AwaitFrame \/ AwaitCtx
           \/ Relay \/ UNCHANGED callVars \/ Send \/ Cancel \/ HostRefuses
    <2>1. UNCHANGED <<assemblies, mpc, reply, replies, jobs>>
        BY <1>2 DEF Begin, SendFails, AwaitEpoch, AwaitDeadline, AwaitFrame, AwaitCtx,
                    AwaitNothing, Relay, HostTakes, callVars, vars, Send, SendFragment, Cancel,
                    SendCancel, HostRefuses, served
    <2> QED
        BY <1>1, <2>1
<1>3. CASE Module
    <2>1. UNCHANGED <<assemblies, mpc, reply, replies, jobs>>
        BY <1>3 DEF Module, Returned, vars
    <2> QED
        BY <1>1, <2>1
<1>4. CASE Idle(HostRestart) \/ Idle(Stop) \/ Idle(Tick)
    <2>1. UNCHANGED <<assemblies, mpc, reply, replies, jobs>>
        BY <1>4 DEF Idle, HostRestart, Stop, Tick
    <2> QED
        BY <1>1, <2>1
<1>5. ASSUME NEW k \in Corrs, Idle(Handler(k))
      PROVE  /\ UNCHANGED <<assemblies, mpc, reply, replies>>
             /\ \A l \in Jobs' : /\ l \in Jobs /\ jobs'[l].call = jobs[l].call
                                 /\ jobs'[l].cancelled = jobs[l].cancelled
                                 /\ jobs'[l].phase = "running" => jobs[l].phase = "running"
    <2>1. UNCHANGED <<assemblies, mpc, reply, replies>>
        BY <1>5 DEF Idle, Handler, HandlerReturns, Complete
    <2>2. /\ \A l \in Corrs : l # k => jobs'[l] = jobs[l]
          /\ jobs[k].phase # "none" /\ jobs'[k].phase # "running"
          /\ jobs'[k].call = jobs[k].call /\ jobs'[k].cancelled = jobs[k].cancelled
        <3>1. jobs \in [Corrs -> Work] /\ jobs[k] \in Work
            BY DEF TypeOK
        <3>2. CASE HandlerReturns(k)
            BY <3>1, <3>2 DEF HandlerReturns, Work
        <3>3. CASE Complete(k)
            BY <3>1, <3>3 DEF Complete, Work
        <3> QED
            BY <1>5, <3>2, <3>3 DEF Idle, Handler
    <2>3. ASSUME NEW l \in Jobs'
          PROVE  /\ l \in Jobs /\ jobs'[l].call = jobs[l].call
                 /\ jobs'[l].cancelled = jobs[l].cancelled
                 /\ jobs'[l].phase = "running" => jobs[l].phase = "running"
        BY <2>2 DEF Jobs
    <2> QED
        BY <2>1, <2>3
<1> QED
    BY <1>2, <1>3, <1>4, <1>5 DEF CallNext, Caller

LEMMA JobsKnownStep ==
    ASSUME TypeOK, CallerTypes, FramesKnown, JobsKnown, [CallNext]_callVars
    PROVE  JobsKnown'
<1> SUFFICES ASSUME NEW k \in Jobs'
             PROVE  jobs'[k].call = k /\ KnownHere(k)'
    BY DEF JobsKnown
<1>0. k \in Calls
    BY CallFacts DEF Jobs
<1>1. CASE k \in Jobs /\ jobs'[k].call = jobs[k].call
    BY <1>0, <1>1, StillKnown DEF JobsKnown
<1>2. CASE Module /\ Loop
    <2>1. CASE PollInvoke /\ k = HeadCorr /\ jobs'[k].call = Head(inbound).call
        <3>1. HeadCorr = Head(inbound).call /\ KnownHere(HeadCorr)
            BY <1>2, <2>1, ModuleTakes
        <3> QED
            BY <1>0, <2>1, <3>1, StillKnown
    <2> QED
        BY <1>1, <1>2, <2>1, LoopJobs
<1>3. CASE ~(Module /\ Loop)
    BY <1>1, <1>3, TablesKept
<1> QED
    BY <1>2, <1>3

LEMMA AssembliesKnownStep ==
    ASSUME TypeOK, CallerTypes, FramesKnown, AssembliesKnown, [CallNext]_callVars
    PROVE  AssembliesKnown'
<1> SUFFICES ASSUME NEW k \in Assemblies'
             PROVE  KnownHere(k)'
    BY DEF AssembliesKnown
<1>0. k \in Calls
    BY CallFacts DEF Assemblies
<1>1. CASE k \in Assemblies
    BY <1>0, <1>1, StillKnown DEF AssembliesKnown
<1>2. CASE Module /\ Loop
    <2>1. CASE PollFragment /\ k = HeadCorr
        BY <1>0, <1>2, <2>1, ModuleTakes, StillKnown
    <2> QED
        BY <1>1, <1>2, <2>1, LoopAssemblies
<1>3. CASE ~(Module /\ Loop)
    <2>1. assemblies' = assemblies
        BY <1>3, TablesKept
    <2> QED
        BY <1>1, <2>1 DEF Assemblies
<1> QED
    BY <1>2, <1>3

LEMMA ReplyKnownStep ==
    ASSUME TypeOK, TypeOK', InFlightInv, CallerTypes, FramesKnown, JobsKnown, ReplyKnown,
           [CallNext]_callVars
    PROVE  ReplyKnown'
<1> SUFFICES ASSUME mpc' = "reply"
             PROVE  /\ sent'[reply'.call] > 0 /\ reply'.call \notin Refused
                    /\ reply'.left <= CallOf[reply'.call].resp
                    /\ reply'.status # "ok" => reply'.left = 1
    BY DEF ReplyKnown, KnownHere, Known
<1>0. /\ reply \in [call : Calls, status : Status, left : Nat \ {0}]
      /\ reply' \in [call : Calls, status : Status, left : Nat \ {0}]
      /\ CallOf[reply.call].resp \in Nat
    BY CallFacts DEF TypeOK
<1>1. CASE Module /\ Loop
    <2>1. CASE mpc = "reply" /\ reply.left > 1 /\ reply' = [reply EXCEPT !.left = @ - 1]
        <3>1. reply'.call = reply.call /\ reply'.status = reply.status
              /\ reply'.left = reply.left - 1
            BY <1>0, <2>1
        <3>2. /\ KnownHere(reply.call) /\ reply.left <= CallOf[reply.call].resp
              /\ reply.status = "ok"
            BY <1>0, <2>1 DEF ReplyKnown
        <3>3. PICK c \in Calls : c = reply.call
            BY <1>0
        <3>4. KnownHere(c)'
            BY <3>2, <3>3, StillKnown
        <3>5. reply.left - 1 <= CallOf[reply.call].resp
            BY <1>0, <3>2
        <3> QED
            BY <3>1, <3>2, <3>3, <3>4, <3>5 DEF KnownHere, Known
    <2>2. ASSUME NEW c \in Calls, KnownHere(c), reply'.call = c, Fresh(reply')
          PROVE  /\ sent'[reply'.call] > 0 /\ reply'.call \notin Refused
                 /\ reply'.left <= CallOf[reply'.call].resp
                 /\ reply'.status # "ok" => reply'.left = 1
        <3>1. KnownHere(c)'
            BY <2>2, StillKnown
        <3> QED
            BY <2>2, <3>1 DEF Fresh, KnownHere, Known
    <2>3. ASSUME NEW k \in Jobs
          PROVE  jobs[k].call \in Calls /\ KnownHere(jobs[k].call)
        BY CallFacts DEF JobsKnown, Jobs
    <2>4. PollRefused => Head(inbound).call \in Calls /\ KnownHere(Head(inbound).call)
        BY <1>1, ModuleTakes
    <2> QED
        BY <1>1, <2>1, <2>2, <2>3, <2>4, LoopReply DEF InFlightInv
<1>2. CASE ~(Module /\ Loop)
    <2>1. UNCHANGED <<mpc, reply>>
        BY <1>2, TablesKept
    <2>2. PICK c \in Calls : c = reply.call
        BY <1>0
    <2>3. KnownHere(c)'
        BY <2>1, <2>2, StillKnown DEF ReplyKnown
    <2> QED
        BY <2>1, <2>2, <2>3 DEF ReplyKnown, KnownHere, Known
<1> QED
    BY <1>1, <1>2

(* The replies in transit, those the caller has not read, and the answers. *)
LEMMA EmittedFacts ==
    ASSUME TypeOK, InFlightInv, CallerTypes, Module
    PROVE  /\ UNCHANGED <<inbox, cpc, current, got, outcome, refusal>>
           /\ \/ /\ transit' = Append(transit, Emitted) /\ mpc = "reply" /\ outbound' = outbound + 1
                 /\ \/ reply.left > 1 /\ reply' = [reply EXCEPT !.left = @ - 1] /\ mpc' = "reply"
                       /\ replies' = replies
                    \/ reply.left = 1 /\ mpc' = "drain"
                       /\ replies' = [replies EXCEPT ![reply.call] = Append(@, reply.status)]
              \/ /\ transit' = transit /\ UNCHANGED replies
                 /\ \/ UNCHANGED <<mpc, reply>>
                    \/ mpc' = "returned"
                    \/ mpc \notin {"reply", "returned"} /\ mpc' # "reply"
                    \/ mpc \notin {"reply", "returned"} /\ mpc' = "reply" /\ Fresh(reply')
<1>0. outbound \in Nat /\ outbound # outbound + 1
    BY DEF TypeOK
<1>1. UNCHANGED <<inbox, cpc, current, got, outcome, refusal>>
    BY DEF Module, caller
<1>2. transit' = IF outbound' = outbound THEN transit ELSE Append(transit, Emitted)
    BY DEF Module
<1>3. CASE Returned
    BY <1>1, <1>2, <1>3 DEF Returned, vars
<1>4. CASE Loop
    BY <1>0, <1>1, <1>2, <1>4, LoopReply DEF InFlightInv
<1> QED
    BY <1>3, <1>4 DEF Module

(* How a step moves the frames on the way back. *)
LEMMA ReturnMoves ==
    ASSUME TypeOK, CallerTypes, [CallNext]_callVars
    PROVE  \/ UNCHANGED <<transit, inbox, replies, refusal>>
           \/ AwaitFrame /\ inbox # <<>> /\ inbox' = Tail(inbox)
              /\ UNCHANGED <<transit, replies, refusal>>
           \/ Relay /\ transit # <<>> /\ transit' = Tail(transit)
              /\ inbox' = Append(inbox, Head(transit)) /\ UNCHANGED <<replies, refusal>>
           \/ HostRefuses /\ UNCHANGED <<transit, replies>>
           \/ Module /\ UNCHANGED <<inbox, refusal>>
<1>1. CASE AwaitFrame
    BY <1>1 DEF AwaitFrame, vars
<1>2. CASE Relay
    BY <1>2 DEF Relay, HostTakes
<1>3. CASE HostRefuses
    BY <1>3 DEF HostRefuses, served
<1>4. CASE Module
    BY <1>4 DEF Module
<1>5. CASE \/ Begin \/ SendFails \/ AwaitEpoch \/ AwaitDeadline \/ AwaitCtx
           \/ UNCHANGED callVars \/ Send \/ Cancel
           \/ Idle(HostRestart) \/ Idle(Stop) \/ Idle(Tick) \/ \E k \in Corrs : Idle(Handler(k))
    BY <1>5 DEF Begin, SendFails, AwaitEpoch, AwaitDeadline, AwaitCtx, AwaitNothing, callVars,
                vars, Send, SendFragment, Cancel, SendCancel, Idle, HostRestart, Stop, Tick,
                Handler, HandlerReturns, Complete
<1> QED
    BY <1>1, <1>2, <1>3, <1>4, <1>5 DEF CallNext, Caller

(* What the host does with a request of a refused call. *)
Refuses(c, status) ==
    /\ inbox' = Append(inbox, [call |-> c, status |-> status, part |-> 1, more |-> FALSE])
    /\ refusal' = [refusal EXCEPT ![c] = IF @ = "none" THEN status ELSE @]

LEMMA RefusalFacts ==
    ASSUME TypeOK, CallerTypes, FramesKnown, HostRefuses
    PROVE  /\ UNCHANGED <<served, transit, caller>>
           /\ \/ UNCHANGED <<inbox, refusal>>
              \/ \E c \in Refused \cap Calls, status \in Refusals : Known(c) /\ Refuses(c, status)
<1> DEFINE c == Head(inbound).call
<1>1. c \in Refused \cap Calls /\ inbound # <<>>
    BY CallerAssumption DEF HostRefuses
<1>2. Known(c)
    <2>1. 1 \in Positions /\ Head(inbound) = inbound[1]
        <3>1. inbound \in Seq(Frame)
            BY DEF TypeOK
        <3> QED
            BY <1>1, <3>1 DEF Positions
    <2> QED
        BY <2>1 DEF FramesKnown
<1>3. /\ UNCHANGED <<served, transit, caller>>
      /\ \/ UNCHANGED <<inbox, refusal>>
         \/ \E status \in Refusals : Refuses(c, status)
    BY DEF HostRefuses, Refuses
<1> QED
    BY <1>1, <1>2, <1>3

LEMMA ReturnKnownStep ==
    ASSUME TypeOK, TypeOK', InFlightInv, CallerTypes, FramesKnown, ReplyKnown,
           TransitKnown, InboxKnown, AnswersKnown, [CallNext]_callVars
    PROVE  TransitKnown' /\ InboxKnown' /\ AnswersKnown'
<1>0. /\ transit \in Seq(ReplyFrame) /\ inbox \in Seq(ReplyFrame)
      /\ replies \in [Calls -> Seq(Status)] /\ refusal \in [Calls -> Refusals \cup {"none"}]
    BY DEF CallerTypes, TypeOK
<1>a. /\ \A i \in 1 .. Len(transit) : transit[i].call \in Calls
      /\ \A i \in 1 .. Len(inbox) : inbox[i].call \in Calls
    <2>1. /\ \A i \in 1 .. Len(transit) : transit[i] \in ReplyFrame
          /\ \A i \in 1 .. Len(inbox) : inbox[i] \in ReplyFrame
        BY <1>0
    <2> QED
        BY <2>1 DEF ReplyFrame
<1>b. \A c \in Calls : sent[c] > 0 => sent'[c] > 0
    BY StillKnown DEF Known
<1>c. /\ \A i \in 1 .. Len(transit) : sent'[transit[i].call] > 0 /\ transit[i].call \notin Refused
      /\ \A i \in 1 .. Len(inbox) : sent'[inbox[i].call] > 0
      /\ \A c \in Calls : replies[c] # <<>> \/ refusal[c] # "none" => sent'[c] > 0
    <2>1. \A i \in 1 .. Len(transit) :
                sent'[transit[i].call] > 0 /\ transit[i].call \notin Refused
        BY <1>a, <1>b DEF TransitKnown, Known, KnownHere
    <2>2. \A i \in 1 .. Len(inbox) : sent'[inbox[i].call] > 0
        BY <1>a, <1>b DEF InboxKnown, Known
    <2>3. \A c \in Calls : replies[c] # <<>> \/ refusal[c] # "none" => sent'[c] > 0
        BY <1>b DEF AnswersKnown, Known
    <2> QED
        BY <2>1, <2>2, <2>3
<1>1. CASE UNCHANGED <<transit, inbox, replies, refusal>>
    BY <1>1, <1>c DEF TransitKnown, InboxKnown, AnswersKnown, Known, KnownHere
<1>2. CASE inbox # <<>> /\ inbox' = Tail(inbox) /\ UNCHANGED <<transit, replies, refusal>>
    <2>1. \A i \in 1 .. Len(inbox') : i + 1 \in 1 .. Len(inbox) /\ inbox'[i] = inbox[i + 1]
        BY <1>0, <1>2
    <2>2. InboxKnown'
        BY <1>c, <2>1 DEF InboxKnown, Known
    <2> QED
        BY <1>2, <1>c, <2>2 DEF TransitKnown, AnswersKnown, Known, KnownHere
<1>3. CASE /\ transit # <<>> /\ transit' = Tail(transit)
           /\ inbox' = Append(inbox, Head(transit)) /\ UNCHANGED <<replies, refusal>>
    <2>1. /\ \A i \in 1 .. Len(transit') : i + 1 \in 1 .. Len(transit)
                                           /\ transit'[i] = transit[i + 1]
          /\ 1 \in 1 .. Len(transit) /\ Head(transit) = transit[1]
        BY <1>0, <1>3
    <2>2. \A i \in 1 .. Len(inbox') : \/ i \in 1 .. Len(inbox) /\ inbox'[i] = inbox[i]
                                      \/ inbox'[i] = transit[1]
        BY <1>0, <1>3, <2>1
    <2>3. InboxKnown'
        BY <1>c, <2>1, <2>2 DEF InboxKnown, Known
    <2>4. TransitKnown'
        BY <1>c, <2>1 DEF TransitKnown, Known, KnownHere
    <2> QED
        BY <1>3, <1>c, <2>3, <2>4 DEF AnswersKnown, Known
<1>4. CASE HostRefuses
    <2>1. UNCHANGED <<transit, replies>>
        BY <1>4, RefusalFacts DEF served
    <2>2. ASSUME NEW c \in Refused \cap Calls, NEW status \in Refusals, Known(c),
                 Refuses(c, status)
          PROVE  InboxKnown' /\ AnswersKnown'
        <3>1. \A i \in 1 .. Len(inbox') : \/ i \in 1 .. Len(inbox) /\ inbox'[i] = inbox[i]
                                          \/ inbox'[i].call = c
            BY <1>0, <2>2 DEF Refuses
        <3>2. \A d \in Calls : d # c => refusal'[d] = refusal[d]
            BY <1>0, <2>2 DEF Refuses
        <3>3. sent'[c] > 0
            BY <1>b, <2>2 DEF Known
        <3>4. InboxKnown'
            BY <1>c, <3>1, <3>3 DEF InboxKnown, Known
        <3>5. AnswersKnown'
            BY <1>c, <2>1, <3>2, <3>3 DEF AnswersKnown, Known
        <3> QED
            BY <3>4, <3>5
    <2>3. TransitKnown'
        BY <1>c, <2>1 DEF TransitKnown, Known, KnownHere
    <2>4. CASE UNCHANGED <<inbox, refusal>>
        BY <1>c, <2>1, <2>3, <2>4 DEF InboxKnown, AnswersKnown, Known
    <2> QED
        BY <1>4, <2>2, <2>3, <2>4, RefusalFacts
<1>5. CASE Module
    <2>1. UNCHANGED <<inbox, refusal>>
        BY <1>5, EmittedFacts
    <2>2. InboxKnown'
        BY <1>c, <2>1 DEF InboxKnown, Known
    <2>3. reply.call \in Calls /\ Emitted.call = reply.call
        BY DEF TypeOK, Emitted
    <2>4. mpc = "reply" => sent'[reply.call] > 0 /\ reply.call \notin Refused
        BY <1>b, <2>3 DEF ReplyKnown, KnownHere, Known
    <2>5. CASE transit' = Append(transit, Emitted) /\ mpc = "reply"
        <3>1. \A i \in 1 .. Len(transit') : \/ i \in 1 .. Len(transit) /\ transit'[i] = transit[i]
                                            \/ transit'[i] = Emitted
            BY <1>0, <2>5
        <3>2. TransitKnown'
            BY <1>c, <2>3, <2>4, <2>5, <3>1 DEF TransitKnown, Known, KnownHere
        <3>3. \A d \in Calls : d # reply.call => replies'[d] = replies[d]
            BY <1>0, <1>5, <2>5, EmittedFacts
        <3>4. AnswersKnown'
            BY <1>c, <2>1, <2>4, <2>5, <3>3 DEF AnswersKnown, Known
        <3> QED
            BY <2>2, <3>2, <3>4
    <2>6. CASE UNCHANGED <<transit, replies>>
        BY <1>c, <2>1, <2>2, <2>6 DEF TransitKnown, AnswersKnown, Known, KnownHere
    <2> QED
        BY <1>5, <2>5, <2>6, EmittedFacts
<1> QED
    BY <1>1, <1>2, <1>3, <1>4, <1>5, ReturnMoves

LEMMA WhereStep ==
    ASSUME TypeOK, TypeOK', InFlightInv, CallerTypes, WhereInv, [CallNext]_callVars
    PROVE  WhereInv'
BY FramesKnownStep, JobsKnownStep, AssembliesKnownStep, ReplyKnownStep, ReturnKnownStep
DEF WhereInv

-----------------------------------------------------------------------------
(* A cancel comes after the fragments of its call, and a job that runs for a call *)
(* that was given up has been cancelled or has its cancel before it.              *)
Cancels(i, c) == inbound[i].type = "cancel" /\ inbound[i].call = c

CancelFollows ==
    \A c \in gaveUp : \A i \in Positions :
        Asks(i, c) => \E j \in Positions : j > i /\ Cancels(j, c)
CancelComes ==
    \A c \in gaveUp \cap Jobs :
        jobs[c].phase = "running" => jobs[c].cancelled \/ \E j \in Positions : Cancels(j, c)

LEMMA CancelFollowsStep ==
    ASSUME TypeOK, CallerTypes, CancelFollows, [CallNext]_callVars
    PROVE  CancelFollows'
<1> SUFFICES ASSUME NEW c \in gaveUp', NEW i \in Positions', Asks(i, c)'
             PROVE  \E j \in Positions' : j > i /\ Cancels(j, c)'
    BY DEF CancelFollows
<1>1. CASE UNCHANGED <<inbound, sent, gaveUp>>
    <2>1. i \in Positions /\ Asks(i, c)
        BY <1>1 DEF Positions, Asks
    <2>2. PICK j \in Positions : j > i /\ Cancels(j, c)
        BY <1>1, <2>1 DEF CancelFollows
    <2> QED
        BY <1>1, <2>2 DEF Positions, Cancels
<1>2. CASE inbound # <<>> /\ inbound' = Tail(inbound) /\ UNCHANGED <<sent, gaveUp>>
    <2>1. i \in Nat /\ i >= 1 /\ i + 1 \in Positions /\ Asks(i + 1, c)
        BY <1>2, RingTail DEF Asks
    <2>2. PICK j \in Positions : j > i + 1 /\ Cancels(j, c)
        BY <1>2, <2>1 DEF CancelFollows
    <2>3. j \in Nat /\ j # 1 /\ j - 1 > i
        BY <2>1, <2>2 DEF Positions
    <2>4. j - 1 \in Positions' /\ inbound'[j - 1] = inbound[j]
        BY <1>2, <2>3, RingTail
    <2> QED
        BY <2>2, <2>3, <2>4 DEF Cancels
<1>3. CASE current \in Calls /\ SendFragment(current)
    <2> DEFINE f == [type |-> CallOf[current].type, call |-> current, part |-> sent[current] + 1]
    <2>1. /\ inbound' = Append(inbound, f) /\ f.call = current /\ current \notin gaveUp
          /\ gaveUp' = gaveUp
        BY <1>3 DEF SendFragment
    <2> HIDE DEF f
    <2>2. /\ \A n \in Positions : n \in Positions' /\ inbound'[n] = inbound[n]
          /\ i \in Positions \/ inbound'[i] = f
        BY <2>1, RingAppend
    <2>3. i \in Positions /\ Asks(i, c)
        BY <2>1, <2>2 DEF Asks
    <2>4. PICK j \in Positions : j > i /\ Cancels(j, c)
        BY <2>1, <2>3 DEF CancelFollows
    <2> QED
        BY <2>2, <2>4 DEF Cancels
<1>4. CASE current \in Calls /\ SendCancel(current)
    <2> DEFINE g == [type |-> "cancel", call |-> current, part |-> 0]
               last == Len(inbound) + 1
    <2>1. /\ inbound' = Append(inbound, g) /\ g.call = current /\ g.type = "cancel"
          /\ gaveUp' = gaveUp \cup {current}
        BY <1>4 DEF SendCancel
    <2> HIDE DEF g
    <2>2. /\ \A n \in Positions : n \in Positions' /\ inbound'[n] = inbound[n] /\ n < last
          /\ last \in Positions' /\ inbound'[last] = g
          /\ i \in Positions \/ i = last
        BY <2>1, RingAppend DEF Positions
    <2>3. i \in Positions /\ Asks(i, c)
        BY <2>1, <2>2 DEF Asks
    <2>4. CASE c \in gaveUp
        <3>1. PICK j \in Positions : j > i /\ Cancels(j, c)
            BY <2>3, <2>4 DEF CancelFollows
        <3> QED
            BY <2>2, <3>1 DEF Cancels
    <2>5. CASE c = current
        <3>1. last > i
            BY <2>3 DEF Positions, last
        <3>2. inbound'[last].type = "cancel" /\ inbound'[last].call = c
            BY <2>1, <2>2, <2>5
        <3> QED
            BY <2>2, <3>1, <3>2 DEF Cancels
    <2> QED
        BY <2>1, <2>4, <2>5
<1> QED
    BY <1>1, <1>2, <1>3, <1>4, InboundMoves

LEMMA CancelComesStep ==
    ASSUME TypeOK, CallerTypes, FramesKnown, JobsKnown, CancelFollows, CancelComes,
           [CallNext]_callVars
    PROVE  CancelComes'
<1> SUFFICES ASSUME NEW c \in gaveUp', c \in Jobs', jobs'[c].phase = "running",
                    ~jobs'[c].cancelled
             PROVE  \E j \in Positions' : Cancels(j, c)'
    BY DEF CancelComes
<1>0. c \in Calls
    BY CallFacts DEF Jobs
<1>1. CASE Module /\ Loop
    <2>1. UNCHANGED gaveUp
        BY <1>1, LoopInbound DEF env
    <2>2. CASE inbound' = inbound /\ ~PollCancel /\ ~PollInvoke
        <3>1. c \in Jobs /\ jobs[c].phase = "running" /\ ~jobs[c].cancelled
            BY <1>1, <2>2, LoopJobs
        <3> QED
            BY <2>1, <2>2, <3>1 DEF CancelComes, Positions, Cancels
    <2>3. CASE inbound # <<>> /\ inbound' = Tail(inbound)
        <3>1. PICK j \in Positions : j # 1 /\ Cancels(j, c)
            <4>1. CASE /\ c \in Jobs /\ jobs[c].phase = "running" /\ ~jobs[c].cancelled
                       /\ PollCancel => c # HeadCorr
                <5>1. PICK j \in Positions : Cancels(j, c)
                    BY <2>1, <4>1 DEF CancelComes
                <5>2. ASSUME j = 1
                      PROVE  FALSE
                    <6>1. inbound[1].type = "cancel" /\ inbound[1].call = c
                          /\ Head(inbound) = inbound[1]
                        BY <2>3, <5>1, <5>2, RingTail DEF Cancels
                    <6>2. PollCancel
                        <7>1. inbound' # inbound
                            BY <2>3 DEF TypeOK
                        <7> QED
                            BY <1>1, <6>1, <7>1, LoopInbound
                    <6> QED
                        BY <1>0, <4>1, <6>1, <6>2, CallFacts DEF HeadCorr
                <5> QED
                    BY <5>1, <5>2
            <4>2. CASE PollInvoke /\ c = HeadCorr
                <5>1. /\ Head(inbound) = inbound[1] /\ 1 \in Positions
                      /\ inbound[1].type = "request"
                    BY <4>2, Polled DEF PollInvoke
                <5>2. inbound[1].call = c
                    BY <1>1, <4>2, <5>1, ModuleTakes
                <5>3. PICK j \in Positions : j > 1 /\ Cancels(j, c)
                    BY <2>1, <5>1, <5>2 DEF CancelFollows, Asks
                <5> QED
                    BY <5>3 DEF Positions
            <4> QED
                BY <1>1, <4>1, <4>2, LoopJobs
        <3>2. j - 1 \in Positions' /\ inbound'[j - 1] = inbound[j]
            BY <2>3, <3>1, RingTail
        <3> QED
            BY <3>1, <3>2 DEF Cancels
    <2> QED
        BY <1>1, <2>2, <2>3, LoopInbound
<1>2. CASE ~(Module /\ Loop)
    <2>1. c \in Jobs /\ jobs[c].phase = "running" /\ ~jobs[c].cancelled
        BY <1>2, TablesKept
    <2>2. c \in gaveUp => \E j \in Positions : Cancels(j, c)
        BY <2>1 DEF CancelComes
    <2>3. CASE UNCHANGED <<inbound, sent, gaveUp>>
        BY <2>2, <2>3 DEF Positions, Cancels
    <2>4. CASE HostRefuses /\ inbound # <<>> /\ inbound' = Tail(inbound) /\ UNCHANGED gaveUp
        <3>1. PICK j \in Positions : Cancels(j, c)
            BY <2>2, <2>4
        <3>2. j # 1
            <4>1. Head(inbound) = inbound[1] /\ Head(inbound).call \in Refused
                BY <2>4, RingTail DEF HostRefuses
            <4>2. c \notin Refused
                BY <2>1 DEF JobsKnown, KnownHere
            <4> QED
                BY <3>1, <4>1, <4>2 DEF Cancels
        <3>3. j - 1 \in Positions' /\ inbound'[j - 1] = inbound[j]
            BY <2>4, <3>2, RingTail
        <3> QED
            BY <3>1, <3>3 DEF Cancels
    <2>5. CASE SendFragment(current)
        <3>1. /\ \A n \in Positions : n \in Positions' /\ inbound'[n] = inbound[n]
              /\ gaveUp' = gaveUp
            BY <2>5, RingAppend DEF SendFragment
        <3> QED
            BY <2>2, <3>1 DEF Cancels
    <2>6. CASE SendCancel(current)
        <3> DEFINE g == [type |-> "cancel", call |-> current, part |-> 0]
        <3>1. /\ inbound' = Append(inbound, g) /\ g.call = current /\ g.type = "cancel"
              /\ gaveUp' = gaveUp \cup {current}
            BY <2>6 DEF SendCancel
        <3> HIDE DEF g
        <3>2. /\ \A n \in Positions : n \in Positions' /\ inbound'[n] = inbound[n]
              /\ Len(inbound) + 1 \in Positions' /\ inbound'[Len(inbound) + 1] = g
            BY <3>1, RingAppend
        <3>3. CASE c \in gaveUp
            BY <2>2, <3>2, <3>3 DEF Cancels
        <3>4. CASE c = current
            BY <3>1, <3>2, <3>4 DEF Cancels
        <3> QED
            BY <3>1, <3>3, <3>4
    <2>7. CASE Module /\ Returned
        BY <2>2, <2>7 DEF Returned, vars, env, Positions, Cancels
    <2> QED
        BY <1>2, <2>3, <2>4, <2>5, <2>6, <2>7, InboundMoves DEF Module
<1> QED
    BY <1>1, <1>2

-----------------------------------------------------------------------------
(* A fragment on its way is followed by the next one that was sent, and what the *)
(* module has put together waits for more.                                       *)
NextFollows ==
    \A i \in Positions :
        inbound[i].type = "request" /\ inbound[i].part < sent[inbound[i].call] =>
            \E j \in Positions : j > i /\ PartAt(j, inbound[i].call, inbound[i].part + 1)
MoreComes == \A k \in Assemblies : InFlight(k) \/ sent[k] < CallOf[k].frags

LEMMA NextFollowsStep ==
    ASSUME TypeOK, CallerTypes, NextFollows, [CallNext]_callVars
    PROVE  NextFollows'
<1> SUFFICES ASSUME NEW i \in Positions', inbound'[i].type = "request",
                    inbound'[i].part < sent'[inbound'[i].call]
             PROVE  \E j \in Positions' :
                        /\ j > i /\ inbound'[j].type = "request"
                        /\ inbound'[j].call = inbound'[i].call
                        /\ inbound'[j].part = inbound'[i].part + 1
    BY DEF NextFollows, PartAt, Asks
<1>1. CASE UNCHANGED <<inbound, sent, gaveUp>>
    <2>1. i \in Positions
        BY <1>1 DEF Positions
    <2>2. PICK j \in Positions : j > i /\ PartAt(j, inbound[i].call, inbound[i].part + 1)
        BY <1>1, <2>1 DEF NextFollows
    <2> QED
        BY <1>1, <2>2 DEF Positions, PartAt, Asks
<1>2. CASE inbound # <<>> /\ inbound' = Tail(inbound) /\ UNCHANGED <<sent, gaveUp>>
    <2>1. i \in Nat /\ i >= 1 /\ i + 1 \in Positions /\ inbound'[i] = inbound[i + 1]
        BY <1>2, RingTail
    <2>2. PICK j \in Positions :
            j > i + 1 /\ PartAt(j, inbound[i + 1].call, inbound[i + 1].part + 1)
        BY <1>2, <2>1 DEF NextFollows
    <2>3. j \in Nat /\ j # 1 /\ j - 1 > i
        BY <2>1, <2>2 DEF Positions
    <2>4. j - 1 \in Positions' /\ inbound'[j - 1] = inbound[j]
        BY <1>2, <2>3, RingTail
    <2> QED
        BY <2>1, <2>2, <2>3, <2>4 DEF PartAt, Asks
<1>3. CASE current \in Calls /\ SendFragment(current)
    <2> DEFINE f == [type |-> CallOf[current].type, call |-> current, part |-> sent[current] + 1]
               last == Len(inbound) + 1
    <2>1. /\ inbound' = Append(inbound, f) /\ sent' = [sent EXCEPT ![current] = @ + 1]
          /\ f.type = "request" /\ f.call = current /\ f.part = sent[current] + 1
        BY <1>3, CallFacts DEF SendFragment
    <2>2. /\ sent'[current] = sent[current] + 1 /\ sent[current] \in Nat
          /\ \A c \in Calls : c # current => sent'[c] = sent[c]
        BY <1>3, <2>1 DEF TypeOK
    <2> HIDE DEF f
    <2>3. /\ \A n \in Positions : n \in Positions' /\ inbound'[n] = inbound[n] /\ n < last
          /\ last \in Positions' /\ inbound'[last] = f
          /\ i \in Positions \/ i = last
        BY <2>1, RingAppend DEF Positions
    <2>4. i \in Positions
        <3>1. ASSUME i = last
              PROVE  FALSE
            <4>1. inbound'[i].part = sent[current] + 1 /\ inbound'[i].call = current
                BY <2>1, <2>3, <3>1
            <4>2. sent[current] + 1 < sent[current] + 1
                BY <2>2, <4>1
            <4> QED
                BY <2>2, <4>2
        <3> QED
            BY <2>3, <3>1
    <2> DEFINE g == inbound[i]
    <2>5. /\ inbound'[i] = g /\ g.call \in Calls /\ g.part \in Nat /\ sent[g.call] \in Nat
          /\ g.type = "request"
        BY <2>3, <2>4, FrameTypes
    <2> HIDE DEF g
    <2>6. CASE g.part < sent[g.call]
        <3>1. PICK j \in Positions : j > i /\ PartAt(j, g.call, g.part + 1)
            BY <2>4, <2>5, <2>6 DEF NextFollows, g
        <3> QED
            BY <2>3, <2>5, <3>1 DEF PartAt, Asks
    <2>7. CASE ~(g.part < sent[g.call])
        <3>1. g.call = current
            BY <2>2, <2>5, <2>7
        <3>2. g.part < sent[current] + 1 /\ ~(g.part < sent[current])
            BY <2>2, <2>5, <2>7, <3>1
        <3>3. g.part = sent[current]
            BY <2>2, <2>5, <3>2
        <3>4. last > i
            BY <2>4 DEF Positions
        <3>5. /\ inbound'[last].type = "request" /\ inbound'[last].call = g.call
              /\ inbound'[last].part = g.part + 1
            BY <2>1, <2>3, <3>1, <3>3
        <3> QED
            BY <2>3, <2>5, <3>4, <3>5
    <2> QED
        BY <2>6, <2>7
<1>4. CASE current \in Calls /\ SendCancel(current)
    <2> DEFINE g == [type |-> "cancel", call |-> current, part |-> 0]
    <2>1. /\ inbound' = Append(inbound, g) /\ g.type = "cancel" /\ sent' = sent
        BY <1>4 DEF SendCancel
    <2> HIDE DEF g
    <2>2. /\ \A n \in Positions : n \in Positions' /\ inbound'[n] = inbound[n]
          /\ i \in Positions \/ inbound'[i] = g
        BY <2>1, RingAppend
    <2>3. i \in Positions
        BY <2>1, <2>2
    <2>4. PICK j \in Positions : j > i /\ PartAt(j, inbound[i].call, inbound[i].part + 1)
        BY <2>1, <2>2, <2>3 DEF NextFollows
    <2> QED
        BY <2>2, <2>3, <2>4 DEF PartAt, Asks
<1> QED
    BY <1>1, <1>2, <1>3, <1>4, InboundMoves

LEMMA QueueHolds ==
    ASSUME NEW q \in Seq(Frame), NEW k
    PROVE  (\E i \in 1 .. Len(q) : CallOf[q[i].call].corr = k)
                <=> \E i \in 1 .. Len(q) : q[i].call = k
<1>1. \A i \in 1 .. Len(q) : q[i] \in Frame
    OBVIOUS
<1>2. \A f \in Frame : CallOf[f.call].corr = f.call
    BY CallFacts DEF Frame
<1> QED
    BY <1>1, <1>2

LEMMA InFlightIs ==
    ASSUME TypeOK, NEW k
    PROVE  InFlight(k) <=> \E i \in Positions : inbound[i].call = k
BY QueueHolds DEF InFlight, Positions, TypeOK

LEMMA MoreComesStep ==
    ASSUME TypeOK, TypeOK', CallerTypes, ControlInv, FramesKnown, AssembliesKnown, NextFollows,
           MoreComes, [CallNext]_callVars
    PROVE  MoreComes'
<1> SUFFICES ASSUME NEW k \in Assemblies'
             PROVE  (\E i \in Positions' : inbound'[i].call = k) \/ sent'[k] < CallOf[k].frags
    <2>1. inbound' \in Seq(Frame)
        BY DEF TypeOK
    <2>2. \A k : (\E i \in 1 .. Len(inbound') : CallOf[inbound'[i].call].corr = k)
                    <=> \E i \in 1 .. Len(inbound') : inbound'[i].call = k
        BY <2>1, QueueHolds
    <2> QED
        BY <2>2 DEF MoreComes, InFlight, Positions
<1>0. k \in Calls
    BY CallFacts DEF Assemblies
<1>a. k \in Assemblies => (\E i \in Positions : inbound[i].call = k) \/ sent[k] < CallOf[k].frags
    BY InFlightIs DEF MoreComes
<1>b. ASSUME inbound # <<>>, inbound' = Tail(inbound), NEW j \in Positions, j # 1,
             inbound[j].call = k
      PROVE  \E i \in Positions' : inbound'[i].call = k
    <2>1. j - 1 \in Positions' /\ inbound'[j - 1] = inbound[j]
        BY <1>b, RingTail
    <2> QED
        BY <1>b, <2>1
<1>1. CASE Module /\ Loop
    <2>1. UNCHANGED sent
        BY <1>1, LoopInbound DEF env
    <2>2. CASE inbound' = inbound /\ ~PollFragment
        <3>1. k \in Assemblies
            BY <1>1, <2>2, LoopAssemblies
        <3> QED
            BY <1>a, <2>1, <2>2, <3>1 DEF Positions
    <2>3. CASE /\ inbound # <<>> /\ inbound' = Tail(inbound)
               /\ Head(inbound) = inbound[1] /\ 1 \in Positions
               /\ PollCancel \/ PollRefused \/ PollFragment \/ PollInvoke
        <3>0. HeadCorr = inbound[1].call /\ HeadCorr \in Calls
            BY <1>1, <2>3, ModuleTakes
        <3>1. CASE k \in Assemblies /\ k # HeadCorr
            <4>1. \A j \in Positions : inbound[j].call = k => j # 1
                BY <3>0, <3>1
            <4> QED
                BY <1>a, <1>b, <2>1, <2>3, <3>1, <4>1
        <3>2. CASE PollFragment /\ k = HeadCorr
            <4> DEFINE h == inbound[1]
            <4>1. h.type = "request" /\ h.part # CallOf[k].frags
                BY <2>3, <3>0, <3>2 DEF PollFragment, PollFrame, Final
            <4>2. /\ h.call = k /\ h.part \in 1 .. sent[k] /\ sent[k] \in Nat
                  /\ sent[k] <= CallOf[k].frags /\ CallOf[k].frags \in Nat
                BY <1>0, <2>3, <3>0, <3>2, <4>1, CallFacts DEF FramesKnown, ControlInv, TypeOK
            <4>3. CASE h.part < sent[k]
                <5>1. PICK j \in Positions : j > 1 /\ PartAt(j, k, h.part + 1)
                    BY <2>3, <4>1, <4>2, <4>3 DEF NextFollows
                <5>2. j # 1 /\ inbound[j].call = k
                    BY <5>1 DEF PartAt, Asks, Positions
                <5> QED
                    BY <1>b, <2>3, <5>2
            <4>4. CASE ~(h.part < sent[k])
                <5>1. sent[k] < CallOf[k].frags
                    BY <4>1, <4>2, <4>4
                <5> QED
                    BY <2>1, <5>1
            <4> QED
                BY <4>3, <4>4
        <3> QED
            BY <1>1, <2>3, <3>1, <3>2, LoopAssemblies
    <2>4. CASE 1 \in Positions /\ inbound[1].type = "other"
        BY <2>4 DEF FramesKnown
    <2> QED
        BY <1>1, <2>2, <2>3, <2>4, LoopInbound
<1>2. CASE ~(Module /\ Loop)
    <2>1. k \in Assemblies
        BY <1>2, TablesKept DEF Assemblies
    <2>2. CASE UNCHANGED <<inbound, sent, gaveUp>>
        BY <1>a, <2>1, <2>2 DEF Positions
    <2>3. CASE HostRefuses /\ inbound # <<>> /\ inbound' = Tail(inbound) /\ UNCHANGED sent
        <3>1. Head(inbound) = inbound[1] /\ Head(inbound).call \in Refused
            BY <2>3, RingTail DEF HostRefuses
        <3>2. k \notin Refused
            BY <2>1 DEF AssembliesKnown, KnownHere
        <3>3. \A j \in Positions : inbound[j].call = k => j # 1
            BY <3>1, <3>2
        <3> QED
            BY <1>a, <1>b, <2>1, <2>3, <3>3
    <2>4. CASE SendFragment(current) \/ SendCancel(current)
        <3> DEFINE f == [type |-> CallOf[current].type, call |-> current,
                         part |-> sent[current] + 1]
                   g == [type |-> "cancel", call |-> current, part |-> 0]
        <3>1. /\ f.call = current
              /\ \/ inbound' = Append(inbound, f) /\ sent' = [sent EXCEPT ![current] = @ + 1]
                 \/ inbound' = Append(inbound, g) /\ sent' = sent
            BY <2>4 DEF SendFragment, SendCancel
        <3> HIDE DEF f, g
        <3>2. /\ \A n \in Positions : n \in Positions' /\ inbound'[n] = inbound[n]
              /\ Len(inbound) + 1 \in Positions'
            BY <3>1, RingAppend
        <3>3. CASE inbound' = Append(inbound, f) /\ k = current
            <4>1. inbound'[Len(inbound) + 1] = f
                BY <3>3, RingAppend
            <4> QED
                BY <3>1, <3>2, <3>3, <4>1
        <3>4. CASE sent'[k] = sent[k]
            BY <1>a, <2>1, <3>2, <3>4
        <3>5. sent \in [Calls -> Nat]
            BY DEF TypeOK
        <3> QED
            BY <1>0, <3>1, <3>3, <3>4, <3>5
    <2>5. CASE Module /\ Returned
        BY <1>a, <2>1, <2>5 DEF Returned, vars, env, Positions
    <2> QED
        BY <1>2, <2>2, <2>3, <2>4, <2>5, InboundMoves DEF Module
<1> QED
    BY <1>1, <1>2

-----------------------------------------------------------------------------
(* All of it is one inductive invariant. *)
CallInv == /\ TypeOK /\ InFlightInv /\ CallerTypes /\ ControlInv /\ WhereInv
           /\ CancelFollows /\ CancelComes /\ NextFollows /\ MoreComes

LEMMA CallInvInit == CallInit => CallInv
<1> SUFFICES ASSUME CallInit PROVE CallInv
    OBVIOUS
<1>1. TypeOK /\ InFlightInv
    BY RuntimeInit, InFlightInit DEF CallInit
<1>2. CallerTypes
    <2>1. [status |-> "none", body |-> <<>>] \in Outcomes
        BY DEF Outcomes
    <2> QED
        BY <2>1 DEF CallInit, CallerTypes
<1>3. ControlInv
    BY CallFacts DEF CallInit, Init, ControlInv, Waiting
<1>4. /\ Positions = {} /\ Jobs = {} /\ Assemblies = {} /\ mpc = "drain"
      /\ transit = <<>> /\ inbox = <<>> /\ gaveUp = {}
    BY DEF CallInit, Init, Positions, Jobs, Assemblies, NoWork
<1>5. WhereInv
    BY <1>4 DEF WhereInv, FramesKnown, JobsKnown, AssembliesKnown, ReplyKnown, TransitKnown,
                InboxKnown, AnswersKnown, CallInit, Init
<1>6. CancelFollows /\ CancelComes /\ NextFollows /\ MoreComes
    BY <1>4 DEF CancelFollows, CancelComes, NextFollows, MoreComes
<1> QED
    BY <1>1, <1>2, <1>3, <1>5, <1>6 DEF CallInv

LEMMA CallInvStep == CallInv /\ [CallNext]_callVars => CallInv'
<1> SUFFICES ASSUME CallInv, [CallNext]_callVars PROVE CallInv'
    OBVIOUS
<1>1. /\ TypeOK /\ InFlightInv /\ CallerTypes /\ ControlInv /\ WhereInv
      /\ CancelFollows /\ CancelComes /\ NextFollows /\ MoreComes
    BY DEF CallInv
<1>2. TypeOK' /\ InFlightInv'
    BY <1>1, RuntimeKept
<1>3. CallerTypes' /\ ControlInv' /\ WhereInv'
    BY <1>1, <1>2, CallerTypesStep, ControlStep, WhereStep
<1>4. FramesKnown /\ JobsKnown /\ AssembliesKnown
    BY <1>1 DEF WhereInv
<1>5. CancelFollows' /\ CancelComes'
    BY <1>1, <1>4, CancelFollowsStep, CancelComesStep
<1>6. NextFollows' /\ MoreComes'
    BY <1>1, <1>2, <1>4, NextFollowsStep, MoreComesStep
<1> QED
    BY <1>2, <1>3, <1>5, <1>6 DEF CallInv

LEMMA CallInvHolds == CallSpec => []CallInv
BY CallInvInit, CallInvStep, PTL DEF CallSpec

(* What ModuleRuntime's type invariant says of the rings and tables holds of *)
(* the composition too, where the host answers some calls itself.            *)
THEOREM CallTypeCorrect == CallSpec => []TypeOK
<1>1. CallInv => TypeOK
    BY DEF CallInv
<1> QED
    BY <1>1, CallInvHolds, PTL

(* The cancel that ModuleCaller.Call sends on its way out does not pass the  *)
(* handler by: it is behind the last fragment of the request in the ring, so *)
(* that the job is there when the loop polls it.                             *)
THEOREM CancelReachesHandlerHolds == CallSpec => []CancelReachesHandler
<1>1. ASSUME CallInv
      PROVE  CancelReachesHandler
    <2> SUFFICES ASSUME NEW k \in Jobs \cap gaveUp, jobs[k].phase = "running", ~jobs[k].cancelled
                 PROVE  InFlight(k)
        BY DEF CancelReachesHandler
    <2>1. \E j \in Positions : inbound[j].call = k
        BY <1>1 DEF CallInv, CancelComes, Cancels
    <2> QED
        BY <1>1, <2>1, InFlightIs DEF CallInv
<1> QED
    BY <1>1, CallInvHolds, PTL

(* An assembly that the module keeps has frames on the way, or a caller that *)
(* goes on sending it; only Call's return in the middle of send, because the *)
(* ring was full or the host restarted, leaves one behind.                   *)
THEOREM OnlyUnsentIsOrphanedHolds == CallSpec => []OnlyUnsentIsOrphaned
<1>1. ASSUME CallInv
      PROVE  OnlyUnsentIsOrphaned
    <2> SUFFICES ASSUME NEW k \in Assemblies, ~InFlight(k)
                 PROVE  outcome[k].status = "unsent" \/ (current = k /\ cpc = "send")
        BY DEF OnlyUnsentIsOrphaned
    <2>1. k \in Calls
        BY CallFacts DEF Assemblies
    <2>2. sent[k] > 0 /\ sent[k] < CallOf[k].frags
        BY <1>1 DEF CallInv, MoreComes, WhereInv, AssembliesKnown, KnownHere, Known
    <2> QED
        BY <1>1, <2>1, <2>2 DEF CallInv, ControlInv
<1> QED
    BY <1>1, CallInvHolds, PTL

-----------------------------------------------------------------------------
(* The frames on their way back to the caller, seen as one sequence.  The frames *)
(* of a call are live up to the one that ends its first answer; the caller reads *)
(* no further.                                                                   *)
Own(s, c, i) == i \in 1 .. Len(s) /\ s[i].call = c
Closed(s, c, i) == Own(s, c, i) /\ ~s[i].more
Open(s, c) == \A i \in 1 .. Len(s) : ~Closed(s, c, i)
Live(s, c, i) == Own(s, c, i) /\ \A j \in 1 .. i - 1 : ~Closed(s, c, j)
Carries(s, c, i, part) == Own(s, c, i) /\ s[i].part = part

(* The live frames carry the parts that follow the n parts read, in order. *)
Ordered(s, c, n) ==
    \A i \in 1 .. Len(s) : Live(s, c, i) =>
        /\ s[i].part > n
        /\ \A j \in 1 .. i - 1 : Own(s, c, j) => s[j].part < s[i].part
        /\ \A part \in n + 1 .. s[i].part - 1 : \E j \in 1 .. i - 1 : Carries(s, c, j, part)

(* An answer that has no end yet has been sent up to part m. *)
Reached(s, c, n, m) ==
    Open(s, c) =>
        /\ n <= m
        /\ \A i \in 1 .. Len(s) : Own(s, c, i) => s[i].part <= m
        /\ \A part \in n + 1 .. m : \E i \in 1 .. Len(s) : Carries(s, c, i, part)

(* The end of the first answer is on its way exactly when the call is answered, *)
(* and tells that answer.                                                       *)
Tells(s, c, a) ==
    /\ \A i \in 1 .. Len(s) : Closed(s, c, i) => a # "none"
    /\ \A i \in 1 .. Len(s) : Closed(s, c, i) /\ Live(s, c, i) => a = s[i].status
    /\ Open(s, c) => a = "none"

(* What holds of a sequence holds of any other with the same frames of the call *)
(* in the same order.                                                           *)
LEMMA SameFrames ==
    ASSUME NEW s, NEW t, Len(s) \in Nat, Len(t) \in Nat, NEW c, NEW e, NEW g,
           \A i \in 1 .. Len(t) : Own(t, c, i) =>
                e[i] \in 1 .. Len(s) /\ Own(s, c, e[i]) /\ t[i] = s[e[i]] /\ g[e[i]] = i,
           \A j \in 1 .. Len(s) : Own(s, c, j) =>
                g[j] \in 1 .. Len(t) /\ Own(t, c, g[j]) /\ s[j] = t[g[j]] /\ e[g[j]] = j,
           \A i, j \in 1 .. Len(t) : Own(t, c, i) /\ Own(t, c, j) /\ i < j => e[i] < e[j],
           \A i, j \in 1 .. Len(s) : Own(s, c, i) /\ Own(s, c, j) /\ i < j => g[i] < g[j]
    PROVE  /\ \A n : Ordered(s, c, n) => Ordered(t, c, n)
           /\ \A n, m : Reached(s, c, n, m) => Reached(t, c, n, m)
           /\ \A a : Tells(s, c, a) => Tells(t, c, a)
<1>1. ASSUME NEW i \in 1 .. Len(t), Closed(t, c, i)
      PROVE  Closed(s, c, e[i])
    BY <1>1 DEF Closed
<1>2. ASSUME NEW j \in 1 .. Len(s), Closed(s, c, j)
      PROVE  Closed(t, c, g[j])
    BY <1>2 DEF Closed
<1>3. Open(s, c) <=> Open(t, c)
    <2>1. ASSUME Open(s, c), NEW i \in 1 .. Len(t), Closed(t, c, i)
          PROVE  FALSE
        <3>1. e[i] \in 1 .. Len(s)
            BY <2>1 DEF Closed
        <3> QED
            BY <1>1, <2>1, <3>1 DEF Open
    <2>2. ASSUME Open(t, c), NEW i \in 1 .. Len(s), Closed(s, c, i)
          PROVE  FALSE
        <3>1. g[i] \in 1 .. Len(t)
            BY <2>2 DEF Closed
        <3> QED
            BY <1>2, <2>2, <3>1 DEF Open
    <2> QED
        BY <2>1, <2>2 DEF Open
<1>4. ASSUME NEW i \in 1 .. Len(t), Live(t, c, i)
      PROVE  e[i] \in 1 .. Len(s) /\ Live(s, c, e[i]) /\ t[i] = s[e[i]]
    <2>1. Own(t, c, i) /\ e[i] \in 1 .. Len(s) /\ Own(s, c, e[i]) /\ t[i] = s[e[i]] /\ g[e[i]] = i
        BY <1>4 DEF Live
    <2>2. ASSUME NEW j \in 1 .. e[i] - 1, Closed(s, c, j)
          PROVE  FALSE
        <3>1. j \in 1 .. Len(s) /\ j < e[i] /\ Own(s, c, j)
            BY <2>1, <2>2 DEF Closed
        <3>2. g[j] < i /\ g[j] \in 1 .. Len(t)
            BY <2>1, <3>1
        <3>3. g[j] \in 1 .. i - 1
            BY <3>2
        <3> QED
            BY <1>2, <1>4, <2>2, <3>1, <3>3 DEF Live
    <2> QED
        BY <2>1, <2>2 DEF Live
<1>5. ASSUME NEW n, Ordered(s, c, n)
      PROVE  Ordered(t, c, n)
    <2> SUFFICES ASSUME NEW i \in 1 .. Len(t), Live(t, c, i)
                 PROVE  /\ t[i].part > n
                        /\ \A j \in 1 .. i - 1 : Own(t, c, j) => t[j].part < t[i].part
                        /\ \A part \in n + 1 .. t[i].part - 1 :
                                \E j \in 1 .. i - 1 : Carries(t, c, j, part)
        BY DEF Ordered
    <2>1. /\ e[i] \in 1 .. Len(s) /\ Live(s, c, e[i]) /\ t[i] = s[e[i]]
          /\ Own(t, c, i) /\ Own(s, c, e[i]) /\ g[e[i]] = i
        BY <1>4 DEF Live
    <2>2. /\ s[e[i]].part > n
          /\ \A j \in 1 .. e[i] - 1 : Own(s, c, j) => s[j].part < s[e[i]].part
          /\ \A part \in n + 1 .. s[e[i]].part - 1 :
                  \E j \in 1 .. e[i] - 1 : Carries(s, c, j, part)
        BY <1>5, <2>1 DEF Ordered
    <2>3. ASSUME NEW j \in 1 .. i - 1, Own(t, c, j)
          PROVE  t[j].part < t[i].part
        <3>1. j \in 1 .. Len(t) /\ j < i
            BY <2>3
        <3>2. e[j] < e[i] /\ e[j] \in 1 .. Len(s) /\ Own(s, c, e[j]) /\ t[j] = s[e[j]]
            BY <2>1, <2>3, <3>1
        <3>3. e[j] \in 1 .. e[i] - 1
            BY <2>1, <3>2
        <3> QED
            BY <2>1, <2>2, <3>2, <3>3
    <2>4. ASSUME NEW part \in n + 1 .. t[i].part - 1
          PROVE  \E j \in 1 .. i - 1 : Carries(t, c, j, part)
        <3>1. PICK j \in 1 .. e[i] - 1 : Carries(s, c, j, part)
            BY <2>1, <2>2
        <3>2. j \in 1 .. Len(s) /\ j < e[i] /\ Own(s, c, j) /\ s[j].part = part
            BY <2>1, <3>1 DEF Carries
        <3>3. g[j] \in 1 .. Len(t) /\ g[j] < i /\ Own(t, c, g[j]) /\ s[j] = t[g[j]]
            BY <2>1, <3>2
        <3>4. g[j] \in 1 .. i - 1
            BY <3>3
        <3> QED
            BY <3>2, <3>3, <3>4 DEF Carries
    <2> QED
        BY <2>1, <2>2, <2>3, <2>4
<1>6. ASSUME NEW n, NEW m, Reached(s, c, n, m)
      PROVE  Reached(t, c, n, m)
    <2> SUFFICES ASSUME Open(t, c)
                 PROVE  /\ n <= m
                        /\ \A i \in 1 .. Len(t) : Own(t, c, i) => t[i].part <= m
                        /\ \A part \in n + 1 .. m :
                                \E i \in 1 .. Len(t) : Carries(t, c, i, part)
        BY DEF Reached
    <2>1. /\ n <= m
          /\ \A i \in 1 .. Len(s) : Own(s, c, i) => s[i].part <= m
          /\ \A part \in n + 1 .. m : \E i \in 1 .. Len(s) : Carries(s, c, i, part)
        BY <1>3, <1>6 DEF Reached
    <2>2. ASSUME NEW part \in n + 1 .. m
          PROVE  \E i \in 1 .. Len(t) : Carries(t, c, i, part)
        <3>1. PICK i \in 1 .. Len(s) : Carries(s, c, i, part)
            BY <2>1
        <3>2. g[i] \in 1 .. Len(t) /\ Carries(t, c, g[i], part)
            BY <3>1 DEF Carries
        <3> QED
            BY <3>2
    <2> QED
        BY <2>1, <2>2
<1>7. ASSUME NEW a, Tells(s, c, a)
      PROVE  Tells(t, c, a)
    <2>1. ASSUME NEW i \in 1 .. Len(t), Closed(t, c, i)
          PROVE  a # "none" /\ (Live(t, c, i) => a = t[i].status)
        <3>1. e[i] \in 1 .. Len(s) /\ Closed(s, c, e[i])
            BY <1>1, <2>1 DEF Closed
        <3> QED
            BY <1>4, <1>7, <3>1 DEF Tells
    <2>2. Open(t, c) => a = "none"
        BY <1>3, <1>7 DEF Tells
    <2> QED
        BY <2>1, <2>2 DEF Tells
<1> QED
    BY <1>5, <1>6, <1>7

(* t is s with one more frame, f, at place k. *)
Inserted(s, t, k, f) ==
    /\ Len(s) \in Nat /\ k \in 1 .. Len(s) + 1 /\ Len(t) = Len(s) + 1
    /\ \A i \in 1 .. k - 1 : t[i] = s[i]
    /\ t[k] = f
    /\ \A i \in k .. Len(s) : t[i + 1] = s[i]

(* The frame of another call changes nothing for this one. *)
LEMMA ForeignFrame ==
    ASSUME NEW s, NEW t, NEW k, NEW f, Inserted(s, t, k, f), NEW c, f.call # c
    PROVE  /\ \A n : Ordered(s, c, n) <=> Ordered(t, c, n)
           /\ \A n, m : Reached(s, c, n, m) <=> Reached(t, c, n, m)
           /\ \A a : Tells(s, c, a) <=> Tells(t, c, a)
<1> DEFINE e == [i \in 1 .. Len(t) |-> IF i < k THEN i ELSE i - 1]
           g == [j \in 1 .. Len(s) |-> IF j < k THEN j ELSE j + 1]
<1>0. /\ Len(s) \in Nat /\ k \in 1 .. Len(s) + 1 /\ Len(t) = Len(s) + 1 /\ Len(t) \in Nat
      /\ \A i \in 1 .. k - 1 : t[i] = s[i]
      /\ t[k] = f
      /\ \A i \in k .. Len(s) : t[i + 1] = s[i]
    BY DEF Inserted
<1>1. ASSUME NEW i \in 1 .. Len(t), Own(t, c, i)
      PROVE  e[i] \in 1 .. Len(s) /\ Own(s, c, e[i]) /\ t[i] = s[e[i]] /\ g[e[i]] = i
    <2>1. i # k
        BY <1>0, <1>1 DEF Own
    <2>2. CASE i < k
        <3>1. e[i] = i /\ i \in 1 .. k - 1 /\ i \in 1 .. Len(s)
            BY <1>0, <2>2
        <3> QED
            BY <1>0, <1>1, <2>2, <3>1 DEF Own
    <2>3. CASE i > k
        <3>1. e[i] = i - 1 /\ i - 1 \in k .. Len(s) /\ i - 1 \in 1 .. Len(s) /\ (i - 1) + 1 = i
            BY <1>0, <2>3
        <3>2. t[i] = s[i - 1] /\ g[i - 1] = i
            BY <1>0, <3>1
        <3> QED
            BY <1>1, <3>1, <3>2 DEF Own
    <2> QED
        BY <1>0, <2>1, <2>2, <2>3
<1>2. ASSUME NEW j \in 1 .. Len(s), Own(s, c, j)
      PROVE  g[j] \in 1 .. Len(t) /\ Own(t, c, g[j]) /\ s[j] = t[g[j]] /\ e[g[j]] = j
    <2>1. CASE j < k
        <3>1. g[j] = j /\ j \in 1 .. k - 1 /\ j \in 1 .. Len(t)
            BY <1>0, <2>1
        <3> QED
            BY <1>0, <1>2, <2>1, <3>1 DEF Own
    <2>2. CASE ~(j < k)
        <3>1. g[j] = j + 1 /\ j \in k .. Len(s) /\ j + 1 \in 1 .. Len(t) /\ (j + 1) - 1 = j
              /\ ~(j + 1 < k)
            BY <1>0, <2>2
        <3>2. t[j + 1] = s[j] /\ e[j + 1] = j
            BY <1>0, <3>1
        <3> QED
            BY <1>2, <3>1, <3>2 DEF Own
    <2> QED
        BY <2>1, <2>2
<1>3. \A i, j \in 1 .. Len(t) : Own(t, c, i) /\ Own(t, c, j) /\ i < j => e[i] < e[j]
    <2> SUFFICES ASSUME NEW i \in 1 .. Len(t), NEW j \in 1 .. Len(t),
                        Own(t, c, i), Own(t, c, j), i < j
                 PROVE  e[i] < e[j]
        OBVIOUS
    <2>1. i # k /\ j # k
        BY <1>0 DEF Own
    <2>2. /\ e[i] = IF i < k THEN i ELSE i - 1
          /\ e[j] = IF j < k THEN j ELSE j - 1
        OBVIOUS
    <2>3. i \in Nat /\ j \in Nat /\ k \in Nat
        BY <1>0
    <2> HIDE DEF e
    <2> QED
        BY <2>1, <2>2, <2>3
<1>4. \A i, j \in 1 .. Len(s) : Own(s, c, i) /\ Own(s, c, j) /\ i < j => g[i] < g[j]
    BY <1>0
<1> HIDE DEF e, g
<1>5. /\ \A n : Ordered(s, c, n) => Ordered(t, c, n)
      /\ \A n, m : Reached(s, c, n, m) => Reached(t, c, n, m)
      /\ \A a : Tells(s, c, a) => Tells(t, c, a)
    BY <1>0, <1>1, <1>2, <1>3, <1>4, SameFrames
<1>6. /\ \A n : Ordered(t, c, n) => Ordered(s, c, n)
      /\ \A n, m : Reached(t, c, n, m) => Reached(s, c, n, m)
      /\ \A a : Tells(t, c, a) => Tells(s, c, a)
    BY <1>0, <1>1, <1>2, <1>3, <1>4, SameFrames
<1> QED
    BY <1>5, <1>6

(* A further frame of the call, behind all the others of it: the next part of *)
(* an answer that has reached part m, or whatever follows the first answer.   *)
Sends(s, t, k, f, c, n, m, a) ==
    /\ Inserted(s, t, k, f) /\ f.call = c /\ n \in Nat /\ m \in Int
    /\ \A i \in k .. Len(s) : ~Own(s, c, i)
    /\ \A i \in 1 .. Len(s) : s[i].part \in Int
    /\ Ordered(s, c, n) /\ Reached(s, c, n, m) /\ Tells(s, c, a)
    /\ Open(s, c) => f.part = m + 1

LEMMA OwnFrameSent ==
    ASSUME NEW s, NEW t, NEW k, NEW f, NEW c, NEW n, NEW m, NEW a,
           Sends(s, t, k, f, c, n, m, a)
    PROVE  /\ Ordered(t, c, n)
           /\ Reached(t, c, n, m + 1)
           /\ f.more => Tells(t, c, a)
           /\ ~f.more /\ f.status # "none" =>
                Tells(t, c, IF a = "none" THEN f.status ELSE a)
<1> USE DEF Sends
<1>0. /\ Len(s) \in Nat /\ k \in 1 .. Len(s) + 1 /\ Len(t) = Len(s) + 1 /\ Len(t) \in Nat
      /\ \A i \in 1 .. k - 1 : t[i] = s[i]
      /\ t[k] = f
    BY DEF Inserted
<1>1. ASSUME NEW i \in 1 .. Len(s), Own(s, c, i)
      PROVE  i \in 1 .. k - 1 /\ i \in 1 .. Len(t) /\ t[i] = s[i] /\ Own(t, c, i)
    <2>1. i \in 1 .. k - 1
        BY <1>0, <1>1
    <2> QED
        BY <1>0, <1>1, <2>1 DEF Own
<1>2. ASSUME NEW i \in 1 .. Len(t), Own(t, c, i), i # k
      PROVE  i \in 1 .. k - 1 /\ i \in 1 .. Len(s) /\ t[i] = s[i] /\ Own(s, c, i)
    <2>1. CASE i > k
        <3>1. i - 1 \in k .. Len(s) /\ (i - 1) + 1 = i /\ i - 1 \in 1 .. Len(s)
            BY <1>0, <2>1
        <3>2. t[i] = s[i - 1]
            BY <3>1 DEF Inserted
        <3>3. Own(s, c, i - 1)
            BY <1>2, <3>1, <3>2 DEF Own
        <3> QED
            BY <3>1, <3>3
    <2>2. CASE i < k
        <3>1. i \in 1 .. k - 1 /\ i \in 1 .. Len(s)
            BY <1>0, <2>2
        <3> QED
            BY <1>0, <1>2, <3>1 DEF Own
    <2> QED
        BY <1>0, <1>2, <2>1, <2>2
<1>3. Own(t, c, k) /\ k \in 1 .. Len(t)
    BY <1>0 DEF Own
<1>4. ASSUME NEW i \in 1 .. Len(t), Live(t, c, i), i # k
      PROVE  Live(s, c, i)
    <2>1. i \in 1 .. k - 1 /\ Own(s, c, i)
        BY <1>2, <1>4 DEF Live
    <2>2. ASSUME NEW j \in 1 .. i - 1, Closed(s, c, j)
          PROVE  FALSE
        <3>1. j \in 1 .. Len(s)
            BY <2>2 DEF Closed, Own
        <3> QED
            BY <1>1, <1>4, <2>2, <3>1 DEF Closed, Live
    <2> QED
        BY <2>1, <2>2 DEF Live
<1>5. ASSUME Live(t, c, k)
      PROVE  Open(s, c)
    <2> SUFFICES ASSUME NEW j \in 1 .. Len(s), Closed(s, c, j)
                 PROVE  FALSE
        BY DEF Open
    <2>1. j \in 1 .. k - 1 /\ Closed(t, c, j)
        BY <1>1 DEF Closed
    <2> QED
        BY <1>5, <2>1 DEF Live
<1>6. ASSUME NEW i \in 1 .. Len(t), Closed(t, c, i), i # k
      PROVE  i \in 1 .. Len(s) /\ Closed(s, c, i) /\ t[i] = s[i]
    BY <1>2, <1>6 DEF Closed
<1>7. Open(t, c) => Open(s, c) /\ f.more
    <2>1. ASSUME Open(t, c), NEW i \in 1 .. Len(s), Closed(s, c, i)
          PROVE  FALSE
        BY <1>1, <2>1 DEF Open, Closed
    <2>2. ASSUME Open(t, c), ~f.more
          PROVE  FALSE
        BY <1>0, <1>3, <2>2 DEF Open, Closed
    <2> QED
        BY <2>1, <2>2 DEF Open
<1>8. Open(s, c) /\ f.more => Open(t, c)
    <2> SUFFICES ASSUME Open(s, c), f.more, NEW i \in 1 .. Len(t), Closed(t, c, i)
                 PROVE  FALSE
        BY DEF Open
    <2>1. i # k
        BY <1>0 DEF Closed
    <2> QED
        BY <1>6, <2>1 DEF Open
<1>9. ASSUME Open(s, c)
      PROVE  /\ n <= m /\ f.part = m + 1
             /\ \A i \in 1 .. Len(s) : Own(s, c, i) => s[i].part <= m
             /\ \A part \in n + 1 .. m : \E i \in 1 .. Len(s) : Carries(s, c, i, part)
    BY <1>9 DEF Reached
<1>10. Ordered(t, c, n)
    <2> SUFFICES ASSUME NEW i \in 1 .. Len(t), Live(t, c, i)
                 PROVE  /\ t[i].part > n
                        /\ \A j \in 1 .. i - 1 : Own(t, c, j) => t[j].part < t[i].part
                        /\ \A part \in n + 1 .. t[i].part - 1 :
                                \E j \in 1 .. i - 1 : Carries(t, c, j, part)
        BY DEF Ordered
    <2>1. CASE i # k
        <3>1. i \in 1 .. k - 1 /\ i \in 1 .. Len(s) /\ Live(s, c, i) /\ t[i] = s[i]
            BY <1>2, <1>4, <2>1 DEF Live
        <3>2. /\ s[i].part > n
              /\ \A j \in 1 .. i - 1 : Own(s, c, j) => s[j].part < s[i].part
              /\ \A part \in n + 1 .. s[i].part - 1 : \E j \in 1 .. i - 1 : Carries(s, c, j, part)
            BY <3>1 DEF Ordered
        <3>3. \A j \in 1 .. i - 1 : /\ t[j] = s[j] /\ (Own(t, c, j) <=> Own(s, c, j))
                                    /\ \A part : Carries(t, c, j, part) <=> Carries(s, c, j, part)
            BY <1>0, <3>1 DEF Own, Carries
        <3> QED
            BY <3>1, <3>2, <3>3
    <2>2. CASE i = k
        <3>1. Open(s, c)
            BY <1>5, <2>2
        <3>2. t[i].part = m + 1
            BY <1>0, <1>9, <2>2, <3>1
        <3>3. ASSUME NEW j \in 1 .. i - 1, Own(t, c, j)
              PROVE  t[j].part < m + 1
            <4>1. j \in 1 .. Len(t) /\ j # k
                BY <1>0, <2>2, <3>3
            <4>2. j \in 1 .. Len(s) /\ Own(s, c, j) /\ t[j] = s[j]
                BY <1>2, <3>3, <4>1
            <4>3. s[j].part <= m
                BY <1>9, <3>1, <4>2
            <4> QED
                BY <4>2, <4>3
        <3>4. ASSUME NEW part \in n + 1 .. m
              PROVE  \E j \in 1 .. i - 1 : Carries(t, c, j, part)
            <4>1. PICK j \in 1 .. Len(s) : Carries(s, c, j, part)
                BY <1>9, <3>1
            <4>2. j \in 1 .. i - 1 /\ Carries(t, c, j, part)
                BY <1>1, <2>2, <4>1 DEF Carries
            <4> QED
                BY <4>2
        <3> QED
            BY <1>9, <3>1, <3>2, <3>3, <3>4
    <2> QED
        BY <2>1, <2>2
<1>11. Reached(t, c, n, m + 1)
    <2> SUFFICES ASSUME Open(t, c)
                 PROVE  /\ n <= m + 1
                        /\ \A i \in 1 .. Len(t) : Own(t, c, i) => t[i].part <= m + 1
                        /\ \A part \in n + 1 .. m + 1 : \E i \in 1 .. Len(t) : Carries(t, c, i, part)
        BY DEF Reached
    <2>1. Open(s, c)
        BY <1>7
    <2>2. ASSUME NEW i \in 1 .. Len(t), Own(t, c, i)
          PROVE  t[i].part <= m + 1
        <3>1. CASE i = k
            BY <1>0, <1>9, <2>1, <3>1
        <3>2. CASE i # k
            <4>1. i \in 1 .. Len(s) /\ t[i] = s[i] /\ Own(s, c, i)
                BY <1>2, <2>2, <3>2
            <4>2. s[i].part <= m
                BY <1>9, <2>1, <4>1
            <4> QED
                BY <4>1, <4>2
        <3> QED
            BY <3>1, <3>2
    <2>3. ASSUME NEW part \in n + 1 .. m + 1
          PROVE  \E i \in 1 .. Len(t) : Carries(t, c, i, part)
        <3>1. CASE part = m + 1
            <4>1. Carries(t, c, k, part)
                BY <1>0, <1>3, <1>9, <2>1, <3>1 DEF Carries
            <4> QED
                BY <1>3, <4>1
        <3>2. CASE part # m + 1
            <4>1. part \in n + 1 .. m
                BY <3>2
            <4>2. PICK j \in 1 .. Len(s) : Carries(s, c, j, part)
                BY <1>9, <2>1, <4>1
            <4>3. j \in 1 .. Len(t) /\ Carries(t, c, j, part)
                BY <1>1, <4>2 DEF Carries
            <4> QED
                BY <4>3
        <3> QED
            BY <3>1, <3>2
    <2> QED
        BY <1>9, <2>1, <2>2, <2>3
<1>12. ASSUME f.more
       PROVE  Tells(t, c, a)
    <2>1. \A i \in 1 .. Len(t) : Closed(t, c, i) => i # k
        BY <1>0, <1>12 DEF Closed
    <2> QED
        BY <1>4, <1>6, <1>7, <2>1 DEF Tells
<1>13. ASSUME ~f.more, f.status # "none"
       PROVE  Tells(t, c, IF a = "none" THEN f.status ELSE a)
    <2> DEFINE b == IF a = "none" THEN f.status ELSE a
    <2>1. b # "none" /\ ~Open(t, c)
        BY <1>7, <1>13
    <2>2. ASSUME NEW i \in 1 .. Len(t), Closed(t, c, i), Live(t, c, i)
          PROVE  b = t[i].status
        <3>1. CASE i = k
            BY <1>0, <1>5, <2>2, <3>1 DEF Tells
        <3>2. CASE i # k
            BY <1>4, <1>6, <2>2, <3>2 DEF Tells
        <3> QED
            BY <3>1, <3>2
    <2> HIDE DEF b
    <2>3. Tells(t, c, b)
        BY <2>1, <2>2 DEF Tells
    <2> QED
        BY <2>3 DEF b
<1> QED
    BY <1>10, <1>11, <1>12, <1>13

(* The caller takes the first of the frames, and it is the call's own: the next *)
(* part of the answer, or its end.                                              *)
Reads(s, t, f, c, n, m, a) ==
    /\ Inserted(t, s, 1, f) /\ f.call = c /\ n \in Nat /\ m \in Int
    /\ \A i \in 1 .. Len(s) : s[i].part \in Int
    /\ Ordered(s, c, n) /\ Tells(s, c, a)

LEMMA OwnFrameRead ==
    ASSUME NEW s, NEW t, NEW f, NEW c, NEW n, NEW m, NEW a, Reads(s, t, f, c, n, m, a)
    PROVE  /\ f.part = n + 1
           /\ ~f.more => a = f.status /\ a # "none"
           /\ f.more => /\ Ordered(t, c, n + 1) /\ Tells(t, c, a)
                        /\ Reached(s, c, n, m) => Reached(t, c, n + 1, m)
<1> USE DEF Reads
<1>0. /\ Len(t) \in Nat /\ Len(s) = Len(t) + 1 /\ Len(s) \in Nat /\ 1 \in 1 .. Len(s)
      /\ s[1] = f /\ \A i \in 1 .. Len(t) : s[i + 1] = t[i]
    BY DEF Inserted
<1>1. Own(s, c, 1) /\ Live(s, c, 1)
    <2>1. 1 .. 1 - 1 = {}
        OBVIOUS
    <2> QED
        BY <1>0, <2>1 DEF Own, Live
<1>2. f.part = n + 1
    <2>1. f.part > n /\ \A part \in n + 1 .. f.part - 1 : FALSE
        BY <1>0, <1>1 DEF Ordered
    <2>2. f.part \in Int
        BY <1>0
    <2>3. ~(f.part > n + 1)
        <3>1. f.part > n + 1 => n + 1 \in n + 1 .. f.part - 1
            BY <2>2
        <3> QED
            BY <2>1, <3>1
    <2> QED
        BY <2>1, <2>2, <2>3
<1>3. ~f.more => a = f.status /\ a # "none"
    BY <1>0, <1>1 DEF Closed, Tells
<1> SUFFICES ASSUME f.more
             PROVE  /\ Ordered(t, c, n + 1) /\ Tells(t, c, a)
                    /\ Reached(s, c, n, m) => Reached(t, c, n + 1, m)
    BY <1>2, <1>3
<1>4. ASSUME NEW i \in 1 .. Len(t)
      PROVE  /\ i + 1 \in 1 .. Len(s) /\ s[i + 1] = t[i]
             /\ Own(t, c, i) <=> Own(s, c, i + 1)
             /\ Closed(t, c, i) <=> Closed(s, c, i + 1)
             /\ \A part : Carries(t, c, i, part) <=> Carries(s, c, i + 1, part)
    <2>1. i + 1 \in 1 .. Len(s) /\ s[i + 1] = t[i]
        BY <1>0, <1>4
    <2> QED
        BY <2>1 DEF Own, Closed, Carries
<1>5. ASSUME NEW j \in 1 .. Len(s), j # 1
      PROVE  j - 1 \in 1 .. Len(t) /\ (j - 1) + 1 = j
    BY <1>0, <1>5
<1>6. ASSUME NEW j \in 1 .. Len(s), Closed(s, c, j)
      PROVE  j # 1 /\ Closed(t, c, j - 1)
    <2>1. j # 1
        BY <1>0, <1>6 DEF Closed
    <2> QED
        BY <1>4, <1>5, <1>6, <2>1
<1>7. Open(s, c) <=> Open(t, c)
    <2>1. ASSUME Open(t, c), NEW j \in 1 .. Len(s), Closed(s, c, j)
          PROVE  FALSE
        BY <1>5, <1>6, <2>1 DEF Open
    <2>2. ASSUME Open(s, c), NEW i \in 1 .. Len(t), Closed(t, c, i)
          PROVE  FALSE
        BY <1>4, <2>2 DEF Open
    <2> QED
        BY <2>1, <2>2 DEF Open
<1>8. ASSUME NEW i \in 1 .. Len(t), Live(t, c, i)
      PROVE  Live(s, c, i + 1)
    <2>1. Own(s, c, i + 1)
        BY <1>4, <1>8 DEF Live
    <2>2. ASSUME NEW j \in 1 .. (i + 1) - 1, Closed(s, c, j)
          PROVE  FALSE
        <3>1. j # 1 /\ Closed(t, c, j - 1)
            BY <1>6, <2>2 DEF Closed, Own
        <3>2. j - 1 \in 1 .. i - 1
            BY <2>2, <3>1
        <3> QED
            BY <1>8, <3>1, <3>2 DEF Live
    <2> QED
        BY <2>1, <2>2 DEF Live
<1>9. Ordered(t, c, n + 1)
    <2> SUFFICES ASSUME NEW i \in 1 .. Len(t), Live(t, c, i)
                 PROVE  /\ t[i].part > n + 1
                        /\ \A j \in 1 .. i - 1 : Own(t, c, j) => t[j].part < t[i].part
                        /\ \A part \in (n + 1) + 1 .. t[i].part - 1 :
                                \E j \in 1 .. i - 1 : Carries(t, c, j, part)
        BY DEF Ordered
    <2>1. i + 1 \in 1 .. Len(s) /\ Live(s, c, i + 1) /\ s[i + 1] = t[i] /\ i \in Nat /\ i > 0
        BY <1>0, <1>4, <1>8
    <2>2. /\ \A j \in 1 .. (i + 1) - 1 : Own(s, c, j) => s[j].part < t[i].part
          /\ \A part \in n + 1 .. t[i].part - 1 : \E j \in 1 .. (i + 1) - 1 : Carries(s, c, j, part)
        BY <2>1 DEF Ordered
    <2>3. t[i].part > n + 1
        <3>1. 1 \in 1 .. (i + 1) - 1
            BY <2>1
        <3> QED
            BY <1>0, <1>1, <1>2, <2>2, <3>1
    <2>4. ASSUME NEW j \in 1 .. i - 1, Own(t, c, j)
          PROVE  t[j].part < t[i].part
        <3>1. j \in 1 .. Len(t) /\ j + 1 \in 1 .. (i + 1) - 1
            BY <1>0, <2>1, <2>4
        <3> QED
            BY <1>4, <2>2, <2>4, <3>1
    <2>5. ASSUME NEW part \in (n + 1) + 1 .. t[i].part - 1
          PROVE  \E j \in 1 .. i - 1 : Carries(t, c, j, part)
        <3>1. t[i].part \in Int
            BY <2>1
        <3>2. part \in n + 1 .. t[i].part - 1 /\ part # n + 1
            BY <3>1
        <3>3. PICK j \in 1 .. (i + 1) - 1 : Carries(s, c, j, part)
            BY <2>2, <3>2
        <3>4. j # 1
            BY <1>0, <1>2, <3>2, <3>3 DEF Carries
        <3>5. j \in 1 .. Len(s)
            BY <3>3 DEF Carries, Own
        <3>6. j - 1 \in 1 .. Len(t) /\ (j - 1) + 1 = j
            BY <1>5, <3>4, <3>5
        <3>7. Carries(t, c, j - 1, part)
            BY <1>4, <3>3, <3>6
        <3>8. j - 1 \in 1 .. i - 1
            BY <2>1, <3>3, <3>6
        <3> QED
            BY <3>7, <3>8
    <2> QED
        BY <2>3, <2>4, <2>5
<1>10. Tells(t, c, a)
    <2>1. ASSUME NEW i \in 1 .. Len(t), Closed(t, c, i)
          PROVE  a # "none" /\ (Live(t, c, i) => a = t[i].status)
        <3>1. i + 1 \in 1 .. Len(s) /\ Closed(s, c, i + 1) /\ s[i + 1] = t[i]
            BY <1>4, <2>1
        <3> QED
            BY <1>8, <3>1 DEF Tells
    <2>2. Open(t, c) => a = "none"
        BY <1>7 DEF Tells
    <2> QED
        BY <2>1, <2>2 DEF Tells
<1>11. ASSUME Reached(s, c, n, m)
       PROVE  Reached(t, c, n + 1, m)
    <2> SUFFICES ASSUME Open(t, c)
                 PROVE  /\ n + 1 <= m
                        /\ \A i \in 1 .. Len(t) : Own(t, c, i) => t[i].part <= m
                        /\ \A part \in (n + 1) + 1 .. m : \E i \in 1 .. Len(t) : Carries(t, c, i, part)
        BY DEF Reached
    <2>1. /\ \A i \in 1 .. Len(s) : Own(s, c, i) => s[i].part <= m
          /\ \A part \in n + 1 .. m : \E i \in 1 .. Len(s) : Carries(s, c, i, part)
        BY <1>7, <1>11 DEF Reached
    <2>2. n + 1 <= m
        BY <1>0, <1>1, <1>2, <2>1
    <2>3. \A i \in 1 .. Len(t) : Own(t, c, i) => t[i].part <= m
        BY <1>4, <2>1
    <2>4. ASSUME NEW part \in (n + 1) + 1 .. m
          PROVE  \E i \in 1 .. Len(t) : Carries(t, c, i, part)
        <3>1. part \in n + 1 .. m /\ part # n + 1
            OBVIOUS
        <3>2. PICK j \in 1 .. Len(s) : Carries(s, c, j, part)
            BY <2>1, <3>1
        <3>3. j # 1
            BY <1>0, <1>2, <3>1, <3>2 DEF Carries
        <3>4. j - 1 \in 1 .. Len(t) /\ Carries(t, c, j - 1, part)
            BY <1>4, <1>5, <3>2, <3>3
        <3> QED
            BY <3>4
    <2> QED
        BY <2>2, <2>3, <2>4
<1> QED
    BY <1>9, <1>10, <1>11

stream == inbox \o transit

(* How far the module has come with the answer to the current call. *)
Progress == IF mpc = "reply" /\ reply.call = current /\ reply.status = "ok"
            THEN CallOf[current].resp - reply.left ELSE 0

Shaped(f) ==
    /\ f.status = "ok" => /\ f.call \notin Refused /\ f.part \in 1 .. CallOf[f.call].resp
                          /\ f.more <=> f.part < CallOf[f.call].resp
    /\ f.status # "ok" => f.part = 1 /\ ~f.more
FramesShaped == \A i \in 1 .. Len(stream) : Shaped(stream[i])

(* What the caller has read, what is on its way and what the module has sent are *)
(* one answer.  A module that has returned sends nothing more.                   *)
StreamInv ==
    Waiting =>
        /\ \A n \in 1 .. Len(got) : got[n] = [call |-> current, part |-> n]
        /\ current \in Refused => got = <<>>
        /\ Ordered(stream, current, Len(got))
        /\ mpc # "returned" => Reached(stream, current, Len(got), Progress)
        /\ Tells(stream, current, answerOf[current])

LEMMA Joined ==
    ASSUME NEW a \in Seq(ReplyFrame), NEW b \in Seq(ReplyFrame)
    PROVE  /\ a \o b \in Seq(ReplyFrame)
           /\ Len(a) \in Nat /\ Len(b) \in Nat /\ Len(a \o b) = Len(a) + Len(b)
           /\ \A i \in 1 .. Len(a) : (a \o b)[i] = a[i]
           /\ \A i \in 1 .. Len(b) : (a \o b)[Len(a) + i] = b[i]
           /\ \A i \in 1 .. Len(a \o b) :
                \/ i \in 1 .. Len(a)
                \/ i - Len(a) \in 1 .. Len(b) /\ (a \o b)[i] = b[i - Len(a)]
OBVIOUS

LEMMA FrameParts ==
    ASSUME NEW s \in Seq(ReplyFrame), NEW i \in 1 .. Len(s)
    PROVE  /\ s[i] \in ReplyFrame /\ s[i].part \in Int /\ s[i].call \in Calls
           /\ s[i].status \in Status \cup Refusals /\ s[i].more \in BOOLEAN
<1>1. s[i] \in ReplyFrame
    OBVIOUS
<1> QED
    BY <1>1 DEF ReplyFrame

LEMMA JoinedRead ==
    ASSUME NEW a \in Seq(ReplyFrame), NEW b \in Seq(ReplyFrame), a # <<>>
    PROVE  Inserted(Tail(a) \o b, a \o b, 1, Head(a))
<1> DEFINE s == Tail(a) \o b
           t == a \o b
<1>1. /\ Tail(a) \in Seq(ReplyFrame) /\ Len(a) \in Nat /\ Len(a) > 0 /\ Head(a) = a[1]
      /\ Len(Tail(a)) = Len(a) - 1 /\ Len(b) \in Nat
      /\ \A i \in 1 .. Len(a) - 1 : Tail(a)[i] = a[i + 1]
    OBVIOUS
<1>2. /\ Len(s) = (Len(a) - 1) + Len(b)
      /\ \A i \in 1 .. Len(a) - 1 : s[i] = Tail(a)[i]
      /\ \A i \in 1 .. Len(b) : s[(Len(a) - 1) + i] = b[i]
    BY <1>1, Joined
<1>3. /\ Len(t) = Len(a) + Len(b)
      /\ \A i \in 1 .. Len(a) : t[i] = a[i]
      /\ \A i \in 1 .. Len(b) : t[Len(a) + i] = b[i]
    BY Joined
<1> HIDE DEF s, t
<1>4. ASSUME NEW i \in 1 .. Len(s)
      PROVE  t[i + 1] = s[i]
    <2>1. CASE i <= Len(a) - 1
        <3>1. i \in 1 .. Len(a) - 1 /\ i + 1 \in 1 .. Len(a)
            BY <1>1, <1>2, <2>1
        <3> QED
            BY <1>1, <1>2, <1>3, <3>1
    <2>2. CASE ~(i <= Len(a) - 1)
        <3> DEFINE j == i - (Len(a) - 1)
        <3>1. j \in 1 .. Len(b) /\ (Len(a) - 1) + j = i /\ Len(a) + j = i + 1
            BY <1>1, <1>2, <2>2
        <3> HIDE DEF j
        <3> QED
            BY <1>2, <1>3, <3>1
    <2> QED
        BY <2>1, <2>2
<1>5. /\ Len(s) \in Nat /\ 1 \in 1 .. Len(s) + 1 /\ Len(t) = Len(s) + 1 /\ 1 .. 1 - 1 = {}
      /\ t[1] = Head(a)
    BY <1>1, <1>2, <1>3
<1>6. Inserted(s, t, 1, Head(a))
    BY <1>4, <1>5 DEF Inserted
<1> QED
    BY <1>6 DEF s, t

LEMMA JoinedEmit ==
    ASSUME NEW a \in Seq(ReplyFrame), NEW b \in Seq(ReplyFrame), NEW f \in ReplyFrame
    PROVE  Inserted(a \o b, a \o Append(b, f), Len(a \o b) + 1, f)
<1> DEFINE s == a \o b
           t == a \o Append(b, f)
<1>1. /\ Append(b, f) \in Seq(ReplyFrame) /\ Len(Append(b, f)) = Len(b) + 1
      /\ \A i \in 1 .. Len(b) : Append(b, f)[i] = b[i]
      /\ Append(b, f)[Len(b) + 1] = f
    OBVIOUS
<1>2. /\ Len(a) \in Nat /\ Len(b) \in Nat /\ Len(s) = Len(a) + Len(b)
      /\ \A i \in 1 .. Len(a) : s[i] = a[i]
      /\ \A i \in 1 .. Len(b) : s[Len(a) + i] = b[i]
      /\ \A i \in 1 .. Len(s) : i \in 1 .. Len(a) \/ i - Len(a) \in 1 .. Len(b)
    BY Joined
<1>3. /\ Len(t) = Len(a) + (Len(b) + 1)
      /\ \A i \in 1 .. Len(a) : t[i] = a[i]
      /\ \A i \in 1 .. Len(b) + 1 : t[Len(a) + i] = Append(b, f)[i]
    BY <1>1, Joined
<1> HIDE DEF s, t
<1>4. ASSUME NEW i \in 1 .. Len(s)
      PROVE  t[i] = s[i]
    <2>1. CASE i \in 1 .. Len(a)
        BY <1>2, <1>3, <2>1
    <2>2. CASE i - Len(a) \in 1 .. Len(b)
        <3> DEFINE j == i - Len(a)
        <3>1. j \in 1 .. Len(b) /\ Len(a) + j = i /\ j \in 1 .. Len(b) + 1
            BY <1>2, <2>2
        <3> HIDE DEF j
        <3> QED
            BY <1>1, <1>2, <1>3, <3>1
    <2> QED
        BY <1>2, <2>1, <2>2
<1>5. t[Len(s) + 1] = f
    <2>1. Len(b) + 1 \in 1 .. Len(b) + 1 /\ Len(a) + (Len(b) + 1) = Len(s) + 1
        BY <1>2
    <2> QED
        BY <1>1, <1>3, <2>1
<1>6. /\ Len(s) \in Nat /\ Len(s) + 1 \in 1 .. Len(s) + 1 /\ Len(t) = Len(s) + 1
      /\ (Len(s) + 1) - 1 = Len(s) /\ Len(s) + 1 .. Len(s) = {}
    BY <1>2, <1>3
<1>7. Inserted(s, t, Len(s) + 1, f)
    BY <1>4, <1>5, <1>6 DEF Inserted
<1> QED
    BY <1>7 DEF s, t

LEMMA JoinedRefuse ==
    ASSUME NEW a \in Seq(ReplyFrame), NEW b \in Seq(ReplyFrame), NEW f \in ReplyFrame
    PROVE  Inserted(a \o b, Append(a, f) \o b, Len(a) + 1, f)
<1> DEFINE s == a \o b
           t == Append(a, f) \o b
<1>1. /\ Append(a, f) \in Seq(ReplyFrame) /\ Len(Append(a, f)) = Len(a) + 1
      /\ \A i \in 1 .. Len(a) : Append(a, f)[i] = a[i]
      /\ Append(a, f)[Len(a) + 1] = f
    OBVIOUS
<1>2. /\ Len(a) \in Nat /\ Len(b) \in Nat /\ Len(s) = Len(a) + Len(b)
      /\ \A i \in 1 .. Len(a) : s[i] = a[i]
      /\ \A i \in 1 .. Len(b) : s[Len(a) + i] = b[i]
    BY Joined
<1>3. /\ Len(t) = (Len(a) + 1) + Len(b)
      /\ \A i \in 1 .. Len(a) + 1 : t[i] = Append(a, f)[i]
      /\ \A i \in 1 .. Len(b) : t[(Len(a) + 1) + i] = b[i]
    BY <1>1, Joined
<1> HIDE DEF s, t
<1>4. ASSUME NEW i \in Len(a) + 1 .. Len(s)
      PROVE  t[i + 1] = s[i]
    <2> DEFINE j == i - Len(a)
    <2>1. j \in 1 .. Len(b) /\ Len(a) + j = i /\ (Len(a) + 1) + j = i + 1
        BY <1>2
    <2> HIDE DEF j
    <2> QED
        BY <1>2, <1>3, <2>1
<1>5. \A i \in 1 .. (Len(a) + 1) - 1 : t[i] = s[i]
    BY <1>1, <1>2, <1>3
<1>6. /\ Len(s) \in Nat /\ Len(a) + 1 \in 1 .. Len(s) + 1 /\ Len(t) = Len(s) + 1
      /\ t[Len(a) + 1] = f
    BY <1>1, <1>2, <1>3
<1>7. Inserted(s, t, Len(a) + 1, f)
    BY <1>4, <1>5, <1>6 DEF Inserted
<1> QED
    BY <1>7 DEF s, t

(* A frame that the host relays keeps its place. *)
LEMMA JoinedRelay ==
    ASSUME NEW a \in Seq(ReplyFrame), NEW b \in Seq(ReplyFrame), b # <<>>
    PROVE  Append(a, Head(b)) \o Tail(b) = a \o b
<1>1. b = <<Head(b)>> \o Tail(b) /\ Append(a, Head(b)) = a \o <<Head(b)>>
    OBVIOUS
<1> QED
    BY <1>1

(* How a step moves the frames on the way back, as one sequence. *)
LEMMA StreamMoves ==
    ASSUME TypeOK, InFlightInv, CallerTypes, FramesKnown, [CallNext]_callVars
    PROVE  \/ /\ stream' = stream /\ UNCHANGED <<replies, refusal>> /\ ~AwaitFrame
              /\ Module => UNCHANGED transit
           \/ /\ AwaitFrame /\ inbox # <<>> /\ Head(inbox) \in ReplyFrame
              /\ Inserted(stream', stream, 1, Head(inbox)) /\ UNCHANGED <<vars, refusal>>
           \/ /\ Module /\ transit' = Append(transit, Emitted)
              /\ UNCHANGED <<inbox, cpc, current, got, outcome, refusal>>
              /\ mpc = "reply"
              /\ \/ reply.left > 1 /\ reply' = [reply EXCEPT !.left = @ - 1] /\ mpc' = "reply"
                    /\ replies' = replies
                 \/ reply.left = 1 /\ mpc' = "drain"
                    /\ replies' = [replies EXCEPT ![reply.call] = Append(@, reply.status)]
           \/ \E c \in Refused \cap Calls, status \in Refusals :
                /\ HostRefuses /\ Known(c) /\ Refuses(c, status)
                /\ UNCHANGED <<served, transit, caller>>
<1>0. inbox \in Seq(ReplyFrame) /\ transit \in Seq(ReplyFrame)
    BY DEF CallerTypes
<1>1. CASE AwaitFrame /\ inbox # <<>> /\ inbox' = Tail(inbox) /\ UNCHANGED transit
    <2>1. Inserted(stream', stream, 1, Head(inbox))
        BY <1>0, <1>1, JoinedRead DEF stream
    <2>2. Head(inbox) \in ReplyFrame
        BY <1>0, <1>1, HeadTail
    <2> QED
        BY <1>1, <2>1, <2>2 DEF AwaitFrame
<1>2. CASE Relay /\ ~AwaitFrame
    <2>1. /\ transit # <<>> /\ transit' = Tail(transit) /\ inbox' = Append(inbox, Head(transit))
          /\ UNCHANGED <<replies, refusal>>
        BY <1>2 DEF Relay, HostTakes
    <2>2. stream' = stream
        BY <1>0, <2>1, JoinedRelay DEF stream
    <2>3. Module => UNCHANGED transit
        <3>1. Module => UNCHANGED inbox
            BY DEF Module
        <3>2. inbox' # inbox
            <4>1. Len(Append(inbox, Head(transit))) = Len(inbox) + 1 /\ Len(inbox) \in Nat
                BY <1>0
            <4> QED
                BY <2>1, <4>1
        <3> QED
            BY <3>1, <3>2
    <2> QED
        BY <1>2, <2>1, <2>2, <2>3
<1>3. CASE HostRefuses /\ ~AwaitFrame
    <2>1. /\ UNCHANGED <<served, transit, caller>>
          /\ \/ UNCHANGED <<inbox, refusal>>
             \/ \E c \in Refused \cap Calls, status \in Refusals : Known(c) /\ Refuses(c, status)
        BY <1>3, RefusalFacts
    <2>2. CASE UNCHANGED <<inbox, refusal>>
        BY <1>3, <2>1, <2>2 DEF stream, served
    <2> QED
        BY <1>3, <2>1, <2>2
<1>4. CASE Module /\ ~AwaitFrame
    <2>1. UNCHANGED <<inbox, cpc, current, got, outcome, refusal>>
        BY <1>4, EmittedFacts
    <2>2. CASE UNCHANGED <<transit, replies>>
        BY <1>4, <2>1, <2>2 DEF stream
    <2> QED
        BY <1>4, <2>1, <2>2, EmittedFacts
<1>5. CASE UNCHANGED <<transit, inbox, replies, refusal>> /\ ~AwaitFrame
    BY <1>5 DEF stream
<1>6. CASE AwaitFrame
    BY <1>1, <1>6 DEF AwaitFrame
<1> QED
    BY <1>2, <1>3, <1>4, <1>5, <1>6, ReturnMoves

(* Only a fragment of the answer moves Progress. *)
LEMMA ProgressKept ==
    ASSUME TypeOK, InFlightInv, CallerTypes, [CallNext]_callVars, UNCHANGED current,
           Module => UNCHANGED transit, mpc' # "returned"
    PROVE  mpc # "returned" /\ Progress' = Progress
<1>1. CASE ~(Module /\ Loop)
    BY <1>1, TablesKept DEF Progress
<1>2. CASE Module
    <2>1. transit' # Append(transit, Emitted)
        <3>1. transit \in Seq(ReplyFrame)
            BY DEF CallerTypes
        <3>2. Len(Append(transit, Emitted)) = Len(transit) + 1 /\ Len(transit) \in Nat
            BY <3>1
        <3> QED
            BY <1>2, <3>2
    <2>2. \/ UNCHANGED <<mpc, reply>>
          \/ mpc \notin {"reply", "returned"} /\ mpc' # "reply"
          \/ mpc \notin {"reply", "returned"} /\ mpc' = "reply" /\ Fresh(reply')
        BY <1>2, <2>1, EmittedFacts
    <2>3. CASE mpc \notin {"reply", "returned"} /\ mpc' = "reply" /\ Fresh(reply')
        <3>1. Progress = 0
            BY <2>3 DEF Progress
        <3>2. CASE reply'.call = current' /\ reply'.status = "ok"
            <4>1. current \in Nat /\ CallOf[current'].resp = reply'.left
                BY <2>3, <3>2 DEF Fresh, CallerTypes
            <4>2. reply'.call \in Calls
                BY <2>3, RuntimeKept DEF TypeOK
            <4>3. CallOf[current'].resp \in Nat
                BY <3>2, <4>2, CallFacts
            <4>4. Progress' = CallOf[current'].resp - reply'.left
                BY <2>3, <3>2 DEF Progress
            <4> QED
                BY <2>3, <3>1, <4>1, <4>3, <4>4
        <3>3. CASE ~(reply'.call = current' /\ reply'.status = "ok")
            BY <2>3, <3>1, <3>3 DEF Progress
        <3> QED
            BY <3>2, <3>3
    <2> QED
        BY <2>2, <2>3 DEF Progress
<1> QED
    BY <1>1, <1>2

LEMMA EmittedShaped ==
    ASSUME TypeOK, ReplyKnown, mpc = "reply"
    PROVE  /\ Emitted \in ReplyFrame /\ Emitted.call = reply.call /\ Emitted.status = reply.status
           /\ Emitted.more <=> reply.left > 1
           /\ reply.call = current => Emitted.part = Progress + 1
           /\ Progress \in Int
           /\ Shaped(Emitted) /\ KnownHere(reply.call) /\ reply.call \in Calls
           /\ reply.status \in Status /\ reply.left \in Nat \ {0}
           /\ reply.status # "ok" => reply.left = 1
<1>1. /\ reply \in [call : Calls, status : Status, left : Nat \ {0}]
      /\ reply.call \in Calls /\ reply.status \in Status /\ reply.left \in Nat \ {0}
    BY DEF TypeOK
<1>2. /\ KnownHere(reply.call) /\ reply.left <= CallOf[reply.call].resp
      /\ reply.status # "ok" => reply.left = 1
    BY DEF ReplyKnown
<1>3. CallOf[reply.call].resp \in Nat \ {0}
    BY <1>1, CallFacts
<1>4. /\ Emitted.call = reply.call /\ Emitted.status = reply.status
      /\ Emitted.more = (reply.left > 1)
      /\ Emitted.part = IF reply.status = "ok" THEN CallOf[reply.call].resp - reply.left + 1 ELSE 1
    BY DEF Emitted
<1>5. Emitted \in ReplyFrame
    <2> DEFINE part == IF reply.status = "ok" THEN CallOf[reply.call].resp - reply.left + 1 ELSE 1
               more == reply.left > 1
    <2>1. part \in Int /\ more \in BOOLEAN
        BY <1>1, <1>3
    <2>2. Emitted = [call |-> reply.call, status |-> reply.status, part |-> part, more |-> more]
        BY DEF Emitted
    <2> HIDE DEF part, more
    <2> QED
        BY <1>1, <2>1, <2>2 DEF ReplyFrame
<1>6. Shaped(Emitted)
    <2>1. CASE reply.status = "ok"
        <3>1. Emitted.part = CallOf[reply.call].resp - reply.left + 1
            BY <1>4, <2>1
        <3>2. /\ Emitted.part \in 1 .. CallOf[reply.call].resp
              /\ reply.left > 1 <=> Emitted.part < CallOf[reply.call].resp
            BY <1>1, <1>2, <1>3, <3>1
        <3> QED
            BY <1>2, <1>4, <2>1, <3>2 DEF Shaped, KnownHere
    <2>2. CASE reply.status # "ok"
        <3>1. Emitted.part = 1 /\ ~(reply.left > 1)
            BY <1>2, <1>4, <2>2
        <3> QED
            BY <1>4, <2>2, <3>1 DEF Shaped
    <2> QED
        BY <2>1, <2>2
<1>7. Progress \in Int /\ (reply.call = current => Emitted.part = Progress + 1)
    BY <1>1, <1>3, <1>4 DEF Progress
<1> QED
    BY <1>1, <1>2, <1>4, <1>5, <1>6, <1>7

LEMMA FramesShapedStep ==
    ASSUME TypeOK, InFlightInv, CallerTypes, FramesKnown, ReplyKnown, FramesShaped,
           [CallNext]_callVars
    PROVE  FramesShaped'
<1>0. /\ inbox \in Seq(ReplyFrame) /\ transit \in Seq(ReplyFrame)
    BY DEF CallerTypes
<1>1. ASSUME NEW k, NEW f, Shaped(f), Inserted(stream, stream', k, f)
      PROVE  FramesShaped'
    <2> SUFFICES ASSUME NEW i \in 1 .. Len(stream') PROVE Shaped(stream'[i])
        BY DEF FramesShaped, Shaped
    <2>1. Len(stream) \in Nat /\ Len(stream') = Len(stream) + 1 /\ k \in 1 .. Len(stream) + 1
        BY <1>1 DEF Inserted
    <2>2. CASE i < k
        <3>1. i \in 1 .. k - 1 /\ i \in 1 .. Len(stream)
            BY <2>1, <2>2
        <3> QED
            BY <1>1, <3>1 DEF Inserted, FramesShaped
    <2>3. CASE i = k
        BY <1>1, <2>3 DEF Inserted
    <2>4. CASE i > k
        <3>1. i - 1 \in k .. Len(stream) /\ i - 1 \in 1 .. Len(stream) /\ (i - 1) + 1 = i
            BY <2>1, <2>4
        <3>2. stream'[i] = stream[i - 1]
            BY <1>1, <3>1 DEF Inserted
        <3> QED
            BY <3>1, <3>2 DEF FramesShaped
    <2> QED
        BY <2>1, <2>2, <2>3, <2>4
<1>2. CASE stream' = stream
    BY <1>2 DEF FramesShaped, Shaped
<1>3. ASSUME Inserted(stream', stream, 1, Head(inbox))
      PROVE  FramesShaped'
    <2> SUFFICES ASSUME NEW i \in 1 .. Len(stream') PROVE Shaped(stream'[i])
        BY DEF FramesShaped, Shaped
    <2>1. i + 1 \in 1 .. Len(stream) /\ stream[i + 1] = stream'[i]
        BY <1>3 DEF Inserted
    <2> QED
        BY <2>1 DEF FramesShaped
<1>4. CASE transit' = Append(transit, Emitted) /\ UNCHANGED inbox /\ mpc = "reply"
    <2>1. Inserted(stream, stream', Len(stream) + 1, Emitted)
        BY <1>0, <1>4, EmittedShaped, JoinedEmit DEF stream
    <2> QED
        BY <1>1, <1>4, <2>1, EmittedShaped
<1>5. ASSUME NEW c \in Refused \cap Calls, NEW status \in Refusals, Refuses(c, status),
             UNCHANGED transit
      PROVE  FramesShaped'
    <2> DEFINE f == [call |-> c, status |-> status, part |-> 1, more |-> FALSE]
    <2>1. f \in ReplyFrame /\ Shaped(f)
        BY DEF ReplyFrame, Shaped, Refusals
    <2>2. inbox' = Append(inbox, f)
        BY <1>5 DEF Refuses
    <2> HIDE DEF f
    <2>3. Inserted(stream, stream', Len(inbox) + 1, f)
        BY <1>0, <1>5, <2>1, <2>2, JoinedRefuse DEF stream
    <2> QED
        BY <1>1, <2>1, <2>3
<1> QED
    BY <1>2, <1>3, <1>4, <1>5, StreamMoves

LEMMA StreamTypes ==
    ASSUME CallerTypes
    PROVE  /\ stream \in Seq(ReplyFrame) /\ Len(stream) \in Nat
           /\ \A i \in 1 .. Len(stream) : stream[i].part \in Int /\ stream[i].call \in Calls
           /\ Len(got) \in Nat
<1>1. inbox \in Seq(ReplyFrame) /\ transit \in Seq(ReplyFrame) /\ got \in Seq(Part)
    BY DEF CallerTypes
<1>2. stream \in Seq(ReplyFrame)
    BY <1>1, Joined DEF stream
<1> QED
    BY <1>1, <1>2, FrameParts

LEMMA CallerMoves ==
    ASSUME CallerTypes, [CallNext]_callVars
    PROVE  \/ Begin \/ AwaitFrame
           \/ UNCHANGED <<current, got>> /\ (Waiting' => Waiting)
<1>1. CASE UNCHANGED callVars
    BY <1>1 DEF callVars, caller, Waiting
<1>2. CASE SendFails \/ AwaitEpoch \/ AwaitDeadline \/ AwaitCtx \/ Cancel \/ Send
    BY <1>2 DEF SendFails, AwaitEpoch, AwaitDeadline, AwaitCtx, AwaitNothing, Ends, Cancel, Send,
                Waiting
<1>3. CASE \/ Relay \/ HostRefuses \/ Module
           \/ Idle(HostRestart) \/ Idle(Stop) \/ Idle(Tick) \/ \E k \in Corrs : Idle(Handler(k))
    BY <1>3 DEF Relay, HostRefuses, Module, Idle, caller, Waiting
<1> QED
    BY <1>1, <1>2, <1>3 DEF CallNext, Caller

(* A call that begins has no frame on the way and no answer. *)
LEMMA BeginStream ==
    ASSUME TypeOK, CallerTypes, ControlInv, WhereInv, Begin
    PROVE  StreamInv'
<1> DEFINE c == current + 1
<1>1. /\ c \in Calls /\ current' = c /\ got' = <<>> /\ stream' = stream /\ current \in Nat
      /\ UNCHANGED <<vars, transit, inbox, refusal>>
    BY DEF Begin, CallerTypes, stream
<1>2. sent[c] = 0 /\ ~Known(c)
    BY <1>1 DEF ControlInv, Known
<1>3. \A i \in 1 .. Len(stream) : ~Own(stream, c, i)
    <2>1. \A i \in 1 .. Len(inbox) : inbox[i].call # c
        BY <1>2 DEF WhereInv, InboxKnown
    <2>2. \A i \in 1 .. Len(transit) : transit[i].call # c
        BY <1>2 DEF WhereInv, TransitKnown, KnownHere
    <2> QED
        BY <2>1, <2>2, Joined DEF stream, Own, CallerTypes
<1>4. Ordered(stream, c, 0)
    BY <1>3 DEF Ordered, Live
<1>5. Progress' = 0
    BY <1>1, <1>2 DEF Progress, WhereInv, ReplyKnown, KnownHere, vars
<1>6. Reached(stream, c, 0, 0)
    BY <1>3 DEF Reached
<1>7. answerOf'[c] = "none"
    <2>1. replies[c] = <<>> /\ refusal[c] = "none"
        BY <1>1, <1>2 DEF WhereInv, AnswersKnown
    <2> QED
        BY <1>1, <2>1 DEF answerOf, vars
<1>8. Tells(stream, c, "none")
    BY <1>3 DEF Tells, Closed
<1>9. Len(got') = 0
    BY <1>1
<1> HIDE DEF c
<1> QED
    BY <1>1, <1>4, <1>5, <1>6, <1>7, <1>8, <1>9 DEF StreamInv

LEMMA SameStream ==
    ASSUME TypeOK, InFlightInv, CallerTypes, StreamInv, [CallNext]_callVars,
           stream' = stream, UNCHANGED <<replies, refusal>>, ~AwaitFrame, ~Begin,
           Module => UNCHANGED transit
    PROVE  StreamInv'
<1>1. UNCHANGED <<current, got>> /\ (Waiting' => Waiting)
    BY CallerMoves
<1>2. mpc' # "returned" => mpc # "returned" /\ Progress' = Progress
    BY <1>1, ProgressKept
<1>3. answerOf' = answerOf
    BY DEF answerOf
<1> QED
    BY <1>1, <1>2, <1>3 DEF StreamInv

LEMMA ReadStream ==
    ASSUME TypeOK, CallerTypes, FramesShaped, StreamInv, AwaitFrame, inbox # <<>>,
           Inserted(stream', stream, 1, Head(inbox)), UNCHANGED <<vars, refusal>>
    PROVE  StreamInv'
<1> DEFINE f == Head(inbox)
           n == Len(got)
<1>0. /\ current' = current /\ Progress' = Progress /\ mpc' = mpc /\ answerOf' = answerOf
      /\ cpc = "wait" /\ Waiting
    BY DEF AwaitFrame, Progress, answerOf, vars, Waiting
<1>1. /\ \A i \in 1 .. n : got[i] = [call |-> current, part |-> i]
      /\ current \in Refused => got = <<>>
      /\ Ordered(stream, current, n)
      /\ mpc # "returned" => Reached(stream, current, n, Progress)
      /\ Tells(stream, current, answerOf[current])
    BY <1>0 DEF StreamInv
<1>2. CASE f.call # current
    <2>1. got' = got
        BY <1>2 DEF AwaitFrame, Mine
    <2>2. /\ Ordered(stream', current, n)
          /\ mpc # "returned" => Reached(stream', current, n, Progress)
          /\ Tells(stream', current, answerOf[current])
        BY <1>1, <1>2, ForeignFrame
    <2> QED
        BY <1>0, <1>1, <2>1, <2>2 DEF StreamInv
<1>3. CASE f.call = current /\ Waiting'
    <2>1. /\ f.status = "ok" /\ f.more
          /\ got' = Append(got, [call |-> f.call, part |-> f.part])
        BY <1>3 DEF AwaitFrame, Mine, Ends, Waiting
    <2>2. /\ n \in Nat /\ \A i \in 1 .. Len(stream) : stream[i].part \in Int
          /\ got \in Seq(Part)
        BY StreamTypes DEF CallerTypes
    <2> HIDE DEF f, n
    <2>3. Inserted(stream', stream, 1, f)
        BY DEF f
    <2>4. Progress \in Int
        <3>1. reply.left \in Nat /\ reply.call \in Calls
            BY DEF TypeOK
        <3>2. CallOf[reply.call].resp \in Nat
            BY <3>1, CallFacts
        <3> QED
            BY <3>1, <3>2 DEF Progress
    <2> DEFINE a == answerOf[current]
               c == current
               m == Progress
    <2>a. f.call = c /\ m \in Int /\ Ordered(stream, c, n) /\ Tells(stream, c, a)
        BY <1>1, <1>3, <2>4
    <2> HIDE DEF a, c, m
    <2>b. /\ f.part = n + 1
          /\ f.more => /\ Ordered(stream', c, n + 1) /\ Tells(stream', c, a)
                       /\ Reached(stream, c, n, m) => Reached(stream', c, n + 1, m)
        <3>1. Reads(stream, stream', f, c, n, m, a)
            BY <2>a, <2>2, <2>3 DEF Reads
        <3> QED
            BY <3>1, OwnFrameRead
    <2>5. /\ f.part = n + 1
          /\ Ordered(stream', current, n + 1) /\ Tells(stream', current, answerOf[current])
          /\ mpc # "returned" => Reached(stream', current, n + 1, Progress)
        BY <1>1, <2>1, <2>b DEF a, c, m
    <2>6. Len(got') = n + 1 /\ \A i \in 1 .. n + 1 : got'[i] = [call |-> current, part |-> i]
        BY <1>1, <1>3, <2>1, <2>2, <2>5 DEF n
    <2>7. current \notin Refused
        <3>1. 1 \in 1 .. Len(stream) /\ stream[1] = f
            BY <2>3 DEF Inserted
        <3> QED
            BY <1>3, <2>1, <3>1 DEF FramesShaped, Shaped
    <2> QED
        BY <1>0, <2>5, <2>6, <2>7 DEF StreamInv
<1> QED
    BY <1>2, <1>3 DEF StreamInv

LEMMA EmitStream ==
    ASSUME TypeOK, CallerTypes, ReplyKnown, StreamInv,
           transit' = Append(transit, Emitted),
           UNCHANGED <<inbox, cpc, current, got, outcome, refusal>>,
           mpc = "reply",
           \/ reply.left > 1 /\ reply' = [reply EXCEPT !.left = @ - 1] /\ mpc' = "reply"
              /\ replies' = replies
           \/ reply.left = 1 /\ mpc' = "drain"
              /\ replies' = [replies EXCEPT ![reply.call] = Append(@, reply.status)]
    PROVE  StreamInv'
<1> DEFINE f == Emitted
           n == Len(got)
<1> SUFFICES ASSUME Waiting PROVE StreamInv'
    BY DEF StreamInv, Waiting
<1>0. /\ f \in ReplyFrame /\ f.call = reply.call /\ f.status = reply.status
      /\ f.more <=> reply.left > 1
      /\ reply.call = current => f.part = Progress + 1
      /\ Progress \in Int /\ n \in Nat
      /\ reply.call \notin Refused /\ reply.call \in Calls
      /\ reply.status \in Status /\ reply.left \in Nat \ {0}
      /\ reply.status # "ok" => reply.left = 1
    BY EmittedShaped, StreamTypes DEF KnownHere
<1>1. /\ \A i \in 1 .. n : got[i] = [call |-> current, part |-> i]
      /\ current \in Refused => got = <<>>
      /\ Ordered(stream, current, n)
      /\ Reached(stream, current, n, Progress)
      /\ Tells(stream, current, answerOf[current])
    BY DEF StreamInv
<1>2. Inserted(stream, stream', Len(stream) + 1, f)
    BY <1>0, JoinedEmit DEF stream, CallerTypes
<1>3. current \in Calls /\ replies \in [Calls -> Seq(Status)]
    BY DEF CallerTypes, Waiting, TypeOK
<1> HIDE DEF f, n
<1>4. CASE reply.call # current
    <2>1. Progress = 0 /\ Progress' = 0
        BY <1>0, <1>4 DEF Progress, TypeOK
    <2>2. answerOf'[current] = answerOf[current]
        BY <1>3, <1>4 DEF answerOf
    <2>3. /\ Ordered(stream', current, n) /\ Reached(stream', current, n, Progress)
          /\ Tells(stream', current, answerOf[current])
        BY <1>0, <1>1, <1>2, <1>4, ForeignFrame
    <2> QED
        BY <1>1, <2>1, <2>2, <2>3 DEF StreamInv, n
<1>5. CASE reply.call = current
    <2> DEFINE a == answerOf[current]
               c == current
               k == Len(stream) + 1
               m == Progress
    <2>1. /\ \A i \in k .. Len(stream) : ~Own(stream, c, i)
          /\ \A i \in 1 .. Len(stream) : stream[i].part \in Int
        BY StreamTypes
    <2>a. /\ Inserted(stream, stream', k, f) /\ f.call = c /\ n \in Nat /\ m \in Int
          /\ Ordered(stream, c, n) /\ Reached(stream, c, n, m) /\ Tells(stream, c, a)
          /\ Open(stream, c) => f.part = m + 1
        BY <1>0, <1>1, <1>2, <1>5
    <2> HIDE DEF a, c, k, m
    <2>b. /\ Ordered(stream', c, n)
          /\ Reached(stream', c, n, m + 1)
          /\ f.more => Tells(stream', c, a)
          /\ ~f.more /\ f.status # "none" =>
                Tells(stream', c, IF a = "none" THEN f.status ELSE a)
        <3>1. Sends(stream, stream', k, f, c, n, m, a)
            BY <2>1, <2>a DEF Sends
        <3> QED
            BY <3>1, OwnFrameSent
    <2> USE DEF a
    <2>2. /\ Ordered(stream', current, n)
          /\ Reached(stream', current, n, Progress + 1)
          /\ f.more => Tells(stream', current, a)
          /\ ~f.more /\ f.status # "none" =>
                Tells(stream', current, IF a = "none" THEN f.status ELSE a)
        BY <2>b DEF c, m
    <2>3. CASE reply.left > 1
        <3>1. /\ reply' = [reply EXCEPT !.left = @ - 1] /\ mpc' = "reply" /\ replies' = replies
              /\ reply.status = "ok"
            BY <1>0, <2>3
        <3>2. Progress' = Progress + 1
            <4>1. /\ reply'.left = reply.left - 1 /\ reply'.call = current /\ reply'.status = "ok"
                BY <1>5, <3>1 DEF TypeOK
            <4>2. CallOf[current].resp \in Nat
                BY <1>3, CallFacts
            <4> QED
                BY <1>0, <1>5, <3>1, <4>1, <4>2 DEF Progress
        <3>3. answerOf' = answerOf
            BY <3>1 DEF answerOf
        <3> QED
            BY <1>0, <1>1, <2>2, <2>3, <3>2, <3>3 DEF StreamInv, n
    <2>4. CASE reply.left = 1
        <3>1. /\ mpc' = "drain"
              /\ replies' = [replies EXCEPT ![current] = Append(@, reply.status)]
            BY <1>0, <1>5, <2>4
        <3>2. ~f.more /\ f.status # "none"
            BY <1>0, <2>4 DEF Status
        <3> DEFINE b == IF a = "none" THEN f.status ELSE a
        <3>3. answerOf'[current] = b /\ b # "none"
            <4>1. a = IF replies[current] = <<>> THEN "none" ELSE Head(replies[current])
                BY <1>0, <1>3, <1>5 DEF answerOf
            <4>2. replies'[current] = Append(replies[current], f.status)
                BY <1>0, <1>3, <3>1
            <4>3. answerOf'[current]
                    = IF replies'[current] = <<>> THEN "none" ELSE Head(replies'[current])
                BY <1>0, <1>3, <1>5 DEF answerOf
            <4>4. CASE replies[current] = <<>>
                <5>1. replies'[current] # <<>> /\ Head(replies'[current]) = f.status
                    BY <4>2, <4>4
                <5> QED
                    BY <3>2, <4>1, <4>3, <4>4, <5>1
            <4>5. CASE replies[current] # <<>>
                <5>1. replies[current] \in Seq(Status) /\ f.status \in Status
                    BY <1>0, <1>3
                <5>2. /\ replies'[current] # <<>>
                      /\ Head(replies'[current]) = Head(replies[current])
                      /\ Head(replies[current]) \in Status
                    BY <4>2, <4>5, <5>1
                <5>3. Head(replies[current]) # "none"
                    BY <5>2 DEF Status
                <5> QED
                    BY <4>1, <4>3, <4>5, <5>2, <5>3
            <4> QED
                BY <4>4, <4>5
        <3>4. Tells(stream', current, b)
            BY <2>2, <3>2
        <3> HIDE DEF b
        <3>5. Reached(stream', current, n, Progress')
            BY <3>3, <3>4 DEF Tells, Reached
        <3> QED
            BY <1>1, <2>2, <3>3, <3>4, <3>5 DEF StreamInv, n
    <2> QED
        BY <1>0, <2>3, <2>4
<1> QED
    BY <1>4, <1>5

LEMMA RefuseStream ==
    ASSUME TypeOK, InFlightInv, CallerTypes, TransitKnown, FramesShaped, StreamInv,
           [CallNext]_callVars,
           NEW d \in Refused \cap Calls, NEW status \in Refusals, HostRefuses, Refuses(d, status),
           UNCHANGED <<served, transit, caller>>
    PROVE  StreamInv'
<1> DEFINE f == [call |-> d, status |-> status, part |-> 1, more |-> FALSE]
           n == Len(got)
           k == Len(inbox) + 1
           c == current
           a == answerOf[current]
<1> SUFFICES ASSUME Waiting PROVE StreamInv'
    BY DEF StreamInv, Waiting, caller
<1>0. /\ current' = current /\ got' = got /\ mpc' = mpc /\ Progress' = Progress /\ Waiting'
      /\ UNCHANGED <<replies, reply>>
    BY DEF caller, served, Progress, Waiting
<1>1. /\ \A i \in 1 .. n : got[i] = [call |-> current, part |-> i]
      /\ current \in Refused => got = <<>>
      /\ Ordered(stream, c, n)
      /\ mpc # "returned" => Reached(stream, c, n, Progress)
      /\ Tells(stream, c, a)
    BY DEF StreamInv
<1>2. Inserted(stream, stream', k, f)
    <2>1. f \in ReplyFrame
        BY DEF ReplyFrame
    <2>2. inbox' = Append(inbox, f) /\ transit' = transit
        BY DEF Refuses
    <2> HIDE DEF f
    <2> QED
        BY <2>1, <2>2, JoinedRefuse DEF stream, CallerTypes
<1>3. current \in Calls /\ refusal \in [Calls -> Refusals \cup {"none"}]
    BY DEF CallerTypes, Waiting
<1>4. CASE d # current
    <2>1. answerOf'[current] = answerOf[current]
        BY <1>0, <1>3, <1>4 DEF answerOf, Refuses
    <2> HIDE DEF k
    <2>2. f.call # c
        BY <1>4
    <2> HIDE DEF f, c, a, n
    <2>3. /\ Ordered(stream', c, n)
          /\ mpc # "returned" => Reached(stream', c, n, Progress)
          /\ Tells(stream', c, a)
        BY <1>1, <1>2, <2>2, ForeignFrame
    <2> QED
        BY <1>0, <1>1, <2>1, <2>3 DEF StreamInv, a, c, n
<1>5. CASE d = current
    <2>1. got = <<>> /\ n = 0
        BY <1>1, <1>5
    <2>2. \A i \in 1 .. Len(stream) : Own(stream, c, i) => ~stream[i].more
        BY <1>5 DEF FramesShaped, Shaped, Own
    <2>3. Reached(stream, c, 0, 0)
        <3>1. ASSUME Open(stream, c), NEW i \in 1 .. Len(stream), Own(stream, c, i)
              PROVE  FALSE
            BY <2>2, <3>1 DEF Open, Closed
        <3> QED
            BY <3>1 DEF Reached
    <2>4. \A i \in k .. Len(stream) : ~Own(stream, c, i)
        <3> SUFFICES ASSUME NEW i \in k .. Len(stream) PROVE stream[i].call # current
            BY DEF Own
        <3>1. /\ inbox \in Seq(ReplyFrame) /\ transit \in Seq(ReplyFrame)
              /\ Len(inbox) \in Nat /\ Len(stream) \in Nat
            BY StreamTypes DEF CallerTypes
        <3>2. i \in 1 .. Len(stream) /\ i \notin 1 .. Len(inbox)
            BY <3>1
        <3>3. i - Len(inbox) \in 1 .. Len(transit) /\ stream[i] = transit[i - Len(inbox)]
            BY <3>1, <3>2, Joined DEF stream
        <3> QED
            BY <1>5, <3>3 DEF TransitKnown, KnownHere
    <2>5. Sends(stream, stream', k, f, c, 0, 0, a)
        BY <1>1, <1>2, <1>5, <2>1, <2>3, <2>4, StreamTypes DEF Sends
    <2>6. ~f.more /\ f.status = status /\ status # "none"
        BY DEF Refusals
    <2> DEFINE b == IF a = "none" THEN status ELSE a
    <2> HIDE DEF c, k, f
    <2>7. Ordered(stream', c, 0) /\ Tells(stream', c, b)
        BY <2>5, <2>6, OwnFrameSent
    <2>8. answerOf'[current] = b /\ b # "none"
        <3>1. /\ answerOf[current] = refusal[current] /\ answerOf'[current] = refusal'[current]
              /\ refusal'[current] = IF refusal[current] = "none" THEN status ELSE refusal[current]
            BY <1>3, <1>5 DEF answerOf, Refuses
        <3> QED
            BY <2>6, <3>1
    <2> HIDE DEF a, b
    <2>9. Reached(stream', c, 0, Progress)
        BY <2>7, <2>8 DEF Tells, Reached
    <2> QED
        BY <1>0, <1>1, <2>1, <2>7, <2>8, <2>9 DEF StreamInv, c
<1> QED
    BY <1>4, <1>5

LEMMA StreamStep ==
    ASSUME TypeOK, InFlightInv, CallerTypes, ControlInv, WhereInv, FramesShaped, StreamInv,
           [CallNext]_callVars
    PROVE  StreamInv'
<1>0. FramesKnown /\ ReplyKnown /\ TransitKnown
    BY DEF WhereInv
<1>1. CASE Begin
    BY <1>1, BeginStream
<1>2. CASE /\ stream' = stream /\ UNCHANGED <<replies, refusal>> /\ ~AwaitFrame
           /\ Module => UNCHANGED transit
    BY <1>1, <1>2, SameStream
<1>3. CASE AwaitFrame /\ inbox # <<>> /\ Inserted(stream', stream, 1, Head(inbox))
           /\ UNCHANGED <<vars, refusal>>
    BY <1>3, ReadStream
<1>4. CASE /\ Module /\ transit' = Append(transit, Emitted)
           /\ UNCHANGED <<inbox, cpc, current, got, outcome, refusal>>
           /\ mpc = "reply"
           /\ \/ reply.left > 1 /\ reply' = [reply EXCEPT !.left = @ - 1] /\ mpc' = "reply"
                 /\ replies' = replies
              \/ reply.left = 1 /\ mpc' = "drain"
                 /\ replies' = [replies EXCEPT ![reply.call] = Append(@, reply.status)]
    BY <1>0, <1>4, EmitStream
<1>5. ASSUME NEW d \in Refused \cap Calls, NEW status \in Refusals, HostRefuses,
             Refuses(d, status), UNCHANGED <<served, transit, caller>>
      PROVE  StreamInv'
    BY <1>0, <1>5, RefuseStream
<1> QED
    BY <1>0, <1>1, <1>2, <1>3, <1>4, <1>5, StreamMoves

-----------------------------------------------------------------------------
(* The caller keeps the promise of RemoteCall. *)

(* An answer is given once, to a call that has begun. *)
LEMMA AnswerMoves ==
    ASSUME TypeOK, InFlightInv, CallerTypes, WhereInv, [CallNext]_callVars
    PROVE  \/ answerOf' = answerOf
           \/ \E c \in Calls, a \in Status \cup Refusals :
                /\ Known(c) /\ answerOf[c] = "none"
                /\ answerOf' = [answerOf EXCEPT ![c] = a]
                /\ UNCHANGED <<current, outcome>>
<1>0. FramesKnown /\ ReplyKnown
    BY DEF WhereInv
<1>1. replies \in [Calls -> Seq(Status)] /\ refusal \in [Calls -> Refusals \cup {"none"}]
    BY DEF TypeOK, CallerTypes
<1>2. CASE UNCHANGED <<replies, refusal>>
    BY <1>2 DEF answerOf
<1>3. CASE /\ UNCHANGED <<current, outcome, refusal>>
           /\ replies' = [replies EXCEPT ![reply.call] = Append(@, reply.status)]
           /\ mpc = "reply"
    <2> DEFINE r == reply.call
               a == reply.status
    <2>1. r \in Calls /\ a \in Status /\ Known(r) /\ r \notin Refused
        BY <1>0, <1>3, EmittedShaped DEF KnownHere
    <2> HIDE DEF r, a
    <2>2. /\ \A c \in Calls : c # r => replies'[c] = replies[c]
          /\ replies'[r] = Append(replies[r], a)
        BY <1>1, <1>3, <2>1 DEF r, a
    <2>3. CASE replies[r] = <<>>
        <3>1. replies'[r] # <<>> /\ Head(replies'[r]) = a
            BY <2>2, <2>3
        <3>2. answerOf[r] = "none" /\ answerOf' = [answerOf EXCEPT ![r] = a]
            <4>1. answerOf[r] = "none" /\ answerOf'[r] = a
                BY <2>1, <2>3, <3>1 DEF answerOf
            <4>2. \A d \in Calls : d # r => answerOf'[d] = answerOf[d]
                BY <1>3, <2>2 DEF answerOf
            <4>3. /\ answerOf' = [d \in Calls |-> answerOf'[d]]
                  /\ answerOf = [d \in Calls |-> answerOf[d]]
                BY DEF answerOf
            <4> QED
                BY <2>1, <4>1, <4>2, <4>3
        <3> QED
            BY <1>3, <2>1, <3>2
    <2>4. CASE replies[r] # <<>>
        <3>1. replies[r] \in Seq(Status)
            BY <1>1, <2>1
        <3>2. replies'[r] # <<>> /\ Head(replies'[r]) = Head(replies[r])
            BY <2>1, <2>2, <2>4, <3>1
        <3> QED
            BY <1>3, <2>1, <2>2, <2>4, <3>2 DEF answerOf
    <2> QED
        BY <2>3, <2>4
<1>4. ASSUME NEW d \in Refused \cap Calls, NEW status \in Refusals, Known(d),
             Refuses(d, status), UNCHANGED <<served, transit, caller>>
      PROVE  \/ answerOf' = answerOf
             \/ \E c \in Calls, a \in Status \cup Refusals :
                  /\ Known(c) /\ answerOf[c] = "none"
                  /\ answerOf' = [answerOf EXCEPT ![c] = a]
                  /\ UNCHANGED <<current, outcome>>
    <2>1. /\ refusal' = [refusal EXCEPT ![d] = IF @ = "none" THEN status ELSE @]
          /\ UNCHANGED <<replies, current, outcome>>
        BY <1>4 DEF Refuses, served, caller
    <2>2. CASE refusal[d] = "none"
        <3>1. answerOf[d] = "none" /\ answerOf' = [answerOf EXCEPT ![d] = status]
            BY <1>1, <2>1, <2>2 DEF answerOf
        <3> QED
            BY <1>4, <2>1, <3>1
    <2>3. CASE refusal[d] # "none"
        <3>1. refusal' = refusal
            BY <1>1, <2>1, <2>3
        <3> QED
            BY <2>1, <3>1 DEF answerOf
    <2> QED
        BY <2>2, <2>3
<1>5. UNCHANGED vars => UNCHANGED replies
    BY DEF vars
<1> QED
    BY <1>0, <1>2, <1>3, <1>4, <1>5, StreamMoves

LEMMA BeginIsBegin ==
    ASSUME CallerTypes, ControlInv, Begin
    PROVE  Promise!Begin(current + 1)
<1> DEFINE c == current + 1
<1>0. /\ current \in Nat /\ c \in Calls /\ Calls \subseteq Nat
      /\ current' = c /\ cpc = "idle" /\ outcome' = outcome
      /\ UNCHANGED <<replies, refusal>>
    BY CallFacts DEF Begin, CallerTypes, vars
<1>1. \A d \in Calls : outcome[d].status = "none" <=> d > current
    BY <1>0 DEF ControlInv, Waiting
<1>2. phaseOf[c] = "new" /\ \A d \in Calls : phaseOf[d] # "open"
    BY <1>0, <1>1 DEF phaseOf
<1>3. phaseOf' = [phaseOf EXCEPT ![c] = "open"]
    <2>1. \A d \in Calls : phaseOf'[d] = IF d = c THEN "open" ELSE phaseOf[d]
        BY <1>0, <1>1 DEF phaseOf
    <2>2. /\ phaseOf' = [d \in Calls |-> phaseOf'[d]]
          /\ phaseOf = [d \in Calls |-> phaseOf[d]]
        BY DEF phaseOf
    <2> HIDE DEF c
    <2> QED
        BY <1>0, <2>1, <2>2
<1>4. answerOf' = answerOf /\ outcomeOf' = outcomeOf
    BY <1>0 DEF answerOf, outcomeOf
<1> QED
    BY <1>2, <1>3, <1>4 DEF Promise!Begin

LEMMA EndIsEnd ==
    ASSUME CallerTypes, ControlInv, Waiting, UNCHANGED current, answerOf' = answerOf,
           NEW status, status # "none", NEW body, status = "ok" => body = WholeResponse(current),
           outcome' = [outcome EXCEPT ![current] = [status |-> status, body |-> body]]
    PROVE  Promise!End(current, status)
<1>0. /\ current \in Calls /\ current \in Nat /\ Calls \subseteq Nat
      /\ outcome \in [Calls -> Outcomes]
    BY CallFacts DEF CallerTypes, Waiting
<1>1. outcome[current].status = "none"
    BY <1>0 DEF ControlInv
<1>2. /\ outcome'[current] = [status |-> status, body |-> body]
      /\ \A d \in Calls : d # current => outcome'[d] = outcome[d]
    BY <1>0
<1>3. phaseOf[current] = "open"
    BY <1>0, <1>1 DEF phaseOf
<1>4. phaseOf' = [phaseOf EXCEPT ![current] = "closed"]
    <2>1. \A d \in Calls : phaseOf'[d] = IF d = current THEN "closed" ELSE phaseOf[d]
        BY <1>0, <1>2 DEF phaseOf
    <2>2. /\ phaseOf' = [d \in Calls |-> phaseOf'[d]]
          /\ phaseOf = [d \in Calls |-> phaseOf[d]]
        BY DEF phaseOf
    <2> QED
        BY <1>0, <2>1, <2>2
<1>5. outcomeOf' = [outcomeOf EXCEPT ![current] = status]
    <2>1. \A d \in Calls : outcomeOf'[d] = IF d = current THEN status ELSE outcomeOf[d]
        <3>1. outcomeOf'[current] = status
            BY <1>0, <1>2 DEF outcomeOf, WholeResponse
        <3>2. \A d \in Calls : d # current => outcomeOf'[d] = outcomeOf[d]
            BY <1>2 DEF outcomeOf, WholeResponse
        <3> QED
            BY <3>1, <3>2
    <2>2. /\ outcomeOf' = [d \in Calls |-> outcomeOf'[d]]
          /\ outcomeOf = [d \in Calls |-> outcomeOf[d]]
        BY DEF outcomeOf
    <2> QED
        BY <1>0, <2>1, <2>2
<1> QED
    BY <1>3, <1>4, <1>5 DEF Promise!End

(* The caller stops waiting for a reason of its own. *)
LEMMA ReasonIsGiveUp ==
    ASSUME CallerTypes, ControlInv, Waiting, UNCHANGED <<current, replies, refusal>>,
           NEW label, NEW reason \in Reasons, Ends(label, reason, <<>>)
    PROVE  Promise!GiveUp(current)
<1>1. answerOf' = answerOf
    BY DEF answerOf
<1>2. reason # "none" /\ reason # "ok"
    BY DEF Reasons
<1>3. outcome' = [outcome EXCEPT ![current] = [status |-> reason, body |-> <<>>]]
    BY DEF Ends
<1>4. Promise!End(current, reason)
    BY <1>1, <1>2, <1>3, EndIsEnd
<1> QED
    BY <1>4 DEF Promise!GiveUp

(* A frame that ends the wait is the end of the answer to this very call, and *)
(* an ok one completes the response.                                          *)
LEMMA FrameIsReturn ==
    ASSUME TypeOK, CallerTypes, ControlInv, FramesShaped, StreamInv, AwaitFrame
    PROVE  \/ UNCHANGED <<current, outcome>> /\ answerOf' = answerOf
           \/ current \in Calls /\ (Promise!Return(current) \/ Promise!GiveUp(current))
<1> DEFINE f == Head(inbox)
           n == Len(got)
           body == Append(got, [call |-> f.call, part |-> f.part])
<1>0. /\ UNCHANGED <<vars, transit, current, refusal>> /\ cpc = "wait" /\ current \in Calls
      /\ Waiting /\ inbox # <<>> /\ inbox' = Tail(inbox) /\ UNCHANGED replies
    BY DEF AwaitFrame, Waiting, CallerTypes, vars
<1>1. answerOf' = answerOf
    BY <1>0 DEF answerOf
<1>2. \/ UNCHANGED outcome
      \/ f.call = current /\ f.status # "ok" /\ Ends("cancel", f.status, <<>>)
      \/ /\ f.call = current /\ f.status = "ok"
         /\ \/ Ends("cancel", "runtime", <<>>)
            \/ ~f.more /\ Ends("idle", "ok", body)
    BY DEF AwaitFrame, Mine
<1>3. Inserted(stream', stream, 1, f)
    BY <1>0, JoinedRead DEF stream, CallerTypes
<1>4. Shaped(f)
    <2>1. 1 \in 1 .. Len(stream) /\ stream[1] = f
        BY <1>3 DEF Inserted
    <2> QED
        BY <2>1 DEF FramesShaped
<1>5. ASSUME f.call = current
      PROVE  f.part = n + 1 /\ (~f.more => answerOf[current] = f.status /\ f.status # "none")
    <2> DEFINE a == answerOf[current]
    <2>1. /\ n \in Nat /\ \A i \in 1 .. Len(stream) : stream[i].part \in Int
          /\ Ordered(stream, current, n) /\ Tells(stream, current, a)
        BY <1>0, StreamTypes DEF StreamInv
    <2> HIDE DEF f, n, a
    <2>2. Reads(stream, stream', f, current, n, 0, a)
        BY <1>3, <1>5, <2>1 DEF Reads
    <2>3. f.part = n + 1 /\ (~f.more => a = f.status /\ a # "none")
        BY <2>2, OwnFrameRead
    <2> QED
        BY <2>3 DEF a
<1>6. CASE f.call = current /\ f.status # "ok" /\ Ends("cancel", f.status, <<>>)
    <2>1. ~f.more
        BY <1>4, <1>6 DEF Shaped
    <2>2. answerOf[current] = f.status /\ f.status # "none"
        BY <1>5, <1>6, <2>1
    <2>3. outcome' = [outcome EXCEPT ![current] = [status |-> f.status, body |-> <<>>]]
        BY <1>6 DEF Ends
    <2>4. Promise!End(current, f.status)
        BY <1>0, <1>1, <1>6, <2>2, <2>3, EndIsEnd
    <2> QED
        BY <1>0, <2>2, <2>4 DEF Promise!Return
<1>7. CASE f.call = current /\ f.status = "ok" /\ ~f.more /\ Ends("idle", "ok", body)
    <2>1. answerOf[current] = "ok" /\ f.part = n + 1 /\ f.part = CallOf[current].resp
        <3>1. f.part \in 1 .. CallOf[current].resp /\ ~(f.part < CallOf[current].resp)
            BY <1>4, <1>7 DEF Shaped
        <3>2. CallOf[current].resp \in Nat
            BY <1>0, CallFacts
        <3> QED
            BY <1>5, <1>7, <3>1, <3>2
    <2>2. body = WholeResponse(current)
        <3>1. /\ got \in Seq(Part) /\ n \in Nat
              /\ \A i \in 1 .. n : got[i] = [call |-> current, part |-> i]
            BY <1>0, StreamTypes DEF StreamInv, CallerTypes
        <3>2. [call |-> f.call, part |-> f.part] = [call |-> current, part |-> n + 1]
            BY <1>7, <2>1
        <3> HIDE DEF f
        <3>3. /\ DOMAIN body = 1 .. n + 1 /\ body = [i \in DOMAIN body |-> body[i]]
              /\ \A i \in 1 .. n + 1 : body[i] = [call |-> current, part |-> i]
            BY <3>1, <3>2
        <3> QED
            BY <2>1, <3>3 DEF WholeResponse
    <2>3. outcome' = [outcome EXCEPT ![current] = [status |-> "ok", body |-> body]]
        BY <1>7 DEF Ends
    <2> HIDE DEF body
    <2>4. Promise!End(current, "ok")
        BY <1>0, <1>1, <2>2, <2>3, EndIsEnd
    <2> QED
        BY <1>0, <2>1, <2>4 DEF Promise!Return
<1>8. CASE Ends("cancel", "runtime", <<>>)
    BY <1>0, <1>8, ReasonIsGiveUp DEF Reasons
<1> QED
    BY <1>0, <1>1, <1>2, <1>6, <1>7, <1>8

LEMMA CallerRefines ==
    ASSUME TypeOK, InFlightInv, CallerTypes, ControlInv, WhereInv, FramesShaped, StreamInv,
           [CallNext]_callVars
    PROVE  \/ UNCHANGED <<current, outcome>>
           \/ \E c \in Calls : Promise!Begin(c) \/ Promise!Return(c) \/ Promise!GiveUp(c)
<1>1. CASE Begin
    <2>1. current + 1 \in Calls
        BY <1>1 DEF Begin
    <2> QED
        BY <1>1, <2>1, BeginIsBegin
<1>2. CASE AwaitFrame
    BY <1>2, FrameIsReturn
<1>3. CASE SendFails \/ AwaitEpoch \/ AwaitDeadline \/ AwaitCtx
    <2>1. /\ Waiting /\ current \in Calls /\ UNCHANGED <<current, replies, refusal>>
          /\ \E label \in {"idle", "cancel"}, reason \in Reasons : Ends(label, reason, <<>>)
        BY <1>3 DEF SendFails, AwaitEpoch, AwaitDeadline, AwaitCtx, AwaitNothing, Reasons, Waiting,
                    CallerTypes, vars
    <2> QED
        BY <2>1, ReasonIsGiveUp
<1>4. CASE \/ UNCHANGED callVars \/ Send \/ Cancel \/ Relay \/ HostRefuses \/ Module
           \/ Idle(HostRestart) \/ Idle(Stop) \/ Idle(Tick) \/ \E k \in Corrs : Idle(Handler(k))
    BY <1>4 DEF callVars, caller, Send, Cancel, Relay, HostRefuses, Module, Idle
<1> QED
    BY <1>1, <1>2, <1>3, <1>4 DEF CallNext, Caller

(* Every step is a step of the promise, or none of its business. *)
LEMMA CallRefines ==
    ASSUME TypeOK, InFlightInv, CallerTypes, ControlInv, WhereInv, FramesShaped, StreamInv,
           [CallNext]_callVars
    PROVE  [Promise!Next]_<<phaseOf, answerOf, outcomeOf>>
<1>1. CASE \E c \in Calls : Promise!Begin(c) \/ Promise!Return(c) \/ Promise!GiveUp(c)
    BY <1>1 DEF Promise!Next
<1>2. CASE UNCHANGED <<current, outcome>>
    <2>1. phaseOf' = phaseOf /\ outcomeOf' = outcomeOf
        BY <1>2 DEF phaseOf, outcomeOf, WholeResponse
    <2>2. CASE answerOf' = answerOf
        BY <2>1, <2>2
    <2>3. ASSUME NEW c \in Calls, NEW a \in Status \cup Refusals, Known(c), answerOf[c] = "none",
                 answerOf' = [answerOf EXCEPT ![c] = a]
          PROVE  Promise!Next
        <3>1. c \in Nat /\ current \in Nat /\ ~(c > current)
            BY <2>3, CallFacts DEF ControlInv, Known, CallerTypes
        <3>2. phaseOf[c] # "new"
            BY <3>1 DEF phaseOf
        <3>3. Promise!Answer(c, a)
            BY <2>1, <2>3, <3>2 DEF Promise!Answer
        <3> QED
            BY <3>3 DEF Promise!Next
    <2> QED
        BY <2>2, <2>3, AnswerMoves
<1> QED
    BY <1>1, <1>2, CallerRefines

(* ModuleCaller.Call keeps the promise of RemoteCall, for any number of calls,   *)
(* whatever is late, refused or abandoned: an answer is never taken for another  *)
(* call's, an ok outcome is the whole response, in order, and what Call returns  *)
(* is the first answer that was given or a reason of its own.                    *)
THEOREM CallImplementsRemoteCall == CallSpec => ImplementsRemoteCall
<1>1. CallInit => Promise!Init
    <2> SUFFICES ASSUME CallInit PROVE Promise!Init
        OBVIOUS
    <2>1. phaseOf = [c \in Calls |-> "new"]
        BY CallFacts DEF CallInit, phaseOf
    <2>2. answerOf = [c \in Calls |-> "none"]
        BY DEF CallInit, Init, answerOf
    <2>3. outcomeOf = [c \in Calls |-> "none"]
        BY DEF CallInit, outcomeOf
    <2> QED
        BY <2>1, <2>2, <2>3 DEF Promise!Init
<1>2. CallInit => FramesShaped /\ StreamInv
    <2> SUFFICES ASSUME CallInit PROVE FramesShaped /\ StreamInv
        OBVIOUS
    <2>1. Len(stream) = 0
        BY DEF CallInit, stream
    <2> QED
        BY <2>1 DEF CallInit, FramesShaped, StreamInv, Waiting
<1>3. CallInv /\ FramesShaped /\ StreamInv /\ [CallNext]_callVars
        => FramesShaped' /\ StreamInv' /\ [Promise!Next]_<<phaseOf, answerOf, outcomeOf>>
    <2> SUFFICES ASSUME CallInv, FramesShaped, StreamInv, [CallNext]_callVars
                 PROVE  /\ FramesShaped' /\ StreamInv'
                        /\ [Promise!Next]_<<phaseOf, answerOf, outcomeOf>>
        OBVIOUS
    <2>1. /\ TypeOK /\ InFlightInv /\ CallerTypes /\ ControlInv /\ WhereInv
          /\ FramesKnown /\ ReplyKnown
        BY DEF CallInv, WhereInv
    <2> QED
        BY <2>1, FramesShapedStep, StreamStep, CallRefines
<1> QED
    BY <1>1, <1>2, <1>3, CallInvHolds, PTL DEF CallSpec, ImplementsRemoteCall, Promise!Spec
-----------------------------------------------------------------------------
(* The composition as a module runtime: what the module sees of the path to it *)
(* is what is left when the frames of refused calls are taken out.             *)

(* Induction up to a bound, over a set of numbers. *)
LEMMA UpTo ==
    ASSUME NEW N \in Nat, NEW T, 0 \in T,
           \A n \in 0 .. N : n # 0 /\ n - 1 \in T => n \in T
    PROVE  \A n \in 0 .. N : n \in T
<1> DEFINE F == {n \in 0 .. N : n \notin T}
<1> SUFFICES ASSUME F # {} PROVE FALSE
    OBVIOUS
<1>1. F \subseteq Nat
    OBVIOUS
<1>2. PICK m \in F : \A n \in F : <<n, m>> \notin OpToRel(<, Nat)
    <2> HIDE DEF F
    <2>1. IsWellFoundedOn(OpToRel(<, Nat), Nat)
        BY NatLessThanWellFounded
    <2> QED
        BY <1>1, <2>1, WFMin, Zenon
<1>3. \A n \in F : ~(n < m)
    BY <1>1, <1>2 DEF OpToRel
<1>4. m \in 0 .. N /\ m \notin T /\ m # 0
    OBVIOUS
<1>5. m - 1 \in 0 .. N /\ m - 1 < m
    BY <1>4
<1>6. m - 1 \in T
    BY <1>3, <1>5
<1> QED
    BY <1>4, <1>6

(* The prefixes of a sequence of frames, with those of refused calls left out. *)
Filters(s, g) ==
    /\ g \in [0 .. Len(s) -> Seq(Frame)] /\ g[0] = <<>>
    /\ \A n \in 1 .. Len(s) :
        g[n] = IF s[n].call \in Refused THEN g[n - 1] ELSE Append(g[n - 1], s[n])

LEMMA FilterExists ==
    ASSUME NEW s \in Seq(Frame)
    PROVE  \E g : Filters(s, g)
<1> DEFINE N == Len(s)
           T == {n \in 0 .. N : \E g : /\ g \in [0 .. n -> Seq(Frame)] /\ g[0] = <<>>
                                       /\ \A i \in 1 .. n :
                                            g[i] = IF s[i].call \in Refused THEN g[i - 1]
                                                   ELSE Append(g[i - 1], s[i])}
<1>1. N \in Nat
    OBVIOUS
<1>2. 0 \in T
    <2> DEFINE g == [i \in 0 .. 0 |-> <<>>]
    <2>1. g \in [0 .. 0 -> Seq(Frame)] /\ g[0] = <<>>
        OBVIOUS
    <2> HIDE DEF g
    <2> QED
        BY <1>1, <2>1
<1>3. ASSUME NEW n \in 0 .. N, n # 0, n - 1 \in T
      PROVE  n \in T
    <2>1. PICK g : /\ g \in [0 .. n - 1 -> Seq(Frame)] /\ g[0] = <<>>
                   /\ \A i \in 1 .. n - 1 :
                        g[i] = IF s[i].call \in Refused THEN g[i - 1]
                               ELSE Append(g[i - 1], s[i])
        BY <1>3
    <2> DEFINE last == IF s[n].call \in Refused THEN g[n - 1] ELSE Append(g[n - 1], s[n])
               h == [i \in 0 .. n |-> IF i = n THEN last ELSE g[i]]
    <2>2. n \in 1 .. N /\ n - 1 \in 0 .. n - 1 /\ s[n] \in Frame
        BY <1>3
    <2>3. last \in Seq(Frame)
        BY <2>1, <2>2
    <2> HIDE DEF last
    <2>4. h \in [0 .. n -> Seq(Frame)] /\ h[0] = <<>> /\ h[n] = last
        <3>1. \A i \in 0 .. n : i # n => i \in 0 .. n - 1
            BY <2>2
        <3> QED
            BY <2>1, <2>2, <2>3, <3>1
    <2>5. \A i \in 0 .. n - 1 : i \in 0 .. n /\ h[i] = g[i]
        BY <2>2
    <2>6. ASSUME NEW i \in 1 .. n
          PROVE  h[i] = IF s[i].call \in Refused THEN h[i - 1] ELSE Append(h[i - 1], s[i])
        <3>1. i - 1 \in 0 .. n - 1 /\ h[i - 1] = g[i - 1]
            BY <2>2, <2>5
        <3>2. CASE i = n
            BY <2>4, <3>1, <3>2 DEF last
        <3>3. CASE i # n
            <4>1. i \in 1 .. n - 1 /\ i \in 0 .. n - 1
                BY <2>2, <3>3
            <4> QED
                BY <2>1, <2>5, <3>1, <4>1
        <3> QED
            BY <3>2, <3>3
    <2> HIDE DEF h
    <2> QED
        BY <2>4, <2>6
<1> HIDE DEF T
<1>4. N \in T
    <2>1. \A n \in 0 .. N : n \in T
        BY <1>1, <1>2, <1>3, UpTo
    <2> QED
        BY <1>1, <2>1
<1> QED
    BY <1>4 DEF T, Filters

(* The recursion of PassedOn runs through them. *)
LEMMA PassedOnIs ==
    ASSUME NEW s \in Seq(Frame)
    PROVE  \E g : Filters(s, g) /\ PassedOn(s) = g[Len(s)]
<1> DEFINE N == Len(s)
           Steps(f) == [n \in 0 .. N |->
                            IF n = 0 THEN <<>>
                            ELSE IF s[n].call \in Refused THEN f[n - 1]
                            ELSE Append(f[n - 1], s[n])]
           f == CHOOSE f : f = Steps(f)
<1>1. PICK g : Filters(s, g)
    BY FilterExists
<1>2. g = Steps(g)
    <2>1. g \in [0 .. N -> Seq(Frame)] /\ g[0] = <<>>
        BY <1>1 DEF Filters
    <2>2. ASSUME NEW n \in 0 .. N
          PROVE  g[n] = IF n = 0 THEN <<>>
                        ELSE IF s[n].call \in Refused THEN g[n - 1]
                        ELSE Append(g[n - 1], s[n])
        <3>1. n = 0 \/ n \in 1 .. N
            OBVIOUS
        <3> QED
            BY <1>1, <2>1, <3>1 DEF Filters
    <2> QED
        BY <2>1, <2>2
<1>3. f = Steps(f)
    BY <1>2
<1>4. PassedOn(s) = f[N]
    BY DEF PassedOn
<1>5. \A n \in 0 .. N : f[n] = IF n = 0 THEN <<>>
                               ELSE IF s[n].call \in Refused THEN f[n - 1]
                               ELSE Append(f[n - 1], s[n])
    BY <1>3
<1> HIDE DEF f, Steps
<1> DEFINE T == {n \in 0 .. N : f[n] = g[n]}
<1>6. N \in Nat
    OBVIOUS
<1>7. 0 \in T
    BY <1>1, <1>5, <1>6 DEF Filters
<1>8. ASSUME NEW n \in 0 .. N, n # 0, n - 1 \in T
      PROVE  n \in T
    <2>1. n \in 1 .. N /\ f[n - 1] = g[n - 1]
        BY <1>8
    <2>2. g[n] = IF s[n].call \in Refused THEN g[n - 1] ELSE Append(g[n - 1], s[n])
        BY <1>1, <2>1 DEF Filters
    <2>3. f[n] = IF s[n].call \in Refused THEN f[n - 1] ELSE Append(f[n - 1], s[n])
        BY <1>5, <1>8
    <2> QED
        BY <2>1, <2>2, <2>3
<1> HIDE DEF T
<1>9. \A n \in 0 .. N : n \in T
    BY <1>6, <1>7, <1>8, UpTo
<1>10. f[N] = g[N]
    BY <1>6, <1>9 DEF T
<1> QED
    BY <1>1, <1>4, <1>10

LEMMA PassedOnTypes ==
    ASSUME NEW s \in Seq(Frame)
    PROVE  /\ PassedOn(s) \in Seq(Frame) /\ Len(PassedOn(s)) <= Len(s)
           /\ \A m \in 1 .. Len(PassedOn(s)) : \E i \in 1 .. Len(s) :
                PassedOn(s)[m] = s[i] /\ s[i].call \notin Refused
           /\ PassedOn(<<>>) = <<>>
<1>1. PICK g : Filters(s, g) /\ PassedOn(s) = g[Len(s)]
    BY PassedOnIs
<1> DEFINE N == Len(s)
           From(n) == /\ Len(g[n]) <= n
                      /\ \A m \in 1 .. Len(g[n]) : \E i \in 1 .. n :
                            g[n][m] = s[i] /\ s[i].call \notin Refused
           T == {n \in 0 .. N : From(n)}
<1>2. N \in Nat
    OBVIOUS
<1>3. 0 \in T
    <2>1. Len(g[0]) = 0
        BY <1>1 DEF Filters
    <2> QED
        BY <1>2, <2>1
<1>4. ASSUME NEW n \in 0 .. N, n # 0, n - 1 \in T
      PROVE  n \in T
    <2>1. n \in 1 .. N /\ n - 1 \in 0 .. N /\ s[n] \in Frame /\ n \in 1 .. n
        BY <1>4
    <2>2. /\ g[n - 1] \in Seq(Frame) /\ Len(g[n - 1]) <= n - 1
          /\ \A m \in 1 .. Len(g[n - 1]) : \E i \in 1 .. n - 1 :
                g[n - 1][m] = s[i] /\ s[i].call \notin Refused
        BY <1>1, <1>4, <2>1 DEF Filters
    <2>3. \A i \in 1 .. n - 1 : i \in 1 .. n
        BY <2>1
    <2>4. CASE s[n].call \in Refused
        <3>1. g[n] = g[n - 1]
            BY <1>1, <2>1, <2>4 DEF Filters
        <3>2. Len(g[n]) <= n
            BY <2>1, <2>2, <3>1
        <3>3. ASSUME NEW m \in 1 .. Len(g[n])
              PROVE  \E i \in 1 .. n : g[n][m] = s[i] /\ s[i].call \notin Refused
            <4>1. PICK i \in 1 .. n - 1 : g[n - 1][m] = s[i] /\ s[i].call \notin Refused
                BY <2>2, <3>1
            <4> QED
                BY <2>3, <3>1, <4>1
        <3> QED
            BY <3>2, <3>3
    <2>5. CASE s[n].call \notin Refused
        <3>1. g[n] = Append(g[n - 1], s[n])
            BY <1>1, <2>1, <2>5 DEF Filters
        <3>2. /\ Len(g[n]) = Len(g[n - 1]) + 1 /\ g[n][Len(g[n])] = s[n]
              /\ Len(g[n]) <= n
              /\ \A m \in 1 .. Len(g[n]) : m = Len(g[n]) \/ (m \in 1 .. Len(g[n - 1])
                                                             /\ g[n][m] = g[n - 1][m])
            BY <2>1, <2>2, <3>1
        <3>3. ASSUME NEW m \in 1 .. Len(g[n])
              PROVE  \E i \in 1 .. n : g[n][m] = s[i] /\ s[i].call \notin Refused
            <4>1. CASE m = Len(g[n])
                BY <2>1, <2>5, <3>2, <4>1
            <4>2. CASE m \in 1 .. Len(g[n - 1]) /\ g[n][m] = g[n - 1][m]
                <5>1. PICK i \in 1 .. n - 1 : g[n - 1][m] = s[i] /\ s[i].call \notin Refused
                    BY <2>2, <4>2
                <5> QED
                    BY <2>3, <4>2, <5>1
            <4> QED
                BY <3>2, <4>1, <4>2
        <3> QED
            BY <3>2, <3>3
    <2> QED
        BY <2>4, <2>5
<1> HIDE DEF T
<1>5. N \in T
    <2>1. \A n \in 0 .. N : n \in T
        BY <1>2, <1>3, <1>4, UpTo
    <2> QED
        BY <1>2, <2>1
<1>6. PassedOn(s) \in Seq(Frame)
    BY <1>1, <1>2 DEF Filters
<1>7. PassedOn(<<>>) = <<>>
    <2>0. <<>> \in Seq(Frame) /\ Len(<<>>) = 0
        OBVIOUS
    <2>1. PICK h : Filters(<<>>, h) /\ PassedOn(<<>>) = h[Len(<<>>)]
        BY <2>0, PassedOnIs
    <2> QED
        BY <2>0, <2>1 DEF Filters
<1> QED
    BY <1>1, <1>5, <1>6, <1>7 DEF T

(* What a frame adds at the end, ... *)
LEMMA PassedOnAppend ==
    ASSUME NEW s \in Seq(Frame), NEW f \in Frame
    PROVE  PassedOn(Append(s, f)) = IF f.call \in Refused THEN PassedOn(s)
                                    ELSE Append(PassedOn(s), f)
<1> DEFINE N == Len(s)
           t == Append(s, f)
<1>1. N \in Nat /\ t \in Seq(Frame) /\ Len(t) = N + 1 /\ t[N + 1] = f
      /\ \A i \in 1 .. N : t[i] = s[i]
    OBVIOUS
<1>2. PICK g : Filters(s, g) /\ PassedOn(s) = g[N]
    BY PassedOnIs
<1> HIDE DEF t
<1>3. PICK h : Filters(t, h) /\ PassedOn(t) = h[N + 1]
    BY <1>1, PassedOnIs
<1> DEFINE T == {n \in 0 .. N : g[n] = h[n]}
<1>4. 0 \in T
    BY <1>1, <1>2, <1>3 DEF Filters
<1>5. ASSUME NEW n \in 0 .. N, n # 0, n - 1 \in T
      PROVE  n \in T
    <2>1. n \in 1 .. N /\ n \in 1 .. Len(t) /\ t[n] = s[n] /\ g[n - 1] = h[n - 1]
        BY <1>1, <1>5
    <2>2. g[n] = IF s[n].call \in Refused THEN g[n - 1] ELSE Append(g[n - 1], s[n])
        BY <1>2, <2>1 DEF Filters
    <2>3. h[n] = IF t[n].call \in Refused THEN h[n - 1] ELSE Append(h[n - 1], t[n])
        BY <1>3, <2>1 DEF Filters
    <2> QED
        BY <2>1, <2>2, <2>3
<1> HIDE DEF T
<1>6. g[N] = h[N]
    <2>1. \A n \in 0 .. N : n \in T
        BY <1>1, <1>4, <1>5, UpTo
    <2> QED
        BY <1>1, <2>1 DEF T
<1>7. N + 1 \in 1 .. Len(t) /\ (N + 1) - 1 = N
    BY <1>1
<1>8. h[N + 1] = IF t[N + 1].call \in Refused THEN h[N] ELSE Append(h[N], t[N + 1])
    BY <1>3, <1>7 DEF Filters
<1> QED
    BY <1>1, <1>2, <1>3, <1>6, <1>8 DEF t

LEMMA AppendJoined ==
    ASSUME NEW u \in Seq(Frame), NEW v \in Seq(Frame), NEW f \in Frame
    PROVE  Append(u \o v, f) = u \o Append(v, f)
<1> DEFINE l == Append(u \o v, f)
           r == u \o Append(v, f)
<1>1. l \in Seq(Frame) /\ r \in Seq(Frame) /\ Len(l) = Len(r)
    OBVIOUS
<1>2. \A i \in 1 .. Len(l) : l[i] = r[i]
    OBVIOUS
<1> HIDE DEF l, r
<1>3. l = r
    BY <1>1, <1>2, SeqEqual
<1> QED
    BY <1>3 DEF l, r

(* ... and what goes when the first one is taken. *)
LEMMA PassedOnTail ==
    ASSUME NEW s \in Seq(Frame), s # <<>>
    PROVE  IF Head(s).call \in Refused THEN PassedOn(Tail(s)) = PassedOn(s)
           ELSE /\ PassedOn(s) # <<>> /\ Head(PassedOn(s)) = Head(s)
                /\ Tail(PassedOn(s)) = PassedOn(Tail(s))
<1> DEFINE N == Len(s) - 1
           t == Tail(s)
           first == IF s[1].call \in Refused THEN <<>> ELSE <<s[1]>>
<1>1. /\ N \in Nat /\ Len(s) = N + 1 /\ s[1] \in Frame /\ Head(s) = s[1]
      /\ t \in Seq(Frame) /\ Len(t) = N /\ \A i \in 1 .. N : t[i] = s[i + 1]
    OBVIOUS
<1>2. PICK g : Filters(s, g) /\ PassedOn(s) = g[N + 1]
    BY <1>1, PassedOnIs
<1> HIDE DEF t
<1>3. PICK h : Filters(t, h) /\ PassedOn(t) = h[N]
    BY <1>1, PassedOnIs
<1>4. first \in Seq(Frame)
    BY <1>1
<1> DEFINE T == {n \in 0 .. N : g[n + 1] = first \o h[n]}
<1>5. 0 \in T
    <2>1. 1 \in 1 .. Len(s) /\ g[0] = <<>> /\ h[0] = <<>> /\ 0 + 1 = 1 /\ 1 - 1 = 0
        BY <1>1, <1>2, <1>3 DEF Filters
    <2>2. g[1] = IF s[1].call \in Refused THEN g[0] ELSE Append(g[0], s[1])
        BY <1>2, <2>1 DEF Filters
    <2>3. g[1] = first
        BY <1>1, <2>1, <2>2
    <2> HIDE DEF first
    <2>4. first \o <<>> = first
        BY <1>4
    <2>5. 0 \in 0 .. N /\ g[0 + 1] = first \o h[0]
        BY <1>1, <2>1, <2>3, <2>4
    <2> QED
        BY <2>5
<1> HIDE DEF first
<1>6. ASSUME NEW n \in 0 .. N, n # 0, n - 1 \in T
      PROVE  n \in T
    <2>1. /\ n \in 1 .. N /\ n + 1 \in 1 .. Len(s) /\ n \in 1 .. Len(t)
          /\ (n + 1) - 1 = n /\ (n - 1) + 1 = n /\ n - 1 \in 0 .. Len(t)
          /\ t[n] = s[n + 1] /\ t[n] \in Frame /\ g[n] = first \o h[n - 1]
        BY <1>1, <1>6
    <2>2. g[n + 1] = IF s[n + 1].call \in Refused THEN g[n] ELSE Append(g[n], s[n + 1])
        BY <1>2, <2>1 DEF Filters
    <2>3. h[n] = IF t[n].call \in Refused THEN h[n - 1] ELSE Append(h[n - 1], t[n])
        BY <1>3, <2>1 DEF Filters
    <2>4. h[n - 1] \in Seq(Frame)
        BY <1>3, <2>1 DEF Filters
    <2>5. Append(first \o h[n - 1], t[n]) = first \o Append(h[n - 1], t[n])
        BY <1>4, <2>1, <2>4, AppendJoined
    <2> QED
        BY <2>1, <2>2, <2>3, <2>5
<1> HIDE DEF T
<1>7. g[N + 1] = first \o h[N]
    <2>1. \A n \in 0 .. N : n \in T
        BY <1>1, <1>5, <1>6, UpTo
    <2>2. N \in T
        BY <1>1, <2>1
    <2> QED
        BY <2>2 DEF T
<1>8. PassedOn(s) = first \o PassedOn(t) /\ PassedOn(t) \in Seq(Frame)
    BY <1>1, <1>2, <1>3, <1>7, PassedOnTypes
<1>9. CASE Head(s).call \in Refused
    <2>1. first = <<>>
        BY <1>1, <1>9 DEF first
    <2>2. PassedOn(s) = PassedOn(t)
        BY <1>8, <2>1
    <2> QED
        BY <1>9, <2>2 DEF t
<1>10. CASE Head(s).call \notin Refused
    <2>1. first = <<Head(s)>> /\ Head(s) \in Frame
        BY <1>1, <1>10 DEF first
    <2> DEFINE r == PassedOn(t)
    <2>2. r \in Seq(Frame) /\ PassedOn(s) = <<Head(s)>> \o r
        BY <1>8, <2>1
    <2> HIDE DEF r
    <2>3. PassedOn(s) # <<>> /\ Head(PassedOn(s)) = Head(s) /\ Tail(PassedOn(s)) = r
        BY <2>1, <2>2
    <2> QED
        BY <1>10, <2>3 DEF r, t
<1> QED
    BY <1>9, <1>10

-----------------------------------------------------------------------------
(* The operators of the runtime that do not look at the path are the same. *)
LEMMA SameTables ==
    /\ Serving!Corrs = Corrs /\ Serving!NoWork = NoWork /\ Serving!AnyCall = AnyCall
    /\ Serving!Jobs = Jobs /\ Serving!Assemblies = Assemblies
    /\ Serving!vars = <<PassedOn(inbound), outbound,
                       <<sentOn, gaveUp \ Refused, clock, ctxDone, epochChanged>>,
                       mpc, now, assemblies, jobs, done, reply, replies, exit>>
<1>1. Serving!Corrs = Corrs /\ Serving!AnyCall = AnyCall
    BY DEF Serving!Corrs, Corrs, Serving!AnyCall, AnyCall
<1> QED
    BY <1>1 DEF Serving!NoWork, NoWork, Serving!Jobs, Jobs, Serving!Assemblies, Assemblies,
                Serving!vars, Serving!env

LEMMA SameCardinality == \A S : Serving!Cardinality(S) = Cardinality(S)
BY DEF Serving!Cardinality, Cardinality

LEMMA SameChecks ==
    ASSUME NEW f
    PROVE  /\ Serving!Refusal(f) = Refusal(f) /\ (Serving!Final(f) <=> Final(f))
           /\ Serving!Assembled(f) = Assembled(f) /\ Serving!NewWork(f) = NewWork(f)
<1>1. \A c, time : Serving!Expired(c, time) <=> Expired(c, time)
    BY DEF Serving!Expired, Expired
<1>2. Serving!Jobs = Jobs /\ Serving!Assemblies = Assemblies
    BY SameTables
<1>3. /\ Serving!Invalid(f) <=> Invalid(f)
      /\ Serving!NoRoom(f) <=> NoRoom(f)
    BY <1>2, SameCardinality DEF Serving!Invalid, Invalid, Serving!NoRoom, NoRoom
<1>4. /\ Serving!Assembled(f) = Assembled(f) /\ (Serving!Final(f) <=> Final(f))
    BY DEF Serving!Assembled, Assembled, Serving!Final, Final
<1> QED
    BY <1>1, <1>2, <1>3, <1>4, SameCardinality
    DEF Serving!Refusal, Refusal, Serving!NewWork, NewWork

(* A step of the loop is a step of the runtime by itself: when it polls, the frame *)
(* at the head of the path is one that the host passes on.                         *)
LEMMA LoopServes ==
    ASSUME TypeOK, Loop,
           mpc = "poll" /\ ~epochChanged /\ inbound # <<>> => Head(inbound).call \notin Refused
    PROVE  Serving!Loop
<1> USE DEF env, Serving!env, sentOn
<1>1. Drain => Serving!Drain
    BY SameTables
    DEF Drain, Serving!Drain, StartReply, Serving!StartReply
<1>2. CheckCtx => Serving!CheckCtx
    BY SameTables DEF CheckCtx, Serving!CheckCtx
<1>3. Shutdown => Serving!Shutdown
    BY SameTables DEF Shutdown, Serving!Shutdown, Return, Serving!Return
<1>4. SendReply => Serving!SendReply
    BY DEF SendReply, Serving!SendReply, FragmentSent, Serving!FragmentSent,
                ReplyAbandoned, Serving!ReplyAbandoned, Return, Serving!Return
<1>5. PollNothing => Serving!PollNothing
    BY PassedOnTypes DEF PollNothing, Serving!PollNothing, Return, Serving!Return, TypeOK
<1>6. ASSUME NEW type, PollFrame(type)
      PROVE  /\ Serving!PollFrame(type) /\ Head(PassedOn(inbound)) = Head(inbound)
    <2>1. inbound \in Seq(Frame) /\ inbound # <<>> /\ Head(inbound).call \notin Refused
        BY <1>6 DEF PollFrame, TypeOK
    <2>2. /\ PassedOn(inbound) # <<>> /\ Head(PassedOn(inbound)) = Head(inbound)
          /\ Tail(PassedOn(inbound)) = PassedOn(Tail(inbound))
        BY <2>1, PassedOnTail
    <2> QED
        BY <1>6, <2>2 DEF PollFrame, Serving!PollFrame
<1>7. PollCancel => Serving!PollCancel
    BY <1>6, SameTables DEF PollCancel, Serving!PollCancel
<1>8. PollOther => Serving!PollOther
    BY <1>6 DEF PollOther, Serving!PollOther
<1>9. PollRefused => Serving!PollRefused
    BY <1>6, SameChecks
    DEF PollRefused, Serving!PollRefused, StartReply, Serving!StartReply
<1>10. PollFragment => Serving!PollFragment
    BY <1>6, SameChecks DEF PollFragment, Serving!PollFragment
<1>11. PollInvoke => Serving!PollInvoke
    BY <1>6, SameChecks DEF PollInvoke, Serving!PollInvoke
<1> QED
    BY <1>1, <1>2, <1>3, <1>4, <1>5, <1>7, <1>8, <1>9, <1>10, <1>11 DEF Loop, Serving!Loop

LEMMA Stutters ==
    ASSUME UNCHANGED <<outbound, clock, ctxDone, epochChanged, mpc, now, assemblies, jobs,
                       done, reply, replies, exit>>,
           PassedOn(inbound') = PassedOn(inbound),
           \A c \in Calls \ Refused : sent'[c] = sent[c],
           gaveUp' \ Refused = gaveUp \ Refused
    PROVE  UNCHANGED Serving!vars
<1>1. UNCHANGED sentOn
    BY DEF sentOn
<1> QED
    BY <1>1 DEF Serving!vars, Serving!env

(* What the caller sends, the host passes on or keeps for itself. *)
LEMMA SendServes ==
    ASSUME TypeOK, CallerTypes, Send
    PROVE  [Serving!Next]_(Serving!vars)
<1> DEFINE c == current
           f == [type |-> CallOf[c].type, call |-> c, part |-> sent[c] + 1]
<1>1. /\ c \in Calls /\ sent[c] < CallOf[c].frags /\ c \notin gaveUp
      /\ Len(inbound) < InboundCap /\ sent' = [sent EXCEPT ![c] = @ + 1]
      /\ inbound' = Append(inbound, f)
      /\ UNCHANGED <<outbound, gaveUp, clock, ctxDone, epochChanged, mpc, now, assemblies,
                     jobs, done, reply, replies, exit>>
    BY DEF Send, SendFragment, CallerTypes
<1>2. sent \in [Calls -> Nat] /\ inbound \in Seq(Frame) /\ f \in Frame /\ f.call = c
    BY <1>1, ConstantFacts DEF TypeOK, Frame
<1>3. PassedOn(inbound') = IF c \in Refused THEN PassedOn(inbound)
                           ELSE Append(PassedOn(inbound), f)
    BY <1>1, <1>2, PassedOnAppend
<1> HIDE DEF f
<1>4. CASE c \in Refused
    <2>1. \A d \in Calls \ Refused : sent'[d] = sent[d]
        BY <1>1, <1>2, <1>4
    <2> QED
        BY <1>1, <1>3, <1>4, <2>1, Stutters
<1>5. CASE c \notin Refused
    <2>1. sentOn[c] = sent[c] /\ sentOn' = [sentOn EXCEPT ![c] = @ + 1]
        BY <1>1, <1>2, <1>5 DEF sentOn
    <2>2. Len(PassedOn(inbound)) < InboundCap
        <3>1. /\ PassedOn(inbound) \in Seq(Frame) /\ Len(PassedOn(inbound)) <= Len(inbound)
              /\ Len(inbound) \in Nat
            BY <1>2, PassedOnTypes
        <3> QED
            BY <1>1, <3>1, SizesAssumption
    <2>3. Serving!SendFragment(c)
        BY <1>1, <1>3, <1>5, <2>1, <2>2 DEF Serving!SendFragment, f
    <2> QED
        BY <1>1, <2>3 DEF Serving!Next, Serving!Environment
<1> QED
    BY <1>4, <1>5

LEMMA CancelServes ==
    ASSUME TypeOK, CallerTypes, NEW c \in Calls, SendCancel(c)
    PROVE  [Serving!Next]_(Serving!vars)
<1> DEFINE f == [type |-> "cancel", call |-> c, part |-> 0]
<1>1. /\ sent[c] > 0 /\ c \notin gaveUp /\ Len(inbound) < InboundCap
      /\ gaveUp' = gaveUp \cup {c} /\ inbound' = Append(inbound, f)
      /\ UNCHANGED <<outbound, sent, clock, ctxDone, epochChanged, mpc, now, assemblies,
                     jobs, done, reply, replies, exit>>
    BY DEF SendCancel
<1>2. inbound \in Seq(Frame) /\ f \in Frame /\ f.call = c
    BY DEF TypeOK, Frame
<1>3. PassedOn(inbound') = IF c \in Refused THEN PassedOn(inbound)
                           ELSE Append(PassedOn(inbound), f)
    BY <1>1, <1>2, PassedOnAppend
<1> HIDE DEF f
<1>4. CASE c \in Refused
    BY <1>1, <1>3, <1>4, Stutters
<1>5. CASE c \notin Refused
    <2>1. sentOn[c] = sent[c] /\ UNCHANGED sentOn
        BY <1>1, <1>5 DEF sentOn
    <2>2. Len(PassedOn(inbound)) < InboundCap
        <3>1. /\ PassedOn(inbound) \in Seq(Frame) /\ Len(PassedOn(inbound)) <= Len(inbound)
              /\ Len(inbound) \in Nat
            BY <1>2, PassedOnTypes
        <3> QED
            BY <1>1, <3>1, SizesAssumption
    <2>3. gaveUp' \ Refused = (gaveUp \ Refused) \cup {c}
        BY <1>1, <1>5
    <2>4. Serving!SendCancel(c)
        BY <1>1, <1>3, <1>5, <2>1, <2>2, <2>3 DEF Serving!SendCancel, f
    <2> QED
        BY <2>4 DEF Serving!Next, Serving!Environment
<1> QED
    BY <1>4, <1>5

(* Every step of the composition is one of the runtime by itself, or none. *)
LEMMA CallServes ==
    ASSUME TypeOK, CallerTypes, [CallNext]_callVars
    PROVE  [Serving!Next]_(Serving!vars)
<1> USE DEF env, Serving!env, sentOn
<1>1. CASE UNCHANGED vars
    BY <1>1, Stutters DEF vars
<1>2. CASE UNCHANGED callVars
    BY <1>1, <1>2 DEF callVars
<1>3. CASE Begin \/ SendFails \/ AwaitEpoch \/ AwaitDeadline \/ AwaitFrame \/ AwaitCtx
    BY <1>1, <1>3 DEF Begin, SendFails, AwaitEpoch, AwaitDeadline, AwaitFrame, AwaitCtx,
                      AwaitNothing
<1>4. CASE Send
    BY <1>4, SendServes
<1>5. CASE Cancel
    <2>1. current \in Calls
        BY <1>5 DEF Cancel, CallerTypes
    <2> QED
        BY <1>1, <1>5, <2>1, CancelServes DEF Cancel
<1>6. CASE HostRefuses
    <2>1. /\ inbound \in Seq(Frame) /\ inbound # <<>> /\ Head(inbound).call \in Refused
          /\ inbound' = Tail(inbound)
        BY <1>6 DEF HostRefuses, TypeOK
    <2>2. PassedOn(inbound') = PassedOn(inbound)
        BY <2>1, PassedOnTail
    <2> QED
        BY <1>6, <2>2, Stutters DEF HostRefuses, served
<1>7. CASE Relay
    <2>1. Serving!HostTakes
        BY <1>7 DEF Relay, HostTakes, Serving!HostTakes
    <2> QED
        BY <2>1 DEF Serving!Next, Serving!Environment
<1>8. CASE Module
    <2>1. CASE Returned
        BY <1>1, <2>1 DEF Returned
    <2>2. CASE ~Returned
        <3>1. Serving!Loop
            BY <1>8, <2>2, LoopServes DEF Module
        <3> QED
            BY <3>1 DEF Serving!Next
    <2> QED
        BY <2>1, <2>2
<1>9. CASE Idle(HostRestart) \/ Idle(Stop) \/ Idle(Tick)
    <2>1. HostRestart => Serving!HostRestart
        BY DEF HostRestart, Serving!HostRestart
    <2>2. Stop => Serving!Stop
        BY DEF Stop, Serving!Stop
    <2>3. Tick => Serving!Tick
        BY DEF Tick, Serving!Tick
    <2> QED
        BY <1>9, <2>1, <2>2, <2>3 DEF Idle, Serving!Next, Serving!Environment
<1>10. ASSUME NEW k \in Corrs, Idle(Handler(k))
       PROVE  Serving!Next
    <2>1. HandlerReturns(k) => Serving!HandlerReturns(k)
        BY DEF HandlerReturns, Serving!HandlerReturns, Expired, Serving!Expired
    <2>2. Complete(k) => Serving!Complete(k)
        BY DEF Complete, Serving!Complete, Outcome, Serving!Outcome, Expired, Serving!Expired
    <2>3. k \in Serving!Corrs
        BY SameTables
    <2> QED
        BY <1>10, <2>1, <2>2, <2>3 DEF Idle, Handler, Serving!Handler, Serving!Next
<1> QED
    BY <1>2, <1>3, <1>4, <1>5, <1>6, <1>7, <1>8, <1>9, <1>10 DEF CallNext, Caller

LEMMA StartServes ==
    ASSUME CallInit
    PROVE  Serving!Init
<1>1. inbound = <<>> /\ sent = [c \in Calls |-> 0] /\ gaveUp = {}
    BY DEF CallInit, Init
<1>2. PassedOn(inbound) = <<>>
    <2>1. <<>> \in Seq(Frame)
        OBVIOUS
    <2> QED
        BY <1>1, <2>1, PassedOnTypes
<1>3. sentOn = [c \in Calls |-> 0] /\ gaveUp \ Refused = {}
    BY <1>1 DEF sentOn
<1> QED
    BY <1>2, <1>3, SameTables DEF CallInit, Init, Serving!Init

(* The composition implements the runtime: with the caller and the host for its *)
(* environment, the serving side does nothing that it would not do on its own,  *)
(* so what it promises to any environment it promises to the caller.            *)
THEOREM CallImplementsRuntime == CallSpec => ImplementsRuntime
<1>1. CallInit => Serving!Init
    BY StartServes
<1>2. CallInv /\ [CallNext]_callVars => [Serving!Next]_(Serving!vars)
    BY CallServes DEF CallInv
<1> QED
    BY <1>1, <1>2, CallInvHolds, PTL DEF CallSpec, ImplementsRuntime, Serving!Spec

-----------------------------------------------------------------------------
(* What the runtime promises to good callers: this one numbers its calls, and  *)
(* sends valid messages of kinds that are served, or the host refuses them.    *)
(* Its calls follow each other through the ring, so that the module has room   *)
(* for the next one unless too many were given up in the middle.               *)
GoodRequests ==
    \A c \in Calls \ Refused : CallOf[c].kind \in Stages /\ CallOf[c].bad = {}

Runtime == INSTANCE ModuleRuntimeProofs WITH
                inbound <- PassedOn(inbound), sent <- sentOn, gaveUp <- gaveUp \ Refused

RingOrder ==
    /\ \A i, j \in Positions : i < j => inbound[i].call <= inbound[j].call
    /\ \A k \in Assemblies : \A i \in Positions : k <= inbound[i].call

LEMMA RingOrderStep ==
    ASSUME CallInv, RingOrder, [CallNext]_callVars
    PROVE  RingOrder'
<1>0. /\ TypeOK /\ CallerTypes /\ FramesKnown /\ ControlInv /\ inbound \in Seq(Frame)
      /\ sent \in [Calls -> Nat] /\ current \in Nat
    BY DEF CallInv, WhereInv, TypeOK, CallerTypes
<1>1. ASSUME NEW i \in Positions
      PROVE  inbound[i].call \in Calls /\ inbound[i].call \in Nat /\ inbound[i].call <= current
    <2>1. inbound[i].call \in Calls /\ inbound[i].call \in Nat
        BY <1>0, FrameTypes, CallFacts
    <2>2. ~(inbound[i].call > current)
        BY <1>0, <2>1 DEF FramesKnown, Known, ControlInv
    <2> QED
        BY <1>0, <2>1, <2>2
<1>2. Assemblies \subseteq Nat
    BY CallFacts DEF Assemblies
<1>3. \/ Assemblies' \subseteq Assemblies
      \/ /\ inbound # <<>> /\ inbound' = Tail(inbound)
         /\ Assemblies' \subseteq Assemblies \cup {inbound[1].call}
    <2>1. CASE Module /\ Loop
        <3>1. inbound # <<>> /\ PollFragment => inbound' = Tail(inbound) /\ HeadCorr = inbound[1].call
            BY <1>0, <2>1, LoopInbound, CallFacts DEF HeadCorr
        <3>2. PollFragment => inbound # <<>>
            BY DEF PollFragment, PollFrame
        <3> QED
            BY <1>0, <2>1, <3>1, <3>2, LoopAssemblies
    <2>2. CASE ~(Module /\ Loop)
        BY <1>0, <2>2, TablesKept DEF Assemblies
    <2> QED
        BY <2>1, <2>2
<1>4. CASE inbound' = inbound
    <2>1. Assemblies' \subseteq Assemblies
        <3>1. inbound # <<>> => Tail(inbound) # inbound
            <4>1. inbound # <<>> => Len(Tail(inbound)) = Len(inbound) - 1 /\ Len(inbound) \in Nat
                BY <1>0
            <4> QED
                BY <4>1
        <3> QED
            BY <1>3, <1>4, <3>1
    <2> QED
        BY <1>4, <2>1 DEF RingOrder, Positions
<1>5. CASE inbound # <<>> /\ inbound' = Tail(inbound)
    <2>1. /\ 1 \in Positions
          /\ \A i \in Positions' : i \in Nat /\ i >= 1 /\ i + 1 \in Positions
                                   /\ inbound'[i] = inbound[i + 1]
        BY <1>0, <1>5, RingTail
    <2>2. ASSUME NEW i \in Positions', NEW j \in Positions', i < j
          PROVE  inbound'[i].call <= inbound'[j].call
        <3>1. i + 1 < j + 1
            BY <2>1, <2>2
        <3> QED
            BY <2>1, <3>1 DEF RingOrder
    <2>3. ASSUME NEW k \in Assemblies', NEW i \in Positions'
          PROVE  k <= inbound'[i].call
        <3>1. 1 < i + 1
            BY <2>1
        <3>2. k \in Assemblies \/ k = inbound[1].call
            BY <1>3
        <3> QED
            BY <2>1, <3>1, <3>2 DEF RingOrder
    <2> QED
        BY <2>2, <2>3 DEF RingOrder
<1>6. ASSUME NEW f, f.call = current, inbound' = Append(inbound, f), UNCHANGED assemblies
      PROVE  RingOrder'
    <2>1. /\ \A i \in Positions : i \in Positions' /\ inbound'[i] = inbound[i]
          /\ inbound'[Len(inbound) + 1] = f /\ Len(inbound) \in Nat
          /\ \A i \in Positions' : i \in Positions \/ i = Len(inbound) + 1
        BY <1>0, <1>6, RingAppend
    <2>2. \A i \in Positions : i <= Len(inbound) /\ i \in Nat
        BY <2>1 DEF Positions
    <2>3. ASSUME NEW i \in Positions', NEW j \in Positions', i < j
          PROVE  inbound'[i].call <= inbound'[j].call
        <3>1. i \in Positions
            BY <2>1, <2>2, <2>3
        <3>2. CASE j \in Positions
            BY <2>1, <2>3, <3>1, <3>2 DEF RingOrder
        <3>3. CASE j = Len(inbound) + 1
            BY <1>1, <1>6, <2>1, <3>1, <3>3
        <3> QED
            BY <2>1, <3>2, <3>3
    <2>4. ASSUME NEW k \in Assemblies', NEW i \in Positions'
          PROVE  k <= inbound'[i].call
        <3>1. k \in Assemblies /\ k \in Calls /\ k \in Nat
            BY <1>2, <1>6, CallFacts DEF Assemblies
        <3>2. k <= current
            <4>1. sent[k] > 0
                BY <3>1 DEF CallInv, WhereInv, AssembliesKnown, KnownHere, Known
            <4>2. ~(k > current)
                BY <1>0, <3>1, <4>1 DEF ControlInv
            <4> QED
                BY <1>0, <3>1, <4>2
        <3> QED
            BY <1>6, <2>1, <3>1, <3>2 DEF RingOrder
    <2> QED
        BY <2>3, <2>4 DEF RingOrder
<1>7. CASE SendFragment(current) \/ SendCancel(current)
    <2> DEFINE f == [type |-> CallOf[current].type, call |-> current, part |-> sent[current] + 1]
               g == [type |-> "cancel", call |-> current, part |-> 0]
    <2>1. f.call = current /\ g.call = current
        OBVIOUS
    <2>2. UNCHANGED assemblies /\ (inbound' = Append(inbound, f) \/ inbound' = Append(inbound, g))
        BY <1>7 DEF SendFragment, SendCancel
    <2> HIDE DEF f, g
    <2> QED
        BY <1>6, <2>1, <2>2
<1> QED
    BY <1>0, <1>4, <1>5, <1>7, InboundMoves

LEMMA RingOrderHolds == CallSpec => []RingOrder
<1>1. CallInit => RingOrder
    <2> SUFFICES ASSUME CallInit PROVE RingOrder
        OBVIOUS
    <2>1. Positions = {}
        BY DEF CallInit, Init, Positions
    <2> QED
        BY <2>1 DEF RingOrder
<1> QED
    BY <1>1, RingOrderStep, CallInvHolds, PTL DEF CallSpec

(* The frame at the head of what the host passes on is behind refused ones only. *)
LEMMA PassedOnHead ==
    ASSUME NEW s \in Seq(Frame), PassedOn(s) # <<>>
    PROVE  \E j \in 1 .. Len(s) : /\ PassedOn(s)[1] = s[j] /\ s[j].call \notin Refused
                                  /\ \A i \in 1 .. j - 1 : s[i].call \in Refused
<1>1. PICK g : Filters(s, g) /\ PassedOn(s) = g[Len(s)]
    BY PassedOnIs
<1> DEFINE N == Len(s)
           From(n) == IF g[n] = <<>> THEN \A i \in 1 .. n : s[i].call \in Refused
                      ELSE \E j \in 1 .. n : /\ g[n][1] = s[j] /\ s[j].call \notin Refused
                                             /\ \A i \in 1 .. j - 1 : s[i].call \in Refused
           T == {n \in 0 .. N : From(n)}
<1>2. N \in Nat
    OBVIOUS
<1>3. 0 \in T
    <2>1. g[0] = <<>>
        BY <1>1 DEF Filters
    <2> QED
        BY <1>2, <2>1
<1>4. ASSUME NEW n \in 0 .. N, n # 0, n - 1 \in T
      PROVE  n \in T
    <2>1. n \in 1 .. N /\ n - 1 \in 0 .. N /\ n \in 1 .. n /\ \A i \in 1 .. n - 1 : i \in 1 .. n
        BY <1>4
    <2>2. g[n - 1] \in Seq(Frame) /\ s[n] \in Frame
        BY <1>1, <2>1 DEF Filters
    <2>3. From(n - 1)
        BY <1>4
    <2>4. \A i \in 1 .. n : i = n \/ i \in 1 .. n - 1
        BY <2>1
    <2>5. CASE s[n].call \in Refused
        <3>1. g[n] = g[n - 1]
            BY <1>1, <2>1, <2>5 DEF Filters
        <3>2. From(n)
            BY <2>1, <2>3, <2>4, <2>5, <3>1
        <3> QED
            BY <3>2
    <2>6. CASE s[n].call \notin Refused
        <3>1. g[n] = Append(g[n - 1], s[n])
            BY <1>1, <2>1, <2>6 DEF Filters
        <3>2. g[n] # <<>>
            BY <2>2, <3>1
        <3>3. CASE g[n - 1] = <<>>
            <4>1. g[n][1] = s[n]
                BY <2>2, <3>1, <3>3
            <4>2. From(n)
                BY <2>1, <2>3, <2>6, <3>2, <3>3, <4>1
            <4> QED
                BY <4>2
        <3>4. CASE g[n - 1] # <<>>
            <4>1. g[n][1] = g[n - 1][1]
                BY <2>2, <3>1, <3>4
            <4>2. From(n)
                BY <2>1, <2>3, <3>2, <3>4, <4>1
            <4> QED
                BY <4>2
        <3> QED
            BY <3>3, <3>4
    <2> QED
        BY <2>5, <2>6
<1> HIDE DEF T
<1>5. N \in T
    <2>1. \A n \in 0 .. N : n \in T
        BY <1>2, <1>3, <1>4, UpTo
    <2> QED
        BY <1>2, <2>1
<1> QED
    BY <1>1, <1>5 DEF T

(* The runtime by itself, as its own theorems speak of it. *)
LEMMA SameState ==
    /\ Runtime!Corrs = Corrs /\ Runtime!NoWork = NoWork /\ Runtime!AnyCall = AnyCall
    /\ Runtime!Jobs = Jobs /\ Runtime!Assemblies = Assemblies
    /\ Runtime!Frame = Frame /\ Runtime!Fragment = Fragment /\ Runtime!Work = Work
    /\ Runtime!Status = Status
    /\ \A f : Runtime!NoRoom(f) <=> NoRoom(f)
<1>1. Runtime!Corrs = Corrs /\ Runtime!AnyCall = AnyCall
    BY DEF Runtime!Corrs, Corrs, Runtime!AnyCall, AnyCall
<1>2. Runtime!NoWork = NoWork /\ Runtime!Jobs = Jobs /\ Runtime!Assemblies = Assemblies
    BY <1>1 DEF Runtime!NoWork, NoWork, Runtime!Jobs, Jobs, Runtime!Assemblies, Assemblies
<1>3. /\ Runtime!Frame = Frame /\ Runtime!Fragment = Fragment /\ Runtime!Status = Status
    BY DEF Runtime!Frame, Frame, Runtime!Fragment, Fragment, Runtime!Status, Status
<1>4. Runtime!Work = Work
    BY <1>3 DEF Runtime!Work, Work
<1>5. \A S : Runtime!Cardinality(S) = Cardinality(S)
    BY DEF Runtime!Cardinality, Cardinality
<1>6. ASSUME NEW f PROVE Runtime!NoRoom(f) <=> NoRoom(f)
    BY <1>2, <1>5 DEF Runtime!NoRoom, NoRoom
<1> QED
    BY <1>1, <1>2, <1>3, <1>4, <1>6

LEMMA RuntimeAssumptions == Runtime!CallsAssumption /\ Runtime!SizesAssumption
<1>1. Runtime!Call = Call
    BY DEF Runtime!Call, Call, Runtime!Trace, Trace
<1>2. Runtime!IsFiniteSet(Calls) <=> IsFiniteSet(Calls)
    BY DEF Runtime!IsFiniteSet, IsFiniteSet
<1> QED
    BY <1>1, <1>2, SameState, CallsAssumption, SizesAssumption
    DEF Runtime!CallsAssumption, Runtime!SizesAssumption

LEMMA RuntimeTypes ==
    ASSUME TypeOK
    PROVE  Runtime!TypeOK
<1>1. inbound \in Seq(Frame) /\ Len(inbound) <= InboundCap
    BY DEF TypeOK
<1>2. PassedOn(inbound) \in Seq(Frame) /\ Len(PassedOn(inbound)) <= InboundCap
    <2>1. /\ PassedOn(inbound) \in Seq(Frame) /\ Len(PassedOn(inbound)) <= Len(inbound)
          /\ Len(inbound) \in Nat
        BY <1>1, PassedOnTypes
    <2> QED
        BY <1>1, <2>1, SizesAssumption
<1>3. sentOn \in [Calls -> Nat] /\ gaveUp \ Refused \subseteq Calls
    BY DEF TypeOK, sentOn
<1> QED
    BY <1>2, <1>3, SameState DEF TypeOK, Runtime!TypeOK

LEMMA RuntimeMoves ==
    ASSUME TypeOK, CallerTypes, [CallNext]_callVars
    PROVE  [Runtime!Next]_(Runtime!vars)
BY CallServes
DEF Serving!Next, Runtime!Next, Serving!vars, Runtime!vars, Serving!env, Runtime!env,
    Serving!Environment, Runtime!Environment, Serving!SendFragment, Runtime!SendFragment,
    Serving!SendCancel, Runtime!SendCancel, Serving!HostTakes, Runtime!HostTakes,
    Serving!HostRestart, Runtime!HostRestart, Serving!Stop, Runtime!Stop,
    Serving!Tick, Runtime!Tick, Serving!Corrs, Runtime!Corrs,
    Serving!Handler, Runtime!Handler, Serving!HandlerReturns, Runtime!HandlerReturns,
    Serving!Complete, Runtime!Complete, Serving!Outcome, Runtime!Outcome,
    Serving!Expired, Runtime!Expired, Serving!Loop, Runtime!Loop,
    Serving!Drain, Runtime!Drain, Serving!CheckCtx, Runtime!CheckCtx,
    Serving!Shutdown, Runtime!Shutdown, Serving!SendReply, Runtime!SendReply,
    Serving!FragmentSent, Runtime!FragmentSent,
    Serving!ReplyAbandoned, Runtime!ReplyAbandoned, Serving!Return, Runtime!Return,
    Serving!PollNothing, Runtime!PollNothing, Serving!PollFrame, Runtime!PollFrame,
    Serving!PollCancel, Runtime!PollCancel, Serving!PollOther, Runtime!PollOther,
    Serving!PollRefused, Runtime!PollRefused, Serving!PollFragment, Runtime!PollFragment,
    Serving!PollInvoke, Runtime!PollInvoke, Serving!Refusal, Runtime!Refusal,
    Serving!Invalid, Runtime!Invalid, Serving!NoRoom, Runtime!NoRoom,
    Serving!Assembled, Runtime!Assembled, Serving!Final, Runtime!Final,
    Serving!NewWork, Runtime!NewWork, Serving!NoWork, Runtime!NoWork,
    Serving!AnyCall, Runtime!AnyCall, Serving!Jobs, Runtime!Jobs,
    Serving!Assemblies, Runtime!Assemblies, Serving!StartReply, Runtime!StartReply,
    Serving!Returned, Runtime!Returned, Serving!Cardinality, Runtime!Cardinality

(* With fewer requests given up in the middle than there are places, what the *)
(* module is to take next fits: an assembly that stands in its way would have *)
(* frames ahead of that one in the ring, or its caller still sending it.      *)
LEMMA NextFits ==
    ASSUME GoodRequests, CallInv, RingOrder, Cardinality(Abandoned) < moduleMaxInFlight
    PROVE  Runtime!HeadFits
<1> DEFINE f == PassedOn(inbound)[1]
           c == f.call
<1>0. /\ TypeOK /\ ControlInv /\ inbound \in Seq(Frame) /\ current \in Nat /\ FramesKnown
    BY DEF CallInv, TypeOK, CallerTypes, WhereInv
<1> SUFFICES ASSUME PassedOn(inbound) # <<>>
             PROVE  /\ CallOf[c].kind \in Stages /\ f.part \notin CallOf[c].bad
                    /\ CallOf[c].frags <= MaxBody + 1 /\ ~NoRoom(f)
    <2>1. PassedOn(inbound) = <<>> => 1 \notin Runtime!Positions
        BY DEF Runtime!Positions
    <2> QED
        BY <2>1, SameState DEF Runtime!HeadFits
<1>1. PICK j \in Positions : /\ f = inbound[j] /\ c \notin Refused
                             /\ \A i \in 1 .. j - 1 : inbound[i].call \in Refused
    BY <1>0, PassedOnHead DEF Positions
<1> HIDE DEF f
<1>2. c \in Calls /\ c \in Nat /\ CallOf[c].corr = c
    BY <1>0, <1>1, FrameTypes, CallFacts
<1>3. /\ CallOf[c].kind \in Stages /\ f.part \notin CallOf[c].bad
      /\ CallOf[c].frags <= MaxBody + 1
    <2>1. CallOf[c].frags <= MaxBody /\ CallOf[c].frags \in Nat
        BY <1>2, NumberedAssumption, CallFacts
    <2> QED
        BY <1>1, <1>2, <2>1, SizesAssumption DEF GoodRequests
<1>4. c <= current
    <2>1. ~(c > current)
        BY <1>0, <1>1, <1>2 DEF FramesKnown, Known, ControlInv
    <2> QED
        BY <1>0, <1>2, <2>1
<1>5. ~NoRoom(f)
    <2> SUFFICES ASSUME assemblies[c] = <<>>
                 PROVE  Cardinality(Assemblies) < moduleMaxInFlight
        BY <1>2, FiniteTables, SizesAssumption DEF NoRoom
    <2>1. ASSUME NEW k \in Assemblies
          PROVE  k \in Abandoned
        <3>1. /\ k \in Calls /\ k \in Nat /\ k # c /\ k \notin Refused /\ sent[k] > 0
            BY <2>1, CallFacts DEF Assemblies, CallInv, WhereInv, AssembliesKnown, KnownHere, Known
        <3>2. k <= c
            BY <1>1, <2>1 DEF RingOrder
        <3>3. ~InFlight(k)
            <4> SUFFICES ASSUME NEW i \in Positions, inbound[i].call = k
                         PROVE  FALSE
                BY <1>0, <3>1, InFlightIs
            <4>1. ~(i \in 1 .. j - 1)
                BY <1>1, <3>1
            <4>2. i = j \/ j < i
                BY <4>1 DEF Positions
            <4>3. c <= k
                BY <1>1, <1>2, <3>1, <4>2 DEF RingOrder
            <4> QED
                BY <1>2, <3>1, <3>2, <4>3
        <3>4. sent[k] < CallOf[k].frags
            BY <2>1, <3>3 DEF CallInv, MoreComes
        <3>5. k # current
            BY <1>0, <1>2, <1>4, <3>1, <3>2
        <3>6. outcome[k].status = "unsent"
            BY <1>0, <3>1, <3>4, <3>5 DEF ControlInv
        <3> QED
            BY <3>1, <3>6 DEF Abandoned
    <2>2. IsFiniteSet(Abandoned)
        BY CallsAssumption, FS_Subset DEF Abandoned
    <2>3. Cardinality(Assemblies) <= Cardinality(Abandoned) /\ Cardinality(Abandoned) \in Nat
        BY <2>1, <2>2, FS_Subset, FS_CardinalityType
    <2> QED
        BY <2>3, FiniteTables, SizesAssumption
<1> QED
    BY <1>3, <1>5

LEMMA AbandonedGrows ==
    ASSUME CallInv, [CallNext]_callVars
    PROVE  /\ Abandoned \subseteq Abandoned'
           /\ Cardinality(Abandoned)' < moduleMaxInFlight => Cardinality(Abandoned) < moduleMaxInFlight
<1>0. outcome \in [Calls -> Outcomes] /\ ControlInv /\ CallerTypes
    BY DEF CallInv, CallerTypes
<1>1. ASSUME NEW c \in Abandoned
      PROVE  c \in Abandoned'
    <2>1. c \in Calls /\ outcome[c].status = "unsent"
        BY <1>1 DEF Abandoned
    <2>2. c = current => ~Waiting
        BY <1>0, <2>1 DEF ControlInv
    <2>3. CASE SendFails \/ AwaitEpoch \/ AwaitDeadline \/ AwaitCtx
        <3>1. Waiting /\ \E label, status : Ends(label, status, <<>>)
            BY <2>3 DEF SendFails, AwaitEpoch, AwaitDeadline, AwaitCtx, AwaitNothing, Waiting
        <3>2. outcome'[c] = outcome[c]
            BY <1>0, <2>1, <2>2, <3>1 DEF Ends
        <3> QED
            BY <2>1, <3>2 DEF Abandoned
    <2>4. CASE AwaitFrame
        <3>1. Waiting /\ (outcome' = outcome \/ \E label, status, body : Ends(label, status, body))
            BY <2>4 DEF AwaitFrame, Waiting
        <3>2. outcome'[c] = outcome[c]
            BY <1>0, <2>1, <2>2, <3>1 DEF Ends
        <3> QED
            BY <2>1, <3>2 DEF Abandoned
    <2>5. CASE UNCHANGED outcome
        BY <2>1, <2>5 DEF Abandoned
    <2>6. \/ SendFails \/ AwaitEpoch \/ AwaitDeadline \/ AwaitCtx \/ AwaitFrame
          \/ UNCHANGED outcome
        BY DEF CallNext, Caller, Begin, Send, Cancel, Relay, HostRefuses, Module, Idle, caller,
               callVars
    <2> QED
        BY <2>3, <2>4, <2>5, <2>6
<1>2. IsFiniteSet(Abandoned) /\ IsFiniteSet(Abandoned')
    BY CallsAssumption, FS_Subset DEF Abandoned
<1>3. Cardinality(Abandoned) <= Cardinality(Abandoned')
    BY <1>1, <1>2, FS_Subset
<1>4. Cardinality(Abandoned) \in Nat /\ Cardinality(Abandoned') \in Nat
    BY <1>2, FS_CardinalityType
<1> QED
    BY <1>1, <1>3, <1>4, SizesAssumption

ServeInv == Cardinality(Abandoned) < moduleMaxInFlight =>
                /\ Runtime!OrderInv /\ Runtime!StageInv
                /\ AnsweredAtMostOnce /\ WholeBody

LEMMA SamePromises ==
    /\ Runtime!AnsweredAtMostOnce <=> AnsweredAtMostOnce
    /\ Runtime!WholeBody <=> WholeBody
    /\ Runtime!DoneMatchesJobs <=> DoneMatchesJobs
BY SameState DEF Runtime!AnsweredAtMostOnce, AnsweredAtMostOnce, Runtime!WholeBody, WholeBody,
                 Runtime!DoneMatchesJobs, DoneMatchesJobs

LEMMA ServeStep ==
    ASSUME GoodRequests, CallInv, RingOrder, ServeInv, [CallNext]_callVars
    PROVE  ServeInv'
<1> SUFFICES ASSUME Cardinality(Abandoned)' < moduleMaxInFlight
             PROVE  /\ Runtime!OrderInv' /\ Runtime!StageInv'
                    /\ AnsweredAtMostOnce' /\ WholeBody'
    BY DEF ServeInv
<1>1. Cardinality(Abandoned) < moduleMaxInFlight
    BY AbandonedGrows
<1>2. /\ Runtime!OrderInv /\ Runtime!StageInv
      /\ Runtime!AnsweredAtMostOnce /\ Runtime!WholeBody
    BY <1>1, SamePromises DEF ServeInv
<1>3. Runtime!TypeOK /\ Runtime!DoneMatchesJobs /\ [Runtime!Next]_(Runtime!vars)
    BY RuntimeTypes, RuntimeMoves, SamePromises DEF CallInv, InFlightInv
<1>4. Runtime!HeadFits
    BY <1>1, NextFits
<1>5. Runtime!Apart
    BY CallFacts DEF Runtime!Apart
<1>6. Runtime!OrderInv'
    BY <1>2, <1>3, <1>4, <1>5, RuntimeAssumptions, Runtime!OrderStep
    DEF Runtime!CallsAssumption, Runtime!SizesAssumption
<1>7. Runtime!StageInv'
    BY <1>2, <1>3, <1>4, <1>5, RuntimeAssumptions, Runtime!StageStep
    DEF Runtime!CallsAssumption, Runtime!SizesAssumption
<1>8. Runtime!AnsweredAtMostOnce'
    BY <1>2, <1>3, RuntimeAssumptions, Runtime!AnsweredStep
    DEF Runtime!CallsAssumption, Runtime!SizesAssumption
<1>9. Runtime!WholeBody'
    BY <1>2, <1>3, <1>5, RuntimeAssumptions, Runtime!WholeBodyStep
    DEF Runtime!CallsAssumption, Runtime!SizesAssumption
<1>10. AnsweredAtMostOnce' /\ WholeBody'
    <2>1. /\ Runtime!AnsweredAtMostOnce' <=> AnsweredAtMostOnce'
          /\ Runtime!WholeBody' <=> WholeBody'
        BY SamePromises, PTL
    <2> QED
        BY <1>8, <1>9, <2>1
<1> QED
    BY <1>6, <1>7, <1>10

LEMMA ServeInit ==
    ASSUME CallInit
    PROVE  ServeInv
<1>1. Runtime!Init
    BY StartServes DEF Serving!Init, Runtime!Init, Serving!Corrs, Runtime!Corrs,
        Serving!NoWork, Runtime!NoWork, Serving!AnyCall, Runtime!AnyCall
<1>2. /\ Runtime!OrderInv /\ Runtime!StageInv
      /\ Runtime!AnsweredAtMostOnce /\ Runtime!WholeBody
    BY <1>1, RuntimeAssumptions, Runtime!ServedInit
    DEF Runtime!CallsAssumption, Runtime!SizesAssumption
<1> QED
    BY <1>2, SamePromises DEF ServeInv

(* With fewer sends given up in the middle than moduleMaxInFlight, no call is   *)
(* answered twice and every handler gets the whole body of one request: the     *)
(* cancels and the late replies of one call never make the runtime take a piece *)
(* of the next for something else.                                              *)
THEOREM ServedWholeHolds ==
    ASSUME GoodRequests
    PROVE  CallSpec => []ServedWhole
<1>1. CallInit => ServeInv
    BY ServeInit
<1>2. CallInv /\ RingOrder /\ ServeInv /\ [CallNext]_callVars => ServeInv'
    BY ServeStep
<1>3. ServeInv => ServedWhole
    BY DEF ServeInv, ServedWhole
<1> QED
    BY <1>1, <1>2, <1>3, CallInvHolds, RingOrderHolds, PTL DEF CallSpec

(* The other promises of the runtime, made to any environment at all, hold in *)
(* the composition because it implements the runtime: no handler waits to     *)
(* deliver its result, only a restart of the host or a stop that meets a      *)
(* reply waiting for room leaves some behind, and what was cancelled or late  *)
(* is not reported as a success.                                              *)
THEOREM CallKeepsRuntimePromises ==
    CallSpec => [](ResultsNeverBlock /\ HandlersLeftBehind /\ DoomedNeverOk)
<1>1. CallSpec => Runtime!Spec
    <2>1. CallInit => Runtime!Init
        BY StartServes, SameState
        DEF Serving!Init, Runtime!Init, Serving!Corrs, Runtime!Corrs, Serving!NoWork, Runtime!NoWork,
            Serving!AnyCall, Runtime!AnyCall
    <2>2. CallInv /\ [CallNext]_callVars => [Runtime!Next]_(Runtime!vars)
        BY RuntimeMoves DEF CallInv
    <2> QED
        BY <2>1, <2>2, CallInvHolds, PTL DEF CallSpec, Runtime!Spec
<1>2. Runtime!Spec => []Runtime!ResultsNeverBlock
    BY RuntimeAssumptions, Runtime!ResultsNeverBlockHolds
    DEF Runtime!CallsAssumption, Runtime!SizesAssumption
<1>3. Runtime!Spec => []Runtime!HandlersLeftBehind
    BY RuntimeAssumptions, Runtime!HandlersLeftBehindHolds
    DEF Runtime!CallsAssumption, Runtime!SizesAssumption
<1>4. Runtime!Spec => []Runtime!DoomedNeverOk
    BY RuntimeAssumptions, Runtime!DoomedNeverOkHolds
    DEF Runtime!CallsAssumption, Runtime!SizesAssumption
<1>5. /\ Runtime!ResultsNeverBlock <=> ResultsNeverBlock
      /\ Runtime!HandlersLeftBehind <=> HandlersLeftBehind
      /\ Runtime!DoomedNeverOk <=> DoomedNeverOk
    BY SameState DEF Runtime!ResultsNeverBlock, ResultsNeverBlock,
        Runtime!HandlersLeftBehind, HandlersLeftBehind, Runtime!DoomedNeverOk, DoomedNeverOk
<1> QED
    BY <1>1, <1>2, <1>3, <1>4, <1>5, PTL
=============================================================================
