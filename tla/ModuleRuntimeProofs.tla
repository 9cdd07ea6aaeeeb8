------------------------ MODULE ModuleRuntimeProofs ------------------------
(***************************************************************************)
(* Proofs about ModuleRuntime for any calls and any bounds: its types;     *)
(* that no handler waits to hand over its result or is left behind by a    *)
(* stop; that given-up work is no success; and, for callers who keep the   *)
(* rules of the bus, that no call is answered twice and bodies are whole.  *)
(***************************************************************************)
EXTENDS ModuleRuntime, SequenceTheorems, FiniteSetTheorems, TLAPS

LEMMA ConstantFacts ==
    /\ AnyCall \in Calls
    /\ NoWork \in Work
    /\ \A c \in Calls : /\ CallOf[c] \in Call
                        /\ CallOf[c].corr \in Corrs
                        /\ CallOf[c].type \in {"request", "other"}
                        /\ CallOf[c].resp \in Nat \ {0}
<1>1. AnyCall \in Calls
    BY CallsAssumption DEF AnyCall
<1>2. NoWork \in Work
    BY <1>1 DEF NoWork, Work, Status
<1>3. \A c \in Calls : CallOf[c] \in Call
    BY CallsAssumption
<1> QED
    BY <1>1, <1>2, <1>3 DEF Call, Corrs

(* The environment, which only sends frames, takes replies and moves the clock. *)
LEMMA EnvironmentTypes ==
    ASSUME TypeOK, Environment
    PROVE  TypeOK'
<1> USE DEF TypeOK, env
<1>1. ASSUME NEW c \in Calls, SendFragment(c)
      PROVE  TypeOK'
    <2>1. [type |-> CallOf[c].type, call |-> c, part |-> sent[c] + 1] \in Frame
        BY ConstantFacts DEF Frame
    <2>2. inbound' \in Seq(Frame) /\ Len(inbound') <= InboundCap
        BY <1>1, <2>1, SizesAssumption DEF SendFragment
    <2>3. sent' \in [Calls -> Nat]
        BY <1>1 DEF SendFragment
    <2> QED
        BY <1>1, <2>2, <2>3 DEF SendFragment
<1>2. ASSUME NEW c \in Calls, SendCancel(c)
      PROVE  TypeOK'
    <2>1. [type |-> "cancel", call |-> c, part |-> 0] \in Frame
        BY DEF Frame
    <2>2. inbound' \in Seq(Frame) /\ Len(inbound') <= InboundCap
        BY <1>2, <2>1, SizesAssumption DEF SendCancel
    <2>3. gaveUp' \subseteq Calls
        BY <1>2 DEF SendCancel
    <2> QED
        BY <1>2, <2>2, <2>3 DEF SendCancel
<1>3. CASE HostTakes
    BY <1>3, SizesAssumption DEF HostTakes
<1>4. CASE HostRestart
    BY <1>4 DEF HostRestart
<1>5. CASE Stop
    BY <1>5 DEF Stop
<1>6. CASE Tick
    BY <1>6, SizesAssumption DEF Tick
<1> QED
    BY <1>1, <1>2, <1>3, <1>4, <1>5, <1>6 DEF Environment

LEMMA WorkUpdate ==
    ASSUME NEW w \in Work, NEW phase \in {"none", "running", "returned", "done"},
           NEW cancelled \in BOOLEAN, NEW doomed \in BOOLEAN, NEW status \in Status
    PROVE  /\ [w EXCEPT !.phase = phase, !.status = status, !.doomed = doomed] \in Work
           /\ [w EXCEPT !.phase = phase, !.status = status] \in Work
           /\ [w EXCEPT !.cancelled = cancelled] \in Work
BY Zenon DEF Work

LEMMA HandlerTypes ==
    ASSUME TypeOK, NEW k \in Corrs, Handler(k)
    PROVE  TypeOK'
<1> USE DEF TypeOK, env
<1>0. jobs[k] \in Work /\ jobs[k].cancelled \in BOOLEAN /\ jobs[k].status \in Status
    BY DEF Work
<1>1. CASE HandlerReturns(k)
    <2>1. PICK status \in HandlerStatus :
            jobs' = [jobs EXCEPT ![k] =
                        [@ EXCEPT !.phase = "returned", !.status = status,
                              !.doomed = jobs[k].cancelled \/ Expired(jobs[k].call, clock)]]
        BY <1>1 DEF HandlerReturns
    <2>2. status \in Status /\ (jobs[k].cancelled \/ Expired(jobs[k].call, clock)) \in BOOLEAN
        BY SizesAssumption DEF Expired
    <2>3. [jobs[k] EXCEPT !.phase = "returned", !.status = status,
                !.doomed = jobs[k].cancelled \/ Expired(jobs[k].call, clock)] \in Work
        BY <1>0, <2>2, WorkUpdate, Zenon
    <2>4. jobs' \in [Corrs -> Work]
        BY <2>1, <2>3
    <2> QED
        BY <1>1, <2>4 DEF HandlerReturns
<1>2. CASE Complete(k)
    <2>1. Outcome(k) \in Status
        BY <1>0 DEF Outcome, Status
    <2>2. [jobs[k] EXCEPT !.phase = "done", !.status = Outcome(k)] \in Work
        BY <1>0, <2>1, WorkUpdate, Zenon
    <2>3. jobs' \in [Corrs -> Work]
        BY <1>2, <2>2 DEF Complete
    <2>4. done' \in Seq(Corrs)
        BY <1>2 DEF Complete
    <2> QED
        BY <1>2, <2>3, <2>4 DEF Complete
<1> QED
    BY <1>1, <1>2 DEF Handler

LEMMA HeadTail ==
    ASSUME NEW S, NEW s \in Seq(S), s # <<>>
    PROVE  Head(s) \in S /\ Tail(s) \in Seq(S) /\ Len(Tail(s)) = Len(s) - 1
OBVIOUS

LEMMA ReplyType ==
    ASSUME NEW c \in Calls, NEW status \in Status, StartReply(c, status)
    PROVE  reply' \in [call : Calls, status : Status, left : Nat \ {0}]
<1>1. (IF status = "ok" THEN CallOf[c].resp ELSE 1) \in Nat \ {0}
    BY ConstantFacts
<1> QED
    BY <1>1 DEF StartReply

LEMMA LoopTypes ==
    ASSUME TypeOK, Loop
    PROVE  TypeOK'
<1> USE DEF TypeOK, env
<1>1. CASE Drain
    <2>1. CASE done # <<>>
        <3>1. Head(done) \in Corrs /\ Tail(done) \in Seq(Corrs)
            BY <2>1, HeadTail
        <3>2. jobs[Head(done)].call \in Calls /\ jobs[Head(done)].status \in Status
            BY <3>1 DEF Work
        <3>3. reply' \in [call : Calls, status : Status, left : Nat \ {0}] /\ mpc' = "reply"
            BY <1>1, <2>1, <3>2, ReplyType DEF Drain, StartReply
        <3>4. jobs' \in [Corrs -> Work] /\ done' \in Seq(Corrs)
            BY <1>1, <2>1, <3>1, ConstantFacts DEF Drain
        <3> QED
            BY <1>1, <3>3, <3>4 DEF Drain
    <2>2. CASE done = <<>>
        BY <1>1, <2>2 DEF Drain
    <2> QED
        BY <2>1, <2>2
<1>2. CASE CheckCtx
    <2>1. \A k \in Corrs : [jobs[k] EXCEPT !.cancelled = TRUE] \in Work
        BY WorkUpdate, Zenon
    <2>2. CASE jobs' = [k \in Corrs |-> IF k \in Jobs THEN [jobs[k] EXCEPT !.cancelled = TRUE]
                                                       ELSE jobs[k]]
        <3>1. \A k \in Corrs :
                (IF k \in Jobs THEN [jobs[k] EXCEPT !.cancelled = TRUE] ELSE jobs[k]) \in Work
            BY <2>1
        <3>2. jobs' \in [Corrs -> Work]
            BY <2>2, <3>1, Zenon
        <3> QED
            BY <1>2, <3>2 DEF CheckCtx
    <2>3. CASE UNCHANGED jobs
        BY <1>2, <2>3 DEF CheckCtx
    <2> QED
        BY <1>2, <2>2, <2>3 DEF CheckCtx
<1>3. CASE Shutdown
    <2>1. CASE done # <<>> /\ UNCHANGED <<mpc, exit>>
        <3>1. Head(done) \in Corrs /\ Tail(done) \in Seq(Corrs)
            BY <2>1, HeadTail
        <3>2. jobs' \in [Corrs -> Work] /\ done' \in Seq(Corrs)
            BY <1>3, <3>1, ConstantFacts DEF Shutdown
        <3> QED
            BY <1>3, <2>1, <3>2 DEF Shutdown
    <2>2. CASE Return("nil") /\ UNCHANGED <<done, jobs>>
        BY <1>3, <2>2 DEF Shutdown, Return
    <2> QED
        BY <1>3, <2>1, <2>2 DEF Shutdown
<1>4. CASE SendReply
    <2>1. CASE outbound < OutboundCap /\ FragmentSent
        <3>1. outbound' \in 0 .. OutboundCap
            BY <2>1, SizesAssumption DEF FragmentSent
        <3>2. reply' \in [call : Calls, status : Status, left : Nat \ {0}]
            <4>1. CASE reply.left > 1 /\ reply' = [reply EXCEPT !.left = @ - 1]
                <5>1. reply.left - 1 \in Nat \ {0}
                    BY <4>1
                <5> QED
                    BY <4>1, <5>1
            <4>2. CASE UNCHANGED reply
                BY <4>2
            <4> QED
                BY <2>1, <4>1, <4>2 DEF FragmentSent
        <3>3. replies' \in [Calls -> Seq(Status)]
            <4>1. replies[reply.call] \in Seq(Status) /\ reply.status \in Status
                OBVIOUS
            <4>2. Append(replies[reply.call], reply.status) \in Seq(Status)
                BY <4>1
            <4> QED
                BY <2>1, <4>2 DEF FragmentSent
        <3> QED
            BY <1>4, <2>1, <3>1, <3>2, <3>3 DEF SendReply, FragmentSent
    <2>2. CASE ReplyAbandoned
        BY <1>4, <2>2 DEF SendReply, ReplyAbandoned, Return
    <2> QED
        BY <1>4, <2>1, <2>2 DEF SendReply
<1>5. CASE PollNothing
    BY <1>5 DEF PollNothing, Return
<1>6. ASSUME NEW type, PollFrame(type)
      PROVE  /\ inbound # <<>> /\ Head(inbound) \in Frame /\ Head(inbound).call \in Calls
             /\ CallOf[Head(inbound).call].corr \in Corrs
             /\ inbound' \in Seq(Frame) /\ Len(inbound') <= InboundCap
             /\ UNCHANGED <<outbound, env, now, done, replies, exit>>
    <2>1. Head(inbound) \in Frame /\ Tail(inbound) \in Seq(Frame)
          /\ Len(Tail(inbound)) = Len(inbound) - 1
        BY <1>6, HeadTail DEF PollFrame
    <2>2. Head(inbound).call \in Calls
        BY <2>1 DEF Frame
    <2> QED
        BY <1>6, <2>1, <2>2, ConstantFacts, SizesAssumption DEF PollFrame
<1>7. CASE PollCancel
    <2>1. \A k \in Corrs : [jobs[k] EXCEPT !.cancelled = TRUE] \in Work
        BY WorkUpdate, Zenon
    <2>2. jobs' \in [Corrs -> Work] /\ assemblies' \in [Corrs -> Seq(Fragment)]
        BY <1>6, <1>7, <2>1 DEF PollCancel
    <2> QED
        BY <1>6, <1>7, <2>2 DEF PollCancel
<1>8. CASE PollOther
    BY <1>6, <1>8 DEF PollOther
<1>9. CASE PollRefused
    <2>1. Refusal(Head(inbound)) \in Status
        BY <1>9 DEF PollRefused, Refusal, Status
    <2>2. /\ reply' \in [call : Calls, status : Status, left : Nat \ {0}]
          /\ mpc' = "reply"
        BY <1>6, <1>9, <2>1, ReplyType DEF PollRefused, StartReply
    <2>3. assemblies' \in [Corrs -> Seq(Fragment)]
        BY <1>6, <1>9 DEF PollRefused
    <2> QED
        BY <1>6, <1>9, <2>2, <2>3 DEF PollRefused
<1>10. ASSUME inbound # <<>>, Head(inbound) \in Frame,
              CallOf[Head(inbound).call].corr \in Corrs
       PROVE  Assembled(Head(inbound)) \in Seq(Fragment)
    <2>1. [call |-> Head(inbound).call, part |-> Head(inbound).part] \in Fragment
        BY <1>10 DEF Frame, Fragment
    <2>2. assemblies[CallOf[Head(inbound).call].corr] \in Seq(Fragment)
        BY <1>10
    <2> QED
        BY <2>1, <2>2 DEF Assembled
<1>11. CASE PollFragment
    <2>1. assemblies' \in [Corrs -> Seq(Fragment)]
        BY <1>6, <1>10, <1>11 DEF PollFragment
    <2> QED
        BY <1>6, <1>11, <2>1 DEF PollFragment
<1>12. CASE PollInvoke
    <2>1. NewWork(Head(inbound)) \in Work
        <3>1. Assembled(Head(inbound)) \in Seq(Fragment) /\ Head(inbound).call \in Calls
            BY <1>6, <1>10, <1>12 DEF PollInvoke
        <3> QED
            BY <3>1 DEF NewWork, Work, Status
    <2>2. jobs' \in [Corrs -> Work] /\ assemblies' \in [Corrs -> Seq(Fragment)]
        BY <1>6, <1>12, <2>1 DEF PollInvoke
    <2> QED
        BY <1>6, <1>12, <2>2 DEF PollInvoke
<1> QED
    BY <1>1, <1>2, <1>3, <1>4, <1>5, <1>7, <1>8, <1>9, <1>11, <1>12 DEF Loop

LEMMA RuntimeInit == Init => TypeOK
<1> SUFFICES ASSUME Init PROVE TypeOK
    OBVIOUS
<1>1. reply \in [call : Calls, status : Status, left : Nat \ {0}]
    BY ConstantFacts DEF Init, Status
<1>2. jobs \in [Corrs -> Work]
    BY ConstantFacts DEF Init
<1>3. /\ inbound \in Seq(Frame) /\ Len(inbound) <= InboundCap
      /\ outbound \in 0 .. OutboundCap /\ clock \in 0 .. MaxClock /\ now \in 0 .. MaxClock
    BY SizesAssumption DEF Init
<1>4. /\ assemblies \in [Corrs -> Seq(Fragment)] /\ done \in Seq(Corrs)
      /\ replies \in [Calls -> Seq(Status)] /\ sent \in [Calls -> Nat]
    BY DEF Init
<1> QED
    BY <1>1, <1>2, <1>3, <1>4 DEF Init, TypeOK

LEMMA RuntimeStep ==
    ASSUME TypeOK, [Next]_vars
    PROVE  TypeOK'
<1>1. CASE Environment
    BY <1>1, EnvironmentTypes
<1>2. CASE \E k \in Corrs : Handler(k)
    BY <1>2, HandlerTypes
<1>3. CASE Loop
    BY <1>3, LoopTypes
<1>4. CASE UNCHANGED vars
    BY <1>4 DEF vars, env, TypeOK
<1> QED
    BY <1>1, <1>2, <1>3, <1>4 DEF Next, Returned

(* Type correctness of the runtime: every queue keeps within its bound. *)
THEOREM RuntimeTypeCorrect == Spec => []TypeOK
BY RuntimeInit, RuntimeStep, PTL DEF Spec

-----------------------------------------------------------------------------
LEMMA FiniteTables ==
    /\ IsFiniteSet(Corrs)
    /\ IsFiniteSet(Jobs) /\ IsFiniteSet(Assemblies)
    /\ Cardinality(Jobs) \in Nat /\ Cardinality(Assemblies) \in Nat
<1>1. IsFiniteSet({CallOf[c].corr : c \in Calls})
    <2> DEFINE Corr(c) == CallOf[c].corr
               f == [c \in Calls |-> Corr(c)]
    <2>1. f \in Surjection(Calls, {CallOf[c].corr : c \in Calls})
        BY DEF Surjection
    <2> QED
        BY <2>1, CallsAssumption, FS_Surjection
<1>2. IsFiniteSet(Corrs)
    BY <1>1 DEF Corrs
<1>3. Jobs \subseteq Corrs /\ Assemblies \subseteq Corrs
    BY DEF Jobs, Assemblies
<1>4. IsFiniteSet(Jobs) /\ IsFiniteSet(Assemblies)
    BY <1>2, <1>3, FS_Subset
<1> QED
    BY <1>2, <1>4, FS_CardinalityType

(* Steps that change neither the phase of a job nor the channel. *)
LEMMA SamePhases ==
    ASSUME TypeOK, DoneMatchesJobs, UNCHANGED done,
           \A k \in Corrs : jobs'[k].phase = jobs[k].phase
    PROVE  DoneMatchesJobs' /\ Jobs' = Jobs
<1>1. \A i \in 1 .. Len(done) : done[i] \in Corrs
    BY DEF TypeOK
<1> QED
    BY <1>1 DEF DoneMatchesJobs, Jobs

(* A job is finished and put into the channel. *)
LEMMA DonePut ==
    ASSUME TypeOK, DoneMatchesJobs, NEW k \in Corrs, jobs[k].phase = "returned",
           done' = Append(done, k), jobs'[k].phase = "done",
           \A l \in Corrs : l # k => jobs'[l].phase = jobs[l].phase
    PROVE  DoneMatchesJobs' /\ Jobs' = Jobs
<1>1. done \in Seq(Corrs) /\ Len(done) \in Nat
    BY DEF TypeOK
<1>2. \A i \in 1 .. Len(done) : done[i] \in Corrs /\ done[i] # k
    BY <1>1 DEF DoneMatchesJobs
<1>3. /\ Len(done') = Len(done) + 1
      /\ \A i \in 1 .. Len(done) : done'[i] = done[i]
      /\ done'[Len(done) + 1] = k
    BY <1>1
<1>4. \A i \in 1 .. Len(done') : i \in 1 .. Len(done) \/ i = Len(done) + 1
    BY <1>1, <1>3
<1>5. \A i \in 1 .. Len(done') : jobs'[done'[i]].phase = "done"
    BY <1>2, <1>3, <1>4 DEF DoneMatchesJobs
<1>6. \A i, j \in 1 .. Len(done') : i # j => done'[i] # done'[j]
    BY <1>2, <1>3, <1>4 DEF DoneMatchesJobs
<1>7. ASSUME NEW l \in Corrs, jobs'[l].phase = "done"
      PROVE  \E i \in 1 .. Len(done') : done'[i] = l
    <2>1. CASE l = k
        <3>1. Len(done) + 1 \in 1 .. Len(done')
            BY <1>1, <1>3
        <3> QED
            BY <1>3, <2>1, <3>1
    <2>2. CASE l # k
        <3>1. PICK i \in 1 .. Len(done) : done[i] = l
            BY <1>7, <2>2 DEF DoneMatchesJobs
        <3>2. i \in 1 .. Len(done')
            BY <1>1, <1>3
        <3> QED
            BY <1>3, <3>1, <3>2
    <2> QED
        BY <2>1, <2>2
<1>8. Jobs' = Jobs
    BY DEF Jobs
<1> QED
    BY <1>5, <1>6, <1>7, <1>8 DEF DoneMatchesJobs

(* The loop takes the oldest result and forgets its job. *)
LEMMA DoneTake ==
    ASSUME TypeOK, DoneMatchesJobs, done # <<>>, done' = Tail(done),
           jobs' = [jobs EXCEPT ![Head(done)] = NoWork]
    PROVE  DoneMatchesJobs' /\ Jobs' \subseteq Jobs
<1>1. done \in Seq(Corrs) /\ Len(done) \in Nat /\ Len(done) > 0 /\ Head(done) = done[1]
      /\ jobs \in [Corrs -> Work]
    BY DEF TypeOK
<1>2. Head(done) \in Corrs
    BY <1>1
<1>3. jobs'[Head(done)].phase = "none"
    BY <1>1, <1>2 DEF NoWork
<1>4. \A l \in Corrs : l # Head(done) => jobs'[l] = jobs[l]
    BY <1>1
<1>5. Len(done') = Len(done) - 1 /\ \A i \in 1 .. Len(done) - 1 : done'[i] = done[i + 1]
    BY <1>1
<1>6. \A i \in 1 .. Len(done') : i + 1 \in 1 .. Len(done) /\ i + 1 # 1
    BY <1>1, <1>5
<1>7. \A i \in 1 .. Len(done') : done'[i] \in Corrs /\ done'[i] # Head(done)
    <2> TAKE i \in 1 .. Len(done')
    <2>1. done'[i] = done[i + 1] /\ 1 \in 1 .. Len(done)
        BY <1>1, <1>5
    <2>2. done[i + 1] \in Corrs
        BY <1>1, <1>6
    <2> QED
        BY <1>1, <1>6, <2>1, <2>2 DEF DoneMatchesJobs
<1>8. \A i \in 1 .. Len(done') : jobs'[done'[i]].phase = "done"
    BY <1>4, <1>5, <1>6, <1>7 DEF DoneMatchesJobs
<1>9. \A i, j \in 1 .. Len(done') : i # j => done'[i] # done'[j]
    <2> TAKE i, j \in 1 .. Len(done')
    <2>1. i # j => i + 1 # j + 1
        OBVIOUS
    <2> QED
        BY <1>5, <1>6, <2>1 DEF DoneMatchesJobs
<1>10. ASSUME NEW l \in Corrs, jobs'[l].phase = "done"
       PROVE  \E i \in 1 .. Len(done') : done'[i] = l
    <2>1. l # Head(done)
        BY <1>3, <1>10
    <2>2. PICK j \in 1 .. Len(done) : done[j] = l
        BY <1>4, <1>10, <2>1 DEF DoneMatchesJobs
    <2>3. j # 1
        BY <1>1, <2>1, <2>2
    <2>4. j - 1 \in 1 .. Len(done') /\ j - 1 \in 1 .. Len(done) - 1 /\ (j - 1) + 1 = j
        BY <1>1, <1>5, <2>3
    <2> QED
        BY <1>5, <2>2, <2>4
<1>11. Jobs' \subseteq Jobs
    BY <1>3, <1>4 DEF Jobs
<1> QED
    BY <1>8, <1>9, <1>10, <1>11 DEF DoneMatchesJobs

LEMMA SmallerTable ==
    ASSUME NEW S, NEW T, T \subseteq S, IsFiniteSet(S), Cardinality(S) <= moduleMaxInFlight
    PROVE  Cardinality(T) <= moduleMaxInFlight
<1>1. IsFiniteSet(T) /\ Cardinality(T) <= Cardinality(S)
    BY FS_Subset
<1>2. Cardinality(T) \in Nat /\ Cardinality(S) \in Nat
    BY <1>1, FS_CardinalityType
<1> QED
    BY <1>1, <1>2, SizesAssumption

LEMMA LargerTable ==
    ASSUME NEW S, NEW T, NEW k, T = S \cup {k}, IsFiniteSet(S),
           Cardinality(S) < moduleMaxInFlight
    PROVE  Cardinality(T) <= moduleMaxInFlight
<1>1. Cardinality(S) \in Nat
    BY FS_CardinalityType
<1>2. Cardinality(T) = Cardinality(S) \/ Cardinality(T) = Cardinality(S) + 1
    BY FS_AddElement
<1> QED
    BY <1>1, <1>2, SizesAssumption

LEMMA InFlightStep ==
    ASSUME TypeOK, TypeOK', InFlightInv, [Next]_vars
    PROVE  InFlightInv'
<1> USE DEF env
<1>0. jobs \in [Corrs -> Work] /\ assemblies \in [Corrs -> Seq(Fragment)] /\ done \in Seq(Corrs)
    BY DEF TypeOK
<1>a. ASSUME DoneMatchesJobs', Jobs' \subseteq Jobs, Assemblies' \subseteq Assemblies
      PROVE  InFlightInv'
    BY <1>a, FiniteTables, SmallerTable DEF InFlightInv
<1>b. ASSUME UNCHANGED <<jobs, done>>
      PROVE  DoneMatchesJobs' /\ Jobs' = Jobs
    BY <1>b, SamePhases DEF InFlightInv
<1>c. ASSUME UNCHANGED assemblies
      PROVE  Assemblies' = Assemblies
    BY <1>c DEF Assemblies
<1>1. CASE Environment
    <2>1. UNCHANGED <<jobs, done, assemblies>>
        BY <1>1 DEF Environment, SendFragment, SendCancel, HostTakes, HostRestart, Stop, Tick
    <2> QED
        BY <2>1, <1>a, <1>b, <1>c
<1>2. ASSUME NEW k \in Corrs, HandlerReturns(k)
      PROVE  InFlightInv'
    <2>1. /\ jobs[k].phase = "running" /\ jobs'[k].phase = "returned"
          /\ \A l \in Corrs : l # k => jobs'[l] = jobs[l]
          /\ UNCHANGED <<done, assemblies>>
        BY <1>0, <1>2 DEF HandlerReturns, Work
    <2>2. Jobs' = Jobs
        BY <2>1 DEF Jobs
    <2>3. \A i \in 1 .. Len(done) : done[i] \in Corrs /\ done[i] # k
        BY <1>0, <2>1 DEF InFlightInv, DoneMatchesJobs
    <2>4. DoneMatchesJobs'
        BY <2>1, <2>3 DEF InFlightInv, DoneMatchesJobs
    <2> QED
        BY <1>a, <1>c, <2>1, <2>2, <2>4
<1>3. ASSUME NEW k \in Corrs, Complete(k)
      PROVE  InFlightInv'
    <2>1. /\ jobs[k].phase = "returned" /\ jobs'[k].phase = "done"
          /\ \A l \in Corrs : l # k => jobs'[l].phase = jobs[l].phase
          /\ done' = Append(done, k) /\ UNCHANGED assemblies
        BY <1>0, <1>3 DEF Complete, Work
    <2>2. DoneMatchesJobs' /\ Jobs' = Jobs
        BY <2>1, DonePut DEF InFlightInv
    <2> QED
        BY <1>a, <1>c, <2>1, <2>2
<1>4. CASE Drain
    <2>1. CASE done # <<>>
        BY <1>4, <2>1, <1>a, <1>c, DoneTake DEF Drain, InFlightInv
    <2>2. CASE done = <<>>
        BY <1>4, <2>2, <1>a, <1>b, <1>c DEF Drain
    <2> QED
        BY <2>1, <2>2
<1>5. CASE CheckCtx
    <2>1. \A k \in Corrs : jobs'[k].phase = jobs[k].phase
        BY <1>0, <1>5 DEF CheckCtx, Work
    <2>2. DoneMatchesJobs' /\ Jobs' = Jobs
        BY <1>5, <2>1, SamePhases DEF CheckCtx, InFlightInv
    <2> QED
        BY <1>5, <2>2, <1>a, <1>c DEF CheckCtx
<1>6. CASE Shutdown
    <2>1. CASE done # <<>> /\ done' = Tail(done) /\ jobs' = [jobs EXCEPT ![Head(done)] = NoWork]
        BY <1>6, <2>1, <1>a, <1>c, DoneTake DEF Shutdown, InFlightInv
    <2>2. CASE UNCHANGED <<done, jobs>>
        BY <1>6, <2>2, <1>a, <1>b, <1>c DEF Shutdown
    <2> QED
        BY <1>6, <2>1, <2>2 DEF Shutdown
<1>7. CASE SendReply
    BY <1>7, <1>a, <1>b, <1>c DEF SendReply
<1>8. CASE PollNothing
    BY <1>8, <1>a, <1>b, <1>c DEF PollNothing
<1>9. ASSUME NEW type, PollFrame(type)
      PROVE  CallOf[Head(inbound).call].corr \in Corrs /\ UNCHANGED done
    <2>1. Head(inbound) \in Frame
        BY <1>9, HeadTail DEF PollFrame, TypeOK
    <2> QED
        BY <1>9, <2>1, ConstantFacts DEF PollFrame, Frame
<1>10. CASE PollCancel
    <2>1. \A k \in Corrs : jobs'[k].phase = jobs[k].phase
        BY <1>0, <1>9, <1>10 DEF PollCancel, Work
    <2>2. DoneMatchesJobs' /\ Jobs' = Jobs
        BY <1>9, <1>10, <2>1, SamePhases DEF PollCancel, InFlightInv
    <2>3. Assemblies' \subseteq Assemblies
        BY <1>0, <1>9, <1>10 DEF PollCancel, Assemblies
    <2> QED
        BY <2>2, <2>3, <1>a
<1>11. CASE PollOther
    BY <1>11, <1>9, <1>a, <1>b, <1>c DEF PollOther
<1>12. CASE PollRefused
    <2>1. Assemblies' \subseteq Assemblies
        BY <1>0, <1>9, <1>12 DEF PollRefused, Assemblies
    <2> QED
        BY <1>12, <2>1, <1>9, <1>a, <1>b DEF PollRefused
<1>13. CASE PollFragment
    <2> DEFINE k == CallOf[Head(inbound).call].corr
    <2>1. k \in Corrs /\ UNCHANGED <<jobs, done>>
        BY <1>9, <1>13 DEF PollFragment
    <2>2. DoneMatchesJobs' /\ Jobs' = Jobs
        BY <1>b, <2>1
    <2>3. ~NoRoom(Head(inbound))
        BY <1>13 DEF PollFragment, Refusal
    <2>4. \A l \in Corrs : l # k => assemblies'[l] = assemblies[l]
        BY <1>0, <1>13 DEF PollFragment
    <2>5. CASE k \in Assemblies
        <3>1. Assemblies' \subseteq Assemblies
            BY <2>4, <2>5 DEF Assemblies
        <3> QED
            BY <1>a, <2>2, <3>1
    <2>6. CASE k \notin Assemblies
        <3>1. Cardinality(Assemblies) < moduleMaxInFlight
            BY <2>1, <2>3, <2>6, FiniteTables, SizesAssumption DEF NoRoom, Assemblies
        <3>2. Assemblies' \subseteq Assemblies \cup {k}
            BY <2>4 DEF Assemblies
        <3>3. /\ Cardinality(Assemblies \cup {k}) <= moduleMaxInFlight
              /\ IsFiniteSet(Assemblies \cup {k})
            <4> HIDE DEF k
            <4>1. Cardinality(Assemblies \cup {k}) <= moduleMaxInFlight
                BY <3>1, FiniteTables, LargerTable
            <4> QED
                BY <4>1, FiniteTables, FS_AddElement
        <3>4. Cardinality(Assemblies') <= moduleMaxInFlight
            BY <3>2, <3>3, SmallerTable
        <3>5. Cardinality(Jobs') <= moduleMaxInFlight
            BY <2>2 DEF InFlightInv
        <3> QED
            BY <2>2, <3>4, <3>5 DEF InFlightInv
    <2> QED
        BY <2>5, <2>6
<1>14. CASE PollInvoke
    <2> DEFINE k == CallOf[Head(inbound).call].corr
    <2>1. k \in Corrs /\ UNCHANGED done
        BY <1>9, <1>14 DEF PollInvoke
    <2>2. k \notin Jobs /\ ~(Cardinality(Jobs) >= moduleMaxInFlight)
        BY <1>14 DEF PollInvoke, Refusal, Invalid
    <2>3. Cardinality(Jobs) < moduleMaxInFlight
        BY <2>2, FiniteTables, SizesAssumption
    <2>4. jobs[k].phase = "none" /\ jobs'[k].phase = "running"
          /\ \A l \in Corrs : l # k => jobs'[l] = jobs[l]
        BY <1>0, <1>14, <2>1, <2>2 DEF PollInvoke, NewWork, Jobs
    <2>5. Jobs' = Jobs \cup {k}
        BY <2>1, <2>4 DEF Jobs
    <2>6. Cardinality(Jobs') <= moduleMaxInFlight
        BY <2>3, <2>5, FiniteTables, LargerTable
    <2>7. \A i \in 1 .. Len(done) : done[i] \in Corrs /\ done[i] # k
        BY <1>0, <2>4 DEF InFlightInv, DoneMatchesJobs
    <2>8. DoneMatchesJobs'
        BY <2>1, <2>4, <2>7 DEF InFlightInv, DoneMatchesJobs
    <2>9. Assemblies' \subseteq Assemblies
        BY <1>0, <1>14, <2>1 DEF PollInvoke, Assemblies
    <2>10. Cardinality(Assemblies') <= moduleMaxInFlight
        BY <2>9, FiniteTables, SmallerTable DEF InFlightInv
    <2> QED
        BY <2>6, <2>8, <2>10 DEF InFlightInv
<1>15. CASE UNCHANGED vars
    BY <1>15, <1>a, <1>b, <1>c DEF vars
<1> QED
    BY <1>1, <1>2, <1>3, <1>4, <1>5, <1>6, <1>7, <1>8, <1>10, <1>11, <1>12, <1>13, <1>14, <1>15
    DEF Next, Handler, Loop, Returned

LEMMA InFlightInit == Init => InFlightInv
<1> SUFFICES ASSUME Init PROVE InFlightInv
    OBVIOUS
<1>1. Jobs = {} /\ Assemblies = {}
    BY DEF Init, Jobs, Assemblies, NoWork
<1>2. Cardinality({}) = 0
    BY FS_EmptySet
<1>3. DoneMatchesJobs
    BY DEF Init, DoneMatchesJobs, NoWork
<1> QED
    BY <1>1, <1>2, <1>3, SizesAssumption DEF InFlightInv

(* The channel holds every finished job once, and there are at most           *)
(* moduleMaxInFlight jobs, so the invariant that bounds done is inductive.    *)
THEOREM InFlightHolds == Spec => []InFlightInv
BY InFlightInit, InFlightStep, RuntimeTypeCorrect, PTL DEF Spec

(* A handler that has returned finds room in done, whatever the loop does: *)
(* the send at the end of runHandler does not block.                       *)
THEOREM ResultsNeverBlockHolds == Spec => []ResultsNeverBlock
<1>1. TypeOK /\ InFlightInv => ResultsNeverBlock
    <2> SUFFICES ASSUME TypeOK, InFlightInv, NEW k \in Corrs, jobs[k].phase = "returned"
                 PROVE  Len(done) < moduleMaxInFlight
        BY DEF ResultsNeverBlock
    <2>1. done \in Seq(Corrs) /\ Len(done) \in Nat
        BY DEF TypeOK
    <2>2. \A i \in 1 .. Len(done) : done[i] \in Jobs \ {k}
        BY <2>1 DEF InFlightInv, DoneMatchesJobs, Jobs
    <2>3. [i \in 1 .. Len(done) |-> done[i]] \in Injection(1 .. Len(done), Jobs \ {k})
        BY <2>2 DEF InFlightInv, DoneMatchesJobs, Injection, IsInjective
    <2>4. k \in Jobs
        BY DEF Jobs
    <2>5. IsFiniteSet(Jobs \ {k}) /\ Cardinality(Jobs \ {k}) = Cardinality(Jobs) - 1
        BY <2>4, FiniteTables, FS_RemoveElement
    <2>6. Cardinality(1 .. Len(done)) <= Cardinality(Jobs \ {k})
        BY <2>3, <2>5, FS_Injection
    <2>7. Cardinality(1 .. Len(done)) = Len(done)
        BY <2>1, FS_Interval
    <2> QED
        BY <2>1, <2>5, <2>6, <2>7, FiniteTables, SizesAssumption DEF InFlightInv
<1> QED
    BY <1>1, RuntimeTypeCorrect, InFlightHolds, PTL

(* Whatever the callers, the host and the handlers do, runModuleClient leaves  *)
(* handlers running only when the host has restarted, or when it was told to   *)
(* stop while a reply waited for room and returns the error of that reply.     *)
THEOREM HandlersLeftBehindHolds == Spec => []HandlersLeftBehind
<1>1. Init => HandlersLeftBehind
    BY DEF Init, HandlersLeftBehind
<1>2. TypeOK /\ HandlersLeftBehind /\ [Next]_vars => HandlersLeftBehind'
    <2> SUFFICES ASSUME TypeOK, HandlersLeftBehind, [Next]_vars PROVE HandlersLeftBehind'
        OBVIOUS
    <2> USE DEF env
    <2>1. CASE Environment
        <3>1. UNCHANGED <<jobs, exit, mpc>>
            BY <2>1 DEF Environment, SendFragment, SendCancel, HostTakes, HostRestart, Stop, Tick
        <3>2. /\ epochChanged' = epochChanged \/ epochChanged' = TRUE
              /\ ctxDone' = ctxDone \/ ctxDone' = TRUE
            BY <2>1 DEF Environment, SendFragment, SendCancel, HostTakes, HostRestart, Stop, Tick
        <3>3. Jobs' = Jobs
            BY <3>1 DEF Jobs
        <3>4. mpc' = "returned" /\ Jobs' # {} => epochChanged \/ (ctxDone /\ exit' = "error")
            BY <3>1, <3>3 DEF HandlersLeftBehind
        <3>5. epochChanged => epochChanged'
            BY <3>2, Zenon
        <3>6. ctxDone => ctxDone'
            BY <3>2, Zenon
        <3> QED
            BY <3>4, <3>5, <3>6, Zenon DEF HandlersLeftBehind
    <2>2. ASSUME NEW k \in Corrs, Handler(k)
          PROVE  HandlersLeftBehind'
        <3>1. UNCHANGED <<exit, epochChanged, ctxDone, mpc>> /\ Jobs # {}
            BY <2>2 DEF Handler, HandlerReturns, Complete, Jobs
        <3> QED
            BY <3>1 DEF HandlersLeftBehind
    <2>3. CASE Loop /\ mpc # "returned"
        <3>1. CASE Shutdown
            BY <2>3, <3>1 DEF Shutdown, Return, HandlersLeftBehind, Jobs
        <3>2. CASE PollNothing
            BY <2>3, <3>2 DEF PollNothing, Return, HandlersLeftBehind
        <3>3. CASE SendReply
            BY <2>3, <3>3
            DEF SendReply, FragmentSent, ReplyAbandoned, Return, HandlersLeftBehind
        <3>4. CASE ~Shutdown /\ ~PollNothing /\ ~SendReply
            <4>1. mpc' # "returned"
                BY <2>3, <3>4
                DEF Loop, Drain, CheckCtx, StartReply, PollFrame, PollCancel, PollOther,
                    PollRefused, PollFragment, PollInvoke
            <4> QED
                BY <4>1 DEF HandlersLeftBehind
        <3> QED
            BY <3>1, <3>2, <3>3, <3>4
    <2>4. CASE Loop /\ mpc = "returned"
        BY <2>4 DEF Loop, Drain, CheckCtx, Shutdown, SendReply, PollNothing, PollFrame,
                    PollCancel, PollOther, PollRefused, PollFragment, PollInvoke
    <2>5. CASE UNCHANGED vars
        BY <2>5 DEF vars, HandlersLeftBehind, Jobs
    <2> QED
        BY <2>1, <2>2, <2>3, <2>4, <2>5 DEF Next, Returned
<1> QED
    BY <1>1, <1>2, RuntimeTypeCorrect, PTL DEF Spec

LEMMA DoomedStep ==
    ASSUME TypeOK, TypeOK', StillDoomed, DoomedNeverOk, [Next]_vars
    PROVE  StillDoomed' /\ DoomedNeverOk'
<1> USE DEF env
<1>0. /\ jobs \in [Corrs -> Work] /\ jobs' \in [Corrs -> Work]
      /\ clock \in Nat /\ clock' \in Nat
      /\ \A k \in Corrs : CallOf[jobs[k].call].deadline \in Nat
    <2>1. jobs \in [Corrs -> Work] /\ jobs' \in [Corrs -> Work]
        BY DEF TypeOK
    <2>2. clock \in Nat /\ clock' \in Nat
        BY SizesAssumption DEF TypeOK
    <2>3. ASSUME NEW k \in Corrs
          PROVE  CallOf[jobs[k].call].deadline \in Nat
        <3>1. jobs[k].call \in Calls
            BY <2>1 DEF Work
        <3> QED
            BY <3>1, ConstantFacts DEF Call
    <2> QED
        BY <2>1, <2>2, <2>3
<1>a. ASSUME NEW k \in Corrs, jobs'[k] = jobs[k], clock' >= clock
      PROVE  /\ jobs'[k].phase = "returned" /\ jobs'[k].doomed =>
                    jobs'[k].cancelled \/ Expired(jobs'[k].call, clock')
             /\ jobs'[k].phase = "done" /\ jobs'[k].doomed => jobs'[k].status # "ok"
    <2>1. Expired(jobs[k].call, clock) => Expired(jobs[k].call, clock')
        BY <1>0, <1>a DEF Expired
    <2> QED
        BY <1>a, <2>1, Zenon DEF StillDoomed, DoomedNeverOk
<1>b. ASSUME UNCHANGED jobs, clock' >= clock
      PROVE  StillDoomed' /\ DoomedNeverOk'
    <2>1. ASSUME NEW k \in Corrs
          PROVE  /\ jobs'[k].phase = "returned" /\ jobs'[k].doomed =>
                        jobs'[k].cancelled \/ Expired(jobs'[k].call, clock')
                 /\ jobs'[k].phase = "done" /\ jobs'[k].doomed => jobs'[k].status # "ok"
        BY <1>a, <1>b
    <2> QED
        BY <2>1, Zenon DEF StillDoomed, DoomedNeverOk, Expired
<1>c. ASSUME UNCHANGED clock
      PROVE  clock' >= clock
    BY <1>c, <1>0
<1>d. ASSUME NEW k \in Corrs, UNCHANGED clock,
             \A l \in Corrs : l # k => jobs'[l] = jobs[l],
             \/ jobs'[k].phase \in {"none", "running"}
             \/ jobs'[k].cancelled /\ (jobs'[k].phase = "done" /\ jobs'[k].doomed => jobs'[k].status # "ok")
             \/ /\ jobs'[k].phase = "returned"
                /\ jobs'[k].doomed => jobs'[k].cancelled \/ Expired(jobs'[k].call, clock')
             \/ jobs'[k].phase = "done" /\ (jobs'[k].doomed => jobs'[k].status # "ok")
      PROVE  StillDoomed' /\ DoomedNeverOk'
    <2>1. ASSUME NEW l \in Corrs
          PROVE  /\ jobs'[l].phase = "returned" /\ jobs'[l].doomed =>
                        jobs'[l].cancelled \/ Expired(jobs'[l].call, clock')
                 /\ jobs'[l].phase = "done" /\ jobs'[l].doomed => jobs'[l].status # "ok"
        <3>1. CASE l = k
            BY <1>d, <3>1
        <3>2. CASE l # k
            BY <1>a, <1>c, <1>d, <3>2
        <3> QED
            BY <3>1, <3>2
    <2> QED
        BY <2>1, Zenon DEF StillDoomed, DoomedNeverOk, Expired
<1>1. CASE Environment
    <2>1. UNCHANGED jobs
        BY <1>1 DEF Environment, SendFragment, SendCancel, HostTakes, HostRestart, Stop, Tick
    <2>2. UNCHANGED clock \/ clock' = clock + 1
        BY <1>1 DEF Environment, SendFragment, SendCancel, HostTakes, HostRestart, Stop, Tick
    <2>3. clock' >= clock
        BY <1>0, <2>2
    <2> QED
        BY <2>1, <2>3, <1>b
<1>2. ASSUME NEW k \in Corrs, HandlerReturns(k)
      PROVE  StillDoomed' /\ DoomedNeverOk'
    <2> DEFINE doom == jobs[k].cancelled \/ Expired(jobs[k].call, clock)
    <2>0. PICK status \in HandlerStatus :
            jobs' = [jobs EXCEPT ![k] =
                        [@ EXCEPT !.phase = "returned", !.status = status, !.doomed = doom]]
        BY <1>2 DEF HandlerReturns
    <2> HIDE DEF doom
    <2>1. /\ jobs'[k].phase = "returned"
          /\ jobs'[k].call = jobs[k].call /\ jobs'[k].cancelled = jobs[k].cancelled
          /\ jobs'[k].doomed = doom
          /\ \A l \in Corrs : l # k => jobs'[l] = jobs[l]
        BY <1>0, <2>0 DEF Work
    <2>2. UNCHANGED clock
        BY <1>2 DEF HandlerReturns
    <2>3. jobs'[k].doomed => jobs'[k].cancelled \/ Expired(jobs'[k].call, clock')
        BY <2>1, <2>2, Zenon DEF Expired, doom
    <2> QED
        BY <1>d, <2>1, <2>2, <2>3
<1>3. ASSUME NEW k \in Corrs, Complete(k)
      PROVE  StillDoomed' /\ DoomedNeverOk'
    <2>1. /\ jobs[k].phase = "returned" /\ jobs'[k].phase = "done"
          /\ jobs'[k].status = Outcome(k) /\ jobs'[k].doomed = jobs[k].doomed
          /\ \A l \in Corrs : l # k => jobs'[l] = jobs[l]
          /\ UNCHANGED clock
        BY <1>0, <1>3 DEF Complete, Work
    <2>2. jobs[k].doomed => jobs[k].cancelled \/ Expired(jobs[k].call, clock)
        BY <2>1, Zenon DEF StillDoomed
    <2>3. jobs[k].doomed => Outcome(k) # "ok"
        BY <2>2 DEF Outcome
    <2> QED
        BY <1>d, <2>1, <2>3
<1>4. ASSUME NEW k \in Corrs, jobs' = [jobs EXCEPT ![k] = NoWork], UNCHANGED clock
      PROVE  StillDoomed' /\ DoomedNeverOk'
    <2>1. jobs'[k].phase = "none" /\ \A l \in Corrs : l # k => jobs'[l] = jobs[l]
        BY <1>0, <1>4 DEF NoWork
    <2> QED
        BY <1>d, <1>4, <2>1
<1>5. ASSUME NEW k \in Corrs, jobs' = [jobs EXCEPT ![k].cancelled = TRUE], UNCHANGED clock
      PROVE  StillDoomed' /\ DoomedNeverOk'
    <2>1. /\ jobs'[k].cancelled = TRUE /\ jobs'[k].phase = jobs[k].phase
          /\ jobs'[k].doomed = jobs[k].doomed /\ jobs'[k].status = jobs[k].status
          /\ \A l \in Corrs : l # k => jobs'[l] = jobs[l]
        BY <1>0, <1>5 DEF Work
    <2>2. jobs'[k].phase = "done" /\ jobs'[k].doomed => jobs'[k].status # "ok"
        BY <2>1, Zenon DEF DoomedNeverOk
    <2> QED
        BY <1>d, <1>5, <2>1, <2>2
<1>6. CASE Drain
    <2>1. CASE done # <<>>
        <3>1. Head(done) \in Corrs
            BY <2>1, HeadTail DEF TypeOK
        <3> QED
            BY <1>4, <1>6, <2>1, <3>1 DEF Drain
    <2>2. CASE done = <<>>
        BY <1>b, <1>c, <1>6, <2>2 DEF Drain
    <2> QED
        BY <2>1, <2>2
<1>7. CASE CheckCtx
    <2>1. UNCHANGED clock
        BY <1>7 DEF CheckCtx
    <2>2. ASSUME NEW k \in Corrs
          PROVE  /\ jobs'[k].phase = jobs[k].phase /\ jobs'[k].doomed = jobs[k].doomed
                 /\ jobs'[k].status = jobs[k].status /\ jobs'[k].call = jobs[k].call
                 /\ jobs'[k].cancelled = jobs[k].cancelled \/ jobs'[k].cancelled = TRUE
        <3>1. jobs[k] \in Work
            BY <1>0
        <3>2. jobs'[k] = jobs[k] \/ jobs'[k] = [jobs[k] EXCEPT !.cancelled = TRUE]
            BY <1>7 DEF CheckCtx
        <3> QED
            BY <3>1, <3>2 DEF Work
    <2>3. ASSUME NEW k \in Corrs
          PROVE  /\ jobs'[k].phase = "returned" /\ jobs'[k].doomed =>
                        jobs'[k].cancelled \/ Expired(jobs'[k].call, clock')
                 /\ jobs'[k].phase = "done" /\ jobs'[k].doomed => jobs'[k].status # "ok"
        BY <2>1, <2>2, Zenon DEF StillDoomed, DoomedNeverOk, Expired
    <2> QED
        BY <2>3, Zenon DEF StillDoomed, DoomedNeverOk, Expired
<1>8. CASE Shutdown
    <2>1. CASE done # <<>> /\ jobs' = [jobs EXCEPT ![Head(done)] = NoWork]
        <3>1. Head(done) \in Corrs
            BY <2>1, HeadTail DEF TypeOK
        <3> QED
            BY <1>4, <1>8, <2>1, <3>1 DEF Shutdown
    <2>2. CASE UNCHANGED jobs
        BY <1>b, <1>c, <1>8, <2>2 DEF Shutdown
    <2> QED
        BY <1>8, <2>1, <2>2 DEF Shutdown
<1>9. CASE SendReply
    BY <1>9, <1>b, <1>c DEF SendReply
<1>10. CASE PollNothing
    BY <1>10, <1>b, <1>c DEF PollNothing
<1>11. ASSUME NEW type, PollFrame(type)
       PROVE  CallOf[Head(inbound).call].corr \in Corrs /\ UNCHANGED clock
    <2>1. Head(inbound) \in Frame
        BY <1>11, HeadTail DEF PollFrame, TypeOK
    <2> QED
        BY <1>11, <2>1, ConstantFacts DEF PollFrame, Frame
<1>12. CASE PollCancel
    <2>1. CASE UNCHANGED jobs
        BY <2>1, <1>11, <1>12, <1>b, <1>c DEF PollCancel
    <2>2. CASE jobs' = [jobs EXCEPT ![CallOf[Head(inbound).call].corr].cancelled = TRUE]
        BY <2>2, <1>5, <1>11, <1>12 DEF PollCancel
    <2> QED
        BY <1>12, <2>1, <2>2 DEF PollCancel
<1>13. CASE PollOther \/ PollRefused \/ PollFragment
    BY <1>13, <1>11, <1>b, <1>c DEF PollOther, PollRefused, PollFragment
<1>14. CASE PollInvoke
    <2> DEFINE k == CallOf[Head(inbound).call].corr
    <2>1. k \in Corrs /\ UNCHANGED clock
        BY <1>11, <1>14 DEF PollInvoke
    <2>2. jobs'[k].phase = "running" /\ \A l \in Corrs : l # k => jobs'[l] = jobs[l]
        BY <1>0, <1>14, <2>1 DEF PollInvoke, NewWork
    <2> HIDE DEF k
    <2> QED
        BY <1>d, <2>1, <2>2
<1>15. CASE UNCHANGED vars
    BY <1>15, <1>b, <1>c DEF vars
<1> QED
    BY <1>1, <1>2, <1>3, <1>6, <1>7, <1>8, <1>9, <1>10, <1>12, <1>13, <1>14, <1>15
    DEF Next, Handler, Loop, Returned

(* A cancel or a deadline that came before the handler returned is honoured: *)
(* runHandler's checks turn the result into a failure.                       *)
THEOREM DoomedNeverOkHolds == Spec => []DoomedNeverOk
<1>1. Init => StillDoomed /\ DoomedNeverOk
    BY DEF Init, StillDoomed, DoomedNeverOk, NoWork
<1>2. Spec => [](StillDoomed /\ DoomedNeverOk)
    BY <1>1, DoomedStep, RuntimeTypeCorrect, PTL DEF Spec
<1> QED
    BY <1>2, PTL

-----------------------------------------------------------------------------
(* What the runtime promises of whole requests it promises to callers that    *)
(* number their calls apart, whose requests are well-formed up to the last    *)
(* fragment, and who do not send more of them at once than it has room for:   *)
(* of a request that is refused in the middle the rest is taken for another.  *)
Fragmented == {c \in Calls : CallOf[c].type = "request" /\ CallOf[c].frags > 1}

Apart == \A c, d \in Calls : CallOf[c].corr = CallOf[d].corr => c = d

GoodCallers ==
    /\ Apart
    /\ \A c \in Fragmented : /\ CallOf[c].kind \in Stages
                             /\ CallOf[c].bad \cap 1 .. (CallOf[c].frags - 1) = {}
                             /\ CallOf[c].frags <= MaxBody + 1
    /\ Cardinality(Fragmented) <= moduleMaxInFlight

Positions == 1 .. Len(inbound)
Asks(i, c) == inbound[i].type = "request" /\ inbound[i].call = c
PartAt(i, c, p) == Asks(i, c) /\ inbound[i].part = p
Assembly(c) == assemblies[CallOf[c].corr]

(* The fragments of a call are in the ring in order, before its cancel, ... *)
SentSome == \A c \in Calls : sent[c] <= CallOf[c].frags

FramesSound ==
    \A i \in Positions :
        LET f == inbound[i] IN
        /\ f.type # "cancel" => f.type = CallOf[f.call].type
        /\ f.type = "request" => f.part \in 1 .. sent[f.call]
        /\ f.type = "cancel" => f.call \in gaveUp

FramesOrdered ==
    \A i, j \in Positions :
        i < j /\ inbound[i].call = inbound[j].call /\ inbound[j].type = "request"
            => inbound[i].type = "request" /\ inbound[i].part < inbound[j].part

(* ... each follows the one before it, or what has been assembled; ...        *)
FramesFollow ==
    \A j \in Positions :
        inbound[j].type = "request" =>
            \/ Len(Assembly(inbound[j].call)) = inbound[j].part - 1
            \/ \E i \in Positions : i < j /\ PartAt(i, inbound[j].call, inbound[j].part - 1)

(* ... the next one to be sent will follow them; ...                          *)
SentFollows ==
    \A c \in Calls \ gaveUp :
        CallOf[c].type = "request" /\ sent[c] < CallOf[c].frags =>
            Len(Assembly(c)) = sent[c] \/ \E i \in Positions : PartAt(i, c, sent[c])

(* ... and what has been assembled is the beginning of one request.           *)
AssembledInOrder ==
    \A k \in Corrs : \A n \in 1 .. Len(assemblies[k]) :
        LET f == assemblies[k][n] IN
        /\ f.part = n
        /\ CallOf[f.call].corr = k /\ CallOf[f.call].type = "request"
        /\ CallOf[f.call].frags > Len(assemblies[k])

OrderInv == /\ SentSome /\ FramesSound /\ FramesOrdered /\ FramesFollow /\ SentFollows
            /\ AssembledInOrder

(* A call is on its way, being worked on or being answered, one at a time, and *)
(* has no answer before the end.                                               *)
OnItsWay(c) == sent[c] < CallOf[c].frags \/ \E i \in Positions : Asks(i, c)
Working(c) == CallOf[c].corr \in Jobs
Replying(c) == mpc = "reply" /\ reply.call = c

StageInv ==
    /\ \A k \in Jobs : CallOf[jobs[k].call].corr = k
    /\ \A c \in Calls :
        /\ OnItsWay(c) => ~Working(c) /\ ~Replying(c) /\ replies[c] = <<>>
        /\ Working(c) => ~Replying(c) /\ replies[c] = <<>>
        /\ Replying(c) => replies[c] = <<>>

(* How the ring changes. *)
LEMMA RingAppend ==
    ASSUME TypeOK, NEW f, inbound' = Append(inbound, f)
    PROVE  /\ Len(inbound) \in Nat /\ Len(inbound)' = Len(inbound) + 1
           /\ \A i \in Positions : i \in Positions' /\ inbound'[i] = inbound[i]
           /\ Len(inbound) + 1 \in Positions' /\ inbound'[Len(inbound) + 1] = f
           /\ \A i \in Positions' : i \in Positions \/ i = Len(inbound) + 1
BY DEF TypeOK, Positions

LEMMA RingTail ==
    ASSUME TypeOK, inbound # <<>>, inbound' = Tail(inbound)
    PROVE  /\ Len(inbound) \in Nat \ {0} /\ 1 \in Positions /\ Head(inbound) = inbound[1]
           /\ \A i \in Positions' : /\ i \in Nat /\ i + 1 \in Positions
                                    /\ i >= 1 /\ inbound'[i] = inbound[i + 1]
           /\ \A i \in Positions : i # 1 => i - 1 \in Positions'
                                            /\ inbound'[i - 1] = inbound[i]
<1>1. /\ inbound \in Seq(Frame) /\ Len(inbound) \in Nat \ {0} /\ Head(inbound) = inbound[1]
      /\ Len(inbound') = Len(inbound) - 1
      /\ \A i \in 1 .. Len(inbound) - 1 : inbound'[i] = inbound[i + 1]
    BY DEF TypeOK
<1>2. ASSUME NEW i \in Positions, i # 1
      PROVE  i - 1 \in Positions' /\ inbound'[i - 1] = inbound[i]
    <2>1. i \in 1 .. Len(inbound) /\ i # 1
        BY <1>2 DEF Positions
    <2>2. i - 1 \in 1 .. Len(inbound) - 1 /\ (i - 1) + 1 = i
        BY <1>1, <2>1
    <2> QED
        BY <1>1, <2>2 DEF Positions
<1>3. ASSUME NEW i \in Positions'
      PROVE  i \in Nat /\ i + 1 \in Positions /\ i >= 1 /\ inbound'[i] = inbound[i + 1]
    <2>1. i \in 1 .. Len(inbound) - 1
        BY <1>1, <1>3 DEF Positions
    <2> QED
        BY <1>1, <2>1 DEF Positions
<1> QED
    BY <1>1, <1>2, <1>3 DEF Positions

LEMMA FrameTypes ==
    ASSUME TypeOK, NEW i \in Positions
    PROVE  /\ inbound[i] \in Frame /\ inbound[i].call \in Calls /\ inbound[i].part \in Nat
           /\ inbound[i].type \in {"request", "cancel", "other"}
           /\ CallOf[inbound[i].call].corr \in Corrs
           /\ sent[inbound[i].call] \in Nat
<1>1. inbound[i] \in Frame
    BY DEF TypeOK, Positions
<1> QED
    BY <1>1, ConstantFacts DEF Frame, TypeOK

LEMMA OrderKept ==
    ASSUME OrderInv, UNCHANGED <<inbound, sent, gaveUp, assemblies>>
    PROVE  OrderInv'
<1> USE DEF OrderInv, Positions
<1>1. SentSome' /\ FramesSound' /\ FramesOrdered'
    BY DEF SentSome, FramesSound, FramesOrdered
<1>2. FramesFollow'
    BY DEF FramesFollow, PartAt, Asks, Assembly
<1>3. SentFollows'
    BY DEF SentFollows, PartAt, Asks, Assembly
<1>4. AssembledInOrder'
    BY DEF AssembledInOrder
<1> QED
    BY <1>1, <1>2, <1>3, <1>4

LEMMA OrderSendFragment ==
    ASSUME TypeOK, OrderInv, NEW c \in Calls, SendFragment(c)
    PROVE  OrderInv'
<1> DEFINE f == [type |-> CallOf[c].type, call |-> c, part |-> sent[c] + 1]
           last == Len(inbound) + 1
<1>1. /\ sent[c] < CallOf[c].frags /\ c \notin gaveUp /\ inbound' = Append(inbound, f)
      /\ gaveUp' = gaveUp /\ assemblies' = assemblies
      /\ sent[c] \in Nat /\ sent'[c] = sent[c] + 1 /\ CallOf[c].frags \in Nat
      /\ \A d \in Calls : d # c => sent'[d] = sent[d]
    BY ConstantFacts DEF SendFragment, TypeOK, Call
<1>2. f.type = CallOf[c].type /\ f.call = c /\ f.part = sent[c] + 1 /\ f.type # "cancel"
    BY ConstantFacts
<1> HIDE DEF f
<1>3. /\ Len(inbound) \in Nat
      /\ \A i \in Positions : i \in Positions' /\ inbound'[i] = inbound[i] /\ i < last
      /\ last \in Positions' /\ inbound'[last] = f
      /\ \A i \in Positions' : i \in Positions \/ i = last
    BY <1>1, RingAppend DEF Positions
<1> HIDE DEF last
<1>a. ASSUME NEW d \in Calls
      PROVE  sent[d] \in Nat /\ sent'[d] \in Nat /\ sent'[d] >= sent[d]
    <2>1. sent[d] \in Nat
        BY DEF TypeOK
    <2>2. CASE d = c
        BY <1>1, <2>2
    <2>3. CASE d # c
        BY <1>1, <2>1, <2>3
    <2> QED
        BY <2>2, <2>3
<1>4. SentSome'
    BY <1>1 DEF OrderInv, SentSome
<1>5. FramesSound'
    <2> SUFFICES ASSUME NEW i \in Positions'
                 PROVE  /\ inbound'[i].type # "cancel" =>
                                inbound'[i].type = CallOf[inbound'[i].call].type
                        /\ inbound'[i].type = "request" =>
                                inbound'[i].part \in 1 .. sent'[inbound'[i].call]
                        /\ inbound'[i].type = "cancel" => inbound'[i].call \in gaveUp'
        BY DEF FramesSound
    <2>1. CASE i \in Positions
        <3>1. /\ inbound'[i] = inbound[i] /\ inbound[i].call \in Calls
              /\ inbound[i].part \in Nat /\ sent[inbound[i].call] \in Nat
            BY <1>3, <2>1, FrameTypes
        <3>2. /\ inbound[i].type # "cancel" => inbound[i].type = CallOf[inbound[i].call].type
              /\ inbound[i].type = "request" => inbound[i].part \in 1 .. sent[inbound[i].call]
              /\ inbound[i].type = "cancel" => inbound[i].call \in gaveUp
            BY <2>1 DEF OrderInv, FramesSound
        <3>3. sent'[inbound[i].call] \in Nat /\ sent'[inbound[i].call] >= sent[inbound[i].call]
            BY <1>a, <3>1
        <3> QED
            BY <1>1, <3>1, <3>2, <3>3
    <2>2. CASE i = last
        <3>1. /\ inbound'[i].type # "cancel" /\ inbound'[i].type = CallOf[c].type
              /\ inbound'[i].call = c /\ inbound'[i].part = sent[c] + 1
            BY <1>2, <1>3, <2>2
        <3>2. sent[c] + 1 \in 1 .. sent'[c]
            BY <1>1
        <3> QED
            BY <3>1, <3>2
    <2> QED
        BY <1>3, <2>1, <2>2
<1>6. FramesOrdered'
    <2> SUFFICES ASSUME NEW i \in Positions', NEW j \in Positions', i < j,
                        inbound'[i].call = inbound'[j].call, inbound'[j].type = "request"
                 PROVE  inbound'[i].type = "request" /\ inbound'[i].part < inbound'[j].part
        BY DEF FramesOrdered
    <2>1. i \in Positions
        BY <1>3 DEF Positions, last
    <2>2. CASE j \in Positions
        BY <1>3, <2>1, <2>2 DEF OrderInv, FramesOrdered
    <2>3. CASE j = last
        <3>1. inbound[i].call = c /\ f.type = "request"
            BY <1>2, <1>3, <2>1, <2>3
        <3>2. inbound[i].type # "cancel"
            BY <1>1, <2>1, <3>1 DEF OrderInv, FramesSound
        <3>3. inbound[i].type = "request" /\ inbound[i].part \in 1 .. sent[c]
            BY <1>2, <2>1, <3>1, <3>2 DEF OrderInv, FramesSound
        <3>4. inbound'[i] = inbound[i] /\ inbound'[j].part = sent[c] + 1
            BY <1>2, <1>3, <2>1, <2>3
        <3>5. inbound[i].part < sent[c] + 1
            BY <1>1, <3>3
        <3> QED
            BY <3>3, <3>4, <3>5
    <2> QED
        BY <1>3, <2>2, <2>3
<1>7. FramesFollow'
    <2> SUFFICES ASSUME NEW j \in Positions', inbound'[j].type = "request"
                 PROVE  \/ Len(assemblies'[CallOf[inbound'[j].call].corr]) = inbound'[j].part - 1
                        \/ \E i \in Positions' :
                                /\ i < j
                                /\ inbound'[i].type = "request"
                                /\ inbound'[i].call = inbound'[j].call
                                /\ inbound'[i].part = inbound'[j].part - 1
        BY DEF FramesFollow, Assembly, PartAt, Asks
    <2>1. CASE j \in Positions
        <3> DEFINE g == inbound[j]
        <3>1. inbound'[j] = g /\ g.type = "request"
            BY <1>3, <2>1
        <3>2. \/ Len(Assembly(g.call)) = g.part - 1
              \/ \E i \in Positions : i < j /\ PartAt(i, g.call, g.part - 1)
            BY <2>1, <3>1 DEF OrderInv, FramesFollow
        <3> HIDE DEF g
        <3>3. ASSUME NEW i \in Positions, i < j, PartAt(i, g.call, g.part - 1)
              PROVE  /\ i \in Positions' /\ inbound'[i].type = "request"
                     /\ inbound'[i].call = g.call /\ inbound'[i].part = g.part - 1
            BY <1>3, <3>3 DEF PartAt, Asks
        <3>4. assemblies'[CallOf[g.call].corr] = Assembly(g.call)
            BY <1>1 DEF Assembly
        <3> QED
            BY <3>1, <3>2, <3>3, <3>4
    <2>2. CASE j = last
        <3>1. /\ CallOf[c].type = "request" /\ inbound'[j].call = c
              /\ inbound'[j].part = sent[c] + 1
            BY <1>2, <1>3, <2>2
        <3>2. \/ Len(Assembly(c)) = sent[c]
              \/ \E i \in Positions : PartAt(i, c, sent[c])
            BY <1>1, <3>1 DEF OrderInv, SentFollows
        <3>3. inbound'[j].part - 1 = sent[c]
            <4>1. \A n \in Nat : (n + 1) - 1 = n
                OBVIOUS
            <4> QED
                BY <1>1, <3>1, <4>1
        <3>4. CASE Len(Assembly(c)) = sent[c]
            BY <1>1, <3>1, <3>3, <3>4 DEF Assembly
        <3>5. ASSUME NEW i \in Positions, PartAt(i, c, sent[c])
              PROVE  /\ i \in Positions' /\ i < j /\ inbound'[i].type = "request"
                     /\ inbound'[i].call = c /\ inbound'[i].part = sent[c]
            BY <1>3, <2>2, <3>5 DEF PartAt, Asks
        <3> QED
            BY <3>1, <3>2, <3>3, <3>4, <3>5
    <2> QED
        BY <1>3, <2>1, <2>2
<1>8. SentFollows'
    <2> SUFFICES ASSUME NEW d \in Calls \ gaveUp, CallOf[d].type = "request",
                        sent'[d] < CallOf[d].frags
                 PROVE  \/ Len(assemblies'[CallOf[d].corr]) = sent'[d]
                        \/ \E i \in Positions' : /\ inbound'[i].type = "request"
                                                 /\ inbound'[i].call = d
                                                 /\ inbound'[i].part = sent'[d]
        BY <1>1 DEF SentFollows, Assembly, PartAt, Asks
    <2>1. CASE d = c
        <3>1. /\ last \in Positions' /\ inbound'[last].type = "request"
              /\ inbound'[last].call = d /\ inbound'[last].part = sent'[d]
            BY <1>1, <1>2, <1>3, <2>1
        <3> QED
            BY <3>1
    <2>2. CASE d # c
        <3>1. sent'[d] = sent[d] /\ d \in Calls \ gaveUp
            BY <1>1, <2>2
        <3>2. Len(Assembly(d)) = sent[d] \/ \E i \in Positions : PartAt(i, d, sent[d])
            BY <3>1 DEF OrderInv, SentFollows
        <3>3. ASSUME NEW i \in Positions, PartAt(i, d, sent[d])
              PROVE  /\ i \in Positions' /\ inbound'[i].type = "request"
                     /\ inbound'[i].call = d /\ inbound'[i].part = sent[d]
            BY <1>3, <3>3 DEF PartAt, Asks
        <3> QED
            BY <1>1, <3>1, <3>2, <3>3 DEF Assembly
    <2> QED
        BY <2>1, <2>2
<1>9. AssembledInOrder'
    BY <1>1 DEF OrderInv, AssembledInOrder
<1> QED
    BY <1>4, <1>5, <1>6, <1>7, <1>8, <1>9 DEF OrderInv

LEMMA OrderSendCancel ==
    ASSUME TypeOK, OrderInv, NEW c \in Calls, SendCancel(c)
    PROVE  OrderInv'
<1> DEFINE f == [type |-> "cancel", call |-> c, part |-> 0]
           last == Len(inbound) + 1
<1>1. /\ inbound' = Append(inbound, f) /\ gaveUp' = gaveUp \cup {c}
      /\ assemblies' = assemblies /\ sent' = sent
    BY DEF SendCancel
<1>2. f.type = "cancel" /\ f.call = c
    OBVIOUS
<1> HIDE DEF f
<1>3. /\ \A i \in Positions : i \in Positions' /\ inbound'[i] = inbound[i] /\ i < last
      /\ last \in Positions' /\ inbound'[last] = f
      /\ \A i \in Positions' : i \in Positions \/ i = last
    BY <1>1, RingAppend DEF Positions
<1> HIDE DEF last
<1>4. SentSome' /\ AssembledInOrder'
    BY <1>1 DEF OrderInv, SentSome, AssembledInOrder
<1>5. FramesSound'
    BY <1>1, <1>2, <1>3 DEF OrderInv, FramesSound
<1>6. FramesOrdered'
    <2> SUFFICES ASSUME NEW i \in Positions', NEW j \in Positions', i < j,
                        inbound'[i].call = inbound'[j].call, inbound'[j].type = "request"
                 PROVE  inbound'[i].type = "request" /\ inbound'[i].part < inbound'[j].part
        BY DEF FramesOrdered
    <2>1. j \in Positions
        BY <1>2, <1>3
    <2>2. i \in Positions
        <3>1. ~(last < j)
            BY <2>1, <1>3 DEF Positions, last
        <3> QED
            BY <1>3, <3>1
    <2> QED
        BY <1>3, <2>1, <2>2 DEF OrderInv, FramesOrdered
<1>7. FramesFollow'
    <2> SUFFICES ASSUME NEW j \in Positions', inbound'[j].type = "request"
                 PROVE  \/ Len(assemblies'[CallOf[inbound'[j].call].corr]) = inbound'[j].part - 1
                        \/ \E i \in Positions' :
                                /\ i < j
                                /\ inbound'[i].type = "request"
                                /\ inbound'[i].call = inbound'[j].call
                                /\ inbound'[i].part = inbound'[j].part - 1
        BY DEF FramesFollow, Assembly, PartAt, Asks
    <2>1. j \in Positions /\ inbound'[j] = inbound[j]
        BY <1>2, <1>3
    <2>2. \/ Len(Assembly(inbound[j].call)) = inbound[j].part - 1
          \/ \E i \in Positions : i < j /\ PartAt(i, inbound[j].call, inbound[j].part - 1)
        BY <2>1 DEF OrderInv, FramesFollow
    <2> QED
        BY <1>1, <1>3, <2>1, <2>2 DEF Assembly, PartAt, Asks
<1>8. SentFollows'
    <2> SUFFICES ASSUME NEW d \in Calls \ gaveUp, CallOf[d].type = "request",
                        sent[d] < CallOf[d].frags
                 PROVE  \/ Len(Assembly(d)) = sent[d]
                        \/ \E i \in Positions' : /\ inbound'[i].type = "request"
                                                 /\ inbound'[i].call = d
                                                 /\ inbound'[i].part = sent[d]
        BY <1>1 DEF SentFollows, Assembly, PartAt, Asks
    <2>1. Len(Assembly(d)) = sent[d] \/ \E i \in Positions : PartAt(i, d, sent[d])
        BY DEF OrderInv, SentFollows
    <2> QED
        BY <1>3, <2>1 DEF PartAt, Asks
<1> QED
    BY <1>4, <1>5, <1>6, <1>7, <1>8 DEF OrderInv

(* The loop takes a frame: if it is of a request that goes on, the fragment is *)
(* the next of its assembly.                                                   *)
LEMMA OrderPoll ==
    ASSUME TypeOK, OrderInv, inbound # <<>>, inbound' = Tail(inbound),
           NEW c \in Calls, c = inbound[1].call, UNCHANGED <<sent, gaveUp>>,
           \A d \in Calls : d # c => assemblies'[CallOf[d].corr] = assemblies[CallOf[d].corr],
           inbound[1].type = "request" =>
                \/ inbound[1].part = CallOf[c].frags
                \/ Len(assemblies'[CallOf[c].corr]) = inbound[1].part,
           AssembledInOrder'
    PROVE  OrderInv'
<1> DEFINE h == inbound[1]
<1>0. \A i \in Positions' : i \in Nat /\ i # 0
    <2>1. \A i \in Positions' : i \in Nat /\ i >= 1
        BY RingTail
    <2> QED
        BY <2>1
<1>1. /\ 1 \in Positions
      /\ \A i \in Positions' : /\ i \in Nat /\ i + 1 \in Positions
                               /\ i >= 1 /\ inbound'[i] = inbound[i + 1]
      /\ \A i \in Positions : i # 1 => i - 1 \in Positions' /\ inbound'[i - 1] = inbound[i]
      /\ \A i \in Positions : i \in Nat
    BY RingTail DEF Positions
<1>2. /\ h.call = c /\ h.part \in Nat /\ sent[c] \in Nat /\ CallOf[c].frags \in Nat
      /\ h.type \in {"request", "cancel", "other"} /\ sent[c] <= CallOf[c].frags
    BY <1>1, FrameTypes, ConstantFacts DEF Call, OrderInv, SentSome
<1>3. /\ h.type # "cancel" => h.type = CallOf[c].type
      /\ h.type = "request" => h.part \in 1 .. sent[c]
      /\ h.type = "cancel" => c \in gaveUp
    BY <1>1, <1>2 DEF OrderInv, FramesSound
<1>4. ASSUME NEW j \in Positions, j # 1, inbound[j].call = c, inbound[j].type = "request"
      PROVE  h.type = "request" /\ h.part < inbound[j].part
    <2>1. 1 < j
        BY <1>4 DEF Positions
    <2> QED
        BY <1>1, <1>2, <1>4, <2>1 DEF OrderInv, FramesOrdered
<1>5. h.type = "request" => Len(assemblies[CallOf[c].corr]) = h.part - 1
    <2>1. ASSUME h.type = "request"
          PROVE  \/ Len(Assembly(h.call)) = h.part - 1
                 \/ \E i \in Positions : i < 1 /\ PartAt(i, h.call, h.part - 1)
        BY <1>1, <2>1 DEF OrderInv, FramesFollow
    <2>2. \A i \in Positions : ~(i < 1)
        BY DEF Positions
    <2> QED
        BY <1>2, <2>1, <2>2 DEF Assembly
<1>6. h.type = "request" =>
        h.part = CallOf[c].frags \/ Len(assemblies'[CallOf[c].corr]) = h.part
    OBVIOUS
<1> HIDE DEF h
<1>7. SentSome'
    BY DEF OrderInv, SentSome
<1>8. FramesSound'
    <2> SUFFICES ASSUME NEW i \in Positions'
                 PROVE  /\ inbound'[i].type # "cancel" =>
                                inbound'[i].type = CallOf[inbound'[i].call].type
                        /\ inbound'[i].type = "request" =>
                                inbound'[i].part \in 1 .. sent[inbound'[i].call]
                        /\ inbound'[i].type = "cancel" => inbound'[i].call \in gaveUp
        BY DEF FramesSound
    <2>1. i + 1 \in Positions /\ inbound'[i] = inbound[i + 1]
        BY <1>1
    <2> QED
        BY <2>1 DEF OrderInv, FramesSound
<1>9. FramesOrdered'
    <2> SUFFICES ASSUME NEW i \in Positions', NEW j \in Positions', i < j,
                        inbound'[i].call = inbound'[j].call, inbound'[j].type = "request"
                 PROVE  inbound'[i].type = "request" /\ inbound'[i].part < inbound'[j].part
        BY DEF FramesOrdered
    <2>1. /\ i \in Nat /\ i + 1 \in Positions /\ inbound'[i] = inbound[i + 1]
          /\ j \in Nat /\ j + 1 \in Positions /\ inbound'[j] = inbound[j + 1]
        BY <1>1
    <2>2. i + 1 < j + 1
        BY <2>1
    <2> QED
        BY <2>1, <2>2 DEF OrderInv, FramesOrdered
<1>10. FramesFollow'
    <2> SUFFICES ASSUME NEW j \in Positions', inbound'[j].type = "request"
                 PROVE  \/ Len(assemblies'[CallOf[inbound'[j].call].corr]) = inbound'[j].part - 1
                        \/ \E i \in Positions' :
                                /\ i < j
                                /\ inbound'[i].type = "request"
                                /\ inbound'[i].call = inbound'[j].call
                                /\ inbound'[i].part = inbound'[j].part - 1
        BY DEF FramesFollow, Assembly, PartAt, Asks
    <2> DEFINE g == inbound[j + 1]
    <2>1. j \in Nat /\ j + 1 \in Positions /\ inbound'[j] = g /\ j + 1 # 1
        <3>1. j \in Nat /\ j + 1 \in Positions /\ inbound'[j] = g
            BY <1>1
        <3>2. j # 0
            BY <1>0
        <3>3. \A n \in Nat : n # 0 => n + 1 # 1
            OBVIOUS
        <3> QED
            BY <3>1, <3>2, <3>3
    <2>2. /\ g.call \in Calls /\ g.part \in Nat /\ sent[g.call] \in Nat
          /\ g.part \in 1 .. sent[g.call] /\ g.type = "request"
        BY <2>1, FrameTypes DEF OrderInv, FramesSound
    <2>3. \/ Len(assemblies[CallOf[g.call].corr]) = g.part - 1
          \/ \E i \in Positions : i < j + 1 /\ PartAt(i, g.call, g.part - 1)
        BY <2>1, <2>2 DEF OrderInv, FramesFollow, Assembly
    <2>4. g.call = c => h.type = "request" /\ h.part < g.part
        BY <1>4, <2>1, <2>2
    <2> HIDE DEF g
    <2>5. CASE Len(assemblies[CallOf[g.call].corr]) = g.part - 1
        <3>1. g.call # c
            <4> SUFFICES ASSUME g.call = c
                         PROVE  FALSE
                OBVIOUS
            <4>1. g.part - 1 = h.part - 1 /\ h.part < g.part
                BY <1>5, <2>4, <2>5
            <4> QED
                BY <1>2, <2>2, <4>1
        <3> QED
            BY <2>1, <2>2, <2>5, <3>1
    <2>6. ASSUME NEW i \in Positions, i < j + 1, PartAt(i, g.call, g.part - 1)
          PROVE  \/ Len(assemblies'[CallOf[g.call].corr]) = g.part - 1
                 \/ \E n \in Positions' :
                        n < j /\ inbound'[n].type = "request" /\ inbound'[n].call = g.call
                        /\ inbound'[n].part = g.part - 1
        <3>1. CASE i = 1
            <4>1. h.call = g.call /\ h.part = g.part - 1 /\ h.type = "request"
                BY <2>6, <3>1 DEF PartAt, Asks, h
            <4>2. h.part # CallOf[c].frags
                BY <1>2, <2>2, <4>1
            <4> QED
                BY <1>2, <1>6, <4>1, <4>2
        <3>2. CASE i # 1
            <4>1. i - 1 \in Positions' /\ inbound'[i - 1] = inbound[i] /\ i \in Nat
                BY <1>1, <3>2
            <4>2. i - 1 < j
                BY <2>1, <2>6, <4>1
            <4> QED
                BY <2>6, <4>1, <4>2 DEF PartAt, Asks
        <3> QED
            BY <3>1, <3>2
    <2> QED
        BY <2>1, <2>3, <2>5, <2>6
<1>11. SentFollows'
    <2> SUFFICES ASSUME NEW d \in Calls \ gaveUp, CallOf[d].type = "request",
                        sent[d] < CallOf[d].frags
                 PROVE  \/ Len(assemblies'[CallOf[d].corr]) = sent[d]
                        \/ \E i \in Positions' : /\ inbound'[i].type = "request"
                                                 /\ inbound'[i].call = d
                                                 /\ inbound'[i].part = sent[d]
        BY DEF SentFollows, Assembly, PartAt, Asks
    <2>1. \/ Len(assemblies[CallOf[d].corr]) = sent[d]
          \/ \E i \in Positions : PartAt(i, d, sent[d])
        BY DEF OrderInv, SentFollows, Assembly
    <2>2. CASE Len(assemblies[CallOf[d].corr]) = sent[d]
        <3>1. ASSUME d = c
              PROVE  FALSE
            <4>1. h.type = "request"
                BY <1>2, <1>3, <3>1
            <4>2. h.part \in 1 .. sent[c] /\ h.part - 1 = sent[c]
                BY <1>3, <1>5, <2>2, <3>1, <4>1
            <4> QED
                BY <1>2, <4>2
        <3> QED
            BY <2>2, <3>1
    <2>3. ASSUME NEW i \in Positions, PartAt(i, d, sent[d])
          PROVE  \/ Len(assemblies'[CallOf[d].corr]) = sent[d]
                 \/ \E n \in Positions' : /\ inbound'[n].type = "request"
                                          /\ inbound'[n].call = d
                                          /\ inbound'[n].part = sent[d]
        <3>1. CASE i = 1
            <4>1. h.call = d /\ h.part = sent[d] /\ h.type = "request"
                BY <2>3, <3>1 DEF PartAt, Asks, h
            <4> QED
                BY <1>2, <1>6, <4>1
        <3>2. CASE i # 1
            <4>1. i - 1 \in Positions' /\ inbound'[i - 1] = inbound[i]
                BY <1>1, <3>2
            <4> QED
                BY <2>3, <4>1 DEF PartAt, Asks
        <3> QED
            BY <3>1, <3>2
    <2> QED
        BY <2>1, <2>2, <2>3
<1> QED
    BY <1>7, <1>8, <1>9, <1>10, <1>11 DEF OrderInv

(* What the loop takes from the ring is a frame of some call, and a call that *)
(* is on its way after that was so before.                                    *)
LEMMA Polled ==
    ASSUME TypeOK, NEW type, PollFrame(type)
    PROVE  /\ inbound # <<>> /\ inbound' = Tail(inbound) /\ Head(inbound) = inbound[1]
           /\ 1 \in Positions /\ inbound[1].type = type /\ inbound[1] \in Frame
           /\ inbound[1].call \in Calls /\ CallOf[inbound[1].call].corr \in Corrs
           /\ mpc = "poll" /\ UNCHANGED <<outbound, env, now, done, replies, exit>>
           /\ \A c \in Calls : OnItsWay(c)' => OnItsWay(c)
<1>1. inbound # <<>> /\ inbound' = Tail(inbound) /\ sent' = sent
    BY DEF PollFrame, env
<1>2. ASSUME NEW c \in Calls, OnItsWay(c)'
      PROVE  OnItsWay(c)
    <2>1. ASSUME NEW i \in Positions', Asks(i, c)'
          PROVE  i + 1 \in Positions /\ Asks(i + 1, c)
        BY <1>1, <2>1, RingTail DEF Asks
    <2> QED
        BY <1>1, <1>2, <2>1 DEF OnItsWay
<1>3. Head(inbound) = inbound[1] /\ 1 \in Positions
    BY <1>1, RingTail
<1>4. /\ inbound[1] \in Frame /\ inbound[1].call \in Calls
      /\ CallOf[inbound[1].call].corr \in Corrs
    BY <1>3, FrameTypes
<1> QED
    BY <1>1, <1>2, <1>3, <1>4 DEF PollFrame

(* The fragment that is taken is the next of its request, and its number is one *)
(* of those sent.                                                               *)
LEMMA FirstFollows ==
    ASSUME TypeOK, OrderInv, 1 \in Positions, inbound[1].type = "request",
           NEW c \in Calls, c = inbound[1].call
    PROVE  /\ CallOf[c].type = "request" /\ CallOf[c].frags \in Nat /\ sent[c] \in Nat
           /\ sent[c] <= CallOf[c].frags
           /\ inbound[1].part \in 1 .. sent[c]
           /\ Len(Assembly(c)) = inbound[1].part - 1
<1>1. /\ CallOf[c].type = "request" /\ inbound[1].part \in 1 .. sent[c]
    BY DEF OrderInv, FramesSound
<1>2. CallOf[c].frags \in Nat /\ sent[c] \in Nat /\ sent[c] <= CallOf[c].frags
    BY ConstantFacts DEF Call, TypeOK, OrderInv, SentSome
<1>3. \/ Len(Assembly(c)) = inbound[1].part - 1
      \/ \E i \in Positions : i < 1 /\ PartAt(i, c, inbound[1].part - 1)
    BY DEF OrderInv, FramesFollow
<1>4. \A i \in Positions : ~(i < 1)
    BY DEF Positions
<1> QED
    BY <1>1, <1>2, <1>3, <1>4

(* When the last fragment of a request is taken, nothing more of it is on its way. *)
LEMMA LastPolled ==
    ASSUME TypeOK, OrderInv, inbound # <<>>, inbound' = Tail(inbound), sent' = sent,
           NEW c \in Calls, c = inbound[1].call, inbound[1].type = "request",
           inbound[1].part = CallOf[c].frags
    PROVE  OnItsWay(c) /\ ~OnItsWay(c)'
<1>1. 1 \in Positions /\ OnItsWay(c)
    BY RingTail DEF OnItsWay, Asks
<1>2. sent[c] = CallOf[c].frags /\ sent[c] \in Nat
    BY <1>1, FirstFollows
<1>3. ASSUME NEW i \in Positions', Asks(i, c)'
      PROVE  FALSE
    <2>1. i \in Nat /\ i >= 1 /\ i + 1 \in Positions /\ Asks(i + 1, c)
        BY <1>3, RingTail DEF Asks
    <2>2. 1 < i + 1
        BY <2>1
    <2>3. inbound[1].part < inbound[i + 1].part
        BY <1>1, <2>1, <2>2 DEF OrderInv, FramesOrdered, Asks
    <2>4. inbound[i + 1].part \in 1 .. sent[c]
        BY <2>1 DEF OrderInv, FramesSound, Asks
    <2> QED
        BY <1>2, <2>3, <2>4
<1> QED
    BY <1>1, <1>2, <1>3 DEF OnItsWay

(* The requests that are being put together are fragmented ones. *)
LEMMA AssembliesOfFragmented ==
    ASSUME TypeOK, OrderInv, NEW k \in Assemblies
    PROVE  \E d \in Fragmented : CallOf[d].corr = k
<1>1. k \in Corrs /\ assemblies[k] \in Seq(Fragment) /\ assemblies[k] # <<>>
    BY DEF Assemblies, TypeOK
<1>2. Len(assemblies[k]) \in Nat /\ Len(assemblies[k]) >= 1 /\ assemblies[k][1] \in Fragment
    BY <1>1
<1> DEFINE d == assemblies[k][1].call
<1>3. d \in Calls /\ CallOf[d].frags \in Nat
    BY <1>2, ConstantFacts DEF Fragment, Call
<1>4. CallOf[d].corr = k /\ CallOf[d].type = "request" /\ CallOf[d].frags > Len(assemblies[k])
    BY <1>1, <1>2 DEF OrderInv, AssembledInOrder
<1> QED
    BY <1>2, <1>3, <1>4 DEF Fragmented

(* What matters of all that when a step is taken: nothing of the fragment at  *)
(* the head of the ring, if it is not the last one, makes the loop refuse it. *)
HeadFits ==
    1 \in Positions =>
        LET f == inbound[1] IN
        f.type = "request" /\ f.part # CallOf[f.call].frags =>
            /\ CallOf[f.call].kind \in Stages /\ f.part \notin CallOf[f.call].bad
            /\ CallOf[f.call].frags <= MaxBody + 1 /\ ~NoRoom(f)

(* A good caller's fragments fit. *)
LEMMA GoodCallersFit ==
    ASSUME TypeOK, GoodCallers, OrderInv
    PROVE  Apart /\ HeadFits
<1> DEFINE h == inbound[1]
           c == h.call
           k == CallOf[c].corr
<1> SUFFICES ASSUME 1 \in Positions, h.type = "request", h.part # CallOf[c].frags
             PROVE  /\ CallOf[c].kind \in Stages /\ h.part \notin CallOf[c].bad
                    /\ CallOf[c].frags <= MaxBody + 1 /\ ~NoRoom(h)
    BY DEF GoodCallers, HeadFits
<1>0. c \in Calls /\ k \in Corrs
    BY FrameTypes
<1>1. /\ CallOf[c].type = "request" /\ CallOf[c].frags \in Nat /\ sent[c] \in Nat
      /\ sent[c] <= CallOf[c].frags /\ h.part \in 1 .. sent[c]
    BY <1>0, FirstFollows
<1> HIDE DEF h
<1>2. h.part \in 1 .. (CallOf[c].frags - 1) /\ CallOf[c].frags > 1
    BY <1>1
<1>3. /\ c \in Fragmented /\ CallOf[c].kind \in Stages /\ h.part \notin CallOf[c].bad
      /\ CallOf[c].frags <= MaxBody + 1
    BY <1>0, <1>1, <1>2 DEF Fragmented, GoodCallers
<1>4. ~NoRoom(h)
    <2> SUFFICES ASSUME assemblies[k] = <<>>
                 PROVE  Cardinality(Assemblies) < moduleMaxInFlight
        BY FiniteTables, SizesAssumption DEF NoRoom
    <2> DEFINE F == Fragmented \ {c}
               Corr(d) == CallOf[d].corr
               T == {Corr(d) : d \in F}
               f == [d \in F |-> Corr(d)]
    <2>1. IsFiniteSet(Fragmented)
        BY CallsAssumption, FS_Subset DEF Fragmented
    <2>2. /\ IsFiniteSet(F) /\ Cardinality(F) = Cardinality(Fragmented) - 1
          /\ Cardinality(Fragmented) \in Nat /\ Cardinality(F) \in Nat
        BY <1>3, <2>1, FS_RemoveElement, FS_CardinalityType
    <2>3. f \in Surjection(F, T)
        BY DEF Surjection
    <2>4. IsFiniteSet(T) /\ Cardinality(T) <= Cardinality(F)
        BY <2>2, <2>3, FS_Surjection
    <2>5. Assemblies \subseteq T
        <3> SUFFICES ASSUME NEW l \in Assemblies
                     PROVE  l \in T
            OBVIOUS
        <3>1. PICK d \in Fragmented : CallOf[d].corr = l
            BY AssembliesOfFragmented
        <3>2. d # c
            BY <3>1 DEF Assemblies
        <3> QED
            BY <3>1, <3>2
    <2>6. Cardinality(Assemblies) <= Cardinality(T) /\ Cardinality(T) \in Nat
        BY <2>4, <2>5, FS_Subset, FS_CardinalityType
    <2>7. Cardinality(Fragmented) <= moduleMaxInFlight
        BY DEF GoodCallers
    <2> HIDE DEF F, T
    <2> QED
        BY <2>2, <2>4, <2>6, <2>7, FiniteTables, SizesAssumption
<1> QED
    BY <1>3, <1>4

(* A fragment that fits is accepted. *)
LEMMA MiddleAccepted ==
    ASSUME TypeOK, Apart, HeadFits, OrderInv, StageInv, 1 \in Positions,
           inbound[1].type = "request",
           NEW c \in Calls, c = inbound[1].call, inbound[1].part # CallOf[c].frags
    PROVE  Refusal(inbound[1]) = "none"
<1> DEFINE h == inbound[1]
           k == CallOf[c].corr
<1>1. /\ CallOf[c].type = "request" /\ CallOf[c].frags \in Nat /\ sent[c] \in Nat
      /\ sent[c] <= CallOf[c].frags /\ h.part \in 1 .. sent[c]
      /\ Len(assemblies[k]) = h.part - 1
    BY FirstFollows DEF Assembly
<1>2. h.call = c /\ h.part \in 1 .. (CallOf[c].frags - 1) /\ CallOf[c].frags > 1
    BY <1>1
<1>3. /\ CallOf[c].kind \in Stages /\ h.part \notin CallOf[c].bad
      /\ CallOf[c].frags <= MaxBody + 1 /\ ~NoRoom(h)
    BY DEF HeadFits
<1> HIDE DEF h
<1>4. k \in Corrs /\ k \notin Jobs
    <2>1. OnItsWay(c)
        BY DEF OnItsWay, Asks
    <2> QED
        BY <2>1, ConstantFacts DEF StageInv, Working
<1>5. assemblies[k] # <<>> => assemblies[k][1].call = c
    <2> SUFFICES ASSUME assemblies[k] # <<>>
                 PROVE  assemblies[k][1].call = c
        OBVIOUS
    <2>1. assemblies[k] \in Seq(Fragment)
        BY <1>4 DEF TypeOK
    <2>2. 1 \in 1 .. Len(assemblies[k]) /\ assemblies[k][1] \in Fragment
        BY <2>1
    <2>3. assemblies[k][1].call \in Calls /\ CallOf[assemblies[k][1].call].corr = k
        BY <1>4, <2>2 DEF Fragment, OrderInv, AssembledInOrder
    <2> QED
        BY <2>3 DEF Apart
<1>6. ~Invalid(h)
    <2> DEFINE head(d) == <<CallOf[d].kind, CallOf[d].deadline, CallOf[d].trace>>
    <2>1. assemblies[k] # <<>> => head(assemblies[k][1].call) = head(c)
        BY <1>5
    <2> QED
        BY <1>2, <1>3, <1>4, <2>1 DEF Invalid
<1>7. Len(Assembled(h)) = h.part /\ ~(Len(Assembled(h)) > MaxBody)
    <2>1. assemblies[k] \in Seq(Fragment)
        BY <1>4 DEF TypeOK
    <2>2. Len(Append(assemblies[k], [call |-> h.call, part |-> h.part])) = Len(assemblies[k]) + 1
        BY <2>1
    <2>3. Len(Assembled(h)) = (h.part - 1) + 1
        BY <1>1, <1>2, <2>2 DEF Assembled, h
    <2>4. h.part \in Nat /\ h.part <= MaxBody
        BY <1>1, <1>2, <1>3, SizesAssumption
    <2>5. Len(Assembled(h)) = h.part
        BY <2>3, <2>4
    <2> QED
        BY <2>4, <2>5, SizesAssumption
<1>8. ~Final(h)
    BY <1>2 DEF Final, h
<1> QED
    BY <1>3, <1>6, <1>7, <1>8 DEF Refusal, h

(* The order is kept by every step. *)
LEMMA OrderStep ==
    ASSUME TypeOK, Apart, HeadFits, OrderInv, StageInv, [Next]_vars
    PROVE  OrderInv'
<1> USE DEF env
<1>0. assemblies \in [Corrs -> Seq(Fragment)]
    BY DEF TypeOK
<1>1. CASE Environment
    <2>1. ASSUME NEW c \in Calls, SendFragment(c) \/ SendCancel(c)
          PROVE  OrderInv'
        BY <2>1, OrderSendFragment, OrderSendCancel
    <2>2. CASE HostTakes \/ HostRestart \/ Stop \/ Tick
        BY <2>2, OrderKept DEF HostTakes, HostRestart, Stop, Tick
    <2> QED
        BY <1>1, <2>1, <2>2 DEF Environment
<1>2. ASSUME NEW k \in Corrs, Handler(k)
      PROVE  OrderInv'
    BY <1>2, OrderKept DEF Handler, HandlerReturns, Complete
<1>3. CASE Drain \/ CheckCtx \/ Shutdown \/ SendReply \/ PollNothing
    BY <1>3, OrderKept DEF Drain, CheckCtx, Shutdown, SendReply, PollNothing
<1> DEFINE h == inbound[1]
           c == h.call
           k == CallOf[c].corr
<1>a. ASSUME NEW type, PollFrame(type)
      PROVE  /\ inbound # <<>> /\ inbound' = Tail(inbound) /\ Head(inbound) = h /\ h.type = type
             /\ c \in Calls /\ k \in Corrs /\ 1 \in Positions /\ UNCHANGED <<sent, gaveUp>>
    BY <1>a, Polled
<1>b. \A d \in Calls : d # c /\ c \in Calls => CallOf[d].corr \in Corrs /\ CallOf[d].corr # k
    BY ConstantFacts DEF Apart
<1> HIDE DEF h
<1>c. ASSUME NEW type, PollFrame(type), assemblies' = [assemblies EXCEPT ![k] = <<>>],
             type = "request" => h.part = CallOf[c].frags
      PROVE  OrderInv'
    <2>1. assemblies'[k] = <<>> /\ \A l \in Corrs : l # k => assemblies'[l] = assemblies[l]
        BY <1>0, <1>a, <1>c
    <2>2. Len(assemblies'[k]) = 0
        BY <2>1
    <2>3. AssembledInOrder'
        <3> SUFFICES ASSUME NEW l \in Corrs, NEW n \in 1 .. Len(assemblies'[l])
                     PROVE  LET f == assemblies'[l][n] IN
                            /\ f.part = n
                            /\ CallOf[f.call].corr = l /\ CallOf[f.call].type = "request"
                            /\ CallOf[f.call].frags > Len(assemblies'[l])
            BY DEF AssembledInOrder
        <3>1. l # k
            BY <2>2
        <3> QED
            BY <2>1, <3>1 DEF OrderInv, AssembledInOrder
    <2>4. \A d \in Calls : d # c => assemblies'[CallOf[d].corr] = assemblies[CallOf[d].corr]
        BY <1>a, <1>b, <1>c, <2>1
    <2> QED
        BY <1>a, <1>c, <2>3, <2>4, OrderPoll DEF h
<1>4. CASE PollCancel
    BY <1>4, <1>a, <1>c DEF PollCancel, h
<1>5. CASE PollOther
    <2>1. UNCHANGED assemblies /\ PollFrame("other")
        BY <1>5 DEF PollOther
    <2>2. AssembledInOrder'
        BY <2>1 DEF OrderInv, AssembledInOrder
    <2>3. h.type # "request"
        BY <1>a, <2>1
    <2> QED
        BY <1>a, <2>1, <2>2, <2>3, OrderPoll DEF h
<1>6. CASE PollRefused
    <2>1. /\ PollFrame("request") /\ Refusal(h) # "none"
          /\ assemblies' = [assemblies EXCEPT ![k] = <<>>]
        BY <1>6, <1>a DEF PollRefused
    <2>2. h.part = CallOf[c].frags
        BY <1>a, <2>1, MiddleAccepted DEF h
    <2> QED
        BY <1>c, <2>1, <2>2
<1>7. CASE PollFragment
    <2>1. /\ PollFrame("request") /\ h.part # CallOf[c].frags
          /\ assemblies' = [assemblies EXCEPT ![k] = Assembled(h)]
        BY <1>7, <1>a DEF PollFragment, Final
    <2>2. /\ CallOf[c].type = "request" /\ CallOf[c].frags \in Nat /\ sent[c] \in Nat
          /\ sent[c] <= CallOf[c].frags /\ h.part \in 1 .. sent[c]
          /\ Len(assemblies[k]) = h.part - 1
        BY <1>a, <2>1, FirstFollows DEF Assembly, h
    <2> DEFINE f == [call |-> c, part |-> h.part]
    <2>3. assemblies'[k] = Append(assemblies[k], f)
          /\ \A l \in Corrs : l # k => assemblies'[l] = assemblies[l]
        BY <1>0, <1>a, <2>1 DEF Assembled
    <2>4. f.call = c /\ f.part = h.part
        OBVIOUS
    <2> HIDE DEF f
    <2>5. assemblies[k] \in Seq(Fragment)
        BY <1>0, <1>a, <2>1
    <2>6. /\ Len(assemblies'[k]) = h.part /\ h.part \in Nat
          /\ \A n \in 1 .. Len(assemblies[k]) : assemblies'[k][n] = assemblies[k][n]
          /\ assemblies'[k][h.part] = f
          /\ \A n \in 1 .. h.part : n \in 1 .. Len(assemblies[k]) \/ n = h.part
          /\ h.part < CallOf[c].frags
        <3>1. h.part \in Nat /\ Len(assemblies[k]) + 1 = h.part /\ h.part < CallOf[c].frags
            BY <2>1, <2>2
        <3>2. /\ Len(assemblies[k]) \in Nat
              /\ Len(assemblies'[k]) = Len(assemblies[k]) + 1
              /\ \A n \in 1 .. Len(assemblies[k]) : assemblies'[k][n] = assemblies[k][n]
              /\ assemblies'[k][Len(assemblies[k]) + 1] = f
            BY <2>3, <2>5
        <3>3. \A n \in 1 .. h.part : n \in 1 .. Len(assemblies[k]) \/ n = h.part
            BY <3>1, <3>2
        <3> QED
            BY <3>1, <3>2, <3>3
    <2>7. AssembledInOrder'
        <3> SUFFICES ASSUME NEW l \in Corrs, NEW n \in 1 .. Len(assemblies'[l])
                     PROVE  /\ assemblies'[l][n].part = n
                            /\ CallOf[assemblies'[l][n].call].corr = l
                            /\ CallOf[assemblies'[l][n].call].type = "request"
                            /\ CallOf[assemblies'[l][n].call].frags > Len(assemblies'[l])
            BY DEF AssembledInOrder
        <3>1. CASE l # k
            BY <2>3, <3>1 DEF OrderInv, AssembledInOrder
        <3>2. CASE l = k /\ n = h.part
            BY <1>a, <2>2, <2>4, <2>6, <3>2
        <3>3. CASE l = k /\ n \in 1 .. Len(assemblies[k])
            <4> DEFINE g == assemblies[k][n]
            <4>1. /\ g.part = n /\ CallOf[g.call].corr = k /\ CallOf[g.call].type = "request"
                BY <3>3 DEF OrderInv, AssembledInOrder
            <4>2. g.call = c
                <5>1. g \in Fragment
                    BY <2>5, <3>3
                <5> QED
                    BY <1>a, <2>1, <4>1, <5>1 DEF Fragment, Apart
            <4> QED
                BY <2>6, <3>3, <4>1, <4>2
        <3> QED
            BY <2>6, <3>1, <3>2, <3>3
    <2>8. \A d \in Calls : d # c => assemblies'[CallOf[d].corr] = assemblies[CallOf[d].corr]
        BY <1>a, <1>b, <2>1, <2>3
    <2> QED
        BY <1>a, <2>1, <2>6, <2>7, <2>8, OrderPoll DEF h
<1>8. CASE PollInvoke
    <2>1. /\ PollFrame("request") /\ h.part = CallOf[c].frags
          /\ assemblies' = [assemblies EXCEPT ![k] = <<>>]
        BY <1>8, <1>a DEF PollInvoke, Final
    <2> QED
        BY <1>c, <2>1
<1>9. CASE UNCHANGED vars
    BY <1>9, OrderKept DEF vars
<1> QED
    BY <1>1, <1>2, <1>3, <1>4, <1>5, <1>6, <1>7, <1>8, <1>9 DEF Next, Loop, Returned

(* Steps that start nothing new leave a call where it was or move it on. *)
LEMMA StageKept ==
    ASSUME StageInv, UNCHANGED replies,
           \A k \in Jobs' : k \in Jobs /\ jobs'[k].call = jobs[k].call,
           \A c \in Calls : (OnItsWay(c)' => OnItsWay(c)) /\ (Replying(c)' => Replying(c))
    PROVE  StageInv'
<1>1. \A c \in Calls : Working(c)' => Working(c)
    BY DEF Working
<1>2. \A k \in Jobs' : CallOf[jobs'[k].call].corr = k
    BY DEF StageInv
<1>3. ASSUME NEW c \in Calls
      PROVE  /\ OnItsWay(c)' => ~Working(c)' /\ ~Replying(c)' /\ replies'[c] = <<>>
             /\ Working(c)' => ~Replying(c)' /\ replies'[c] = <<>>
             /\ Replying(c)' => replies'[c] = <<>>
    BY <1>1 DEF StageInv
<1> QED
    BY <1>2, <1>3 DEF StageInv

LEMMA StageStep ==
    ASSUME TypeOK, Apart, HeadFits, OrderInv, StageInv, DoneMatchesJobs, [Next]_vars
    PROVE  StageInv'
<1> USE DEF env
<1>0. jobs \in [Corrs -> Work] /\ done \in Seq(Corrs) /\ replies \in [Calls -> Seq(Status)]
    BY DEF TypeOK
<1>a. ASSUME UNCHANGED jobs
      PROVE  \A k \in Jobs' : k \in Jobs /\ jobs'[k].call = jobs[k].call
    BY <1>a DEF Jobs
<1>b. ASSUME UNCHANGED <<inbound, sent>>, NEW c \in Calls
      PROVE  OnItsWay(c)' => OnItsWay(c)
    BY <1>b DEF OnItsWay, Positions, Asks
<1>1. CASE Environment
    <2>1. UNCHANGED <<jobs, mpc, reply, replies>>
        BY <1>1 DEF Environment, SendFragment, SendCancel, HostTakes, HostRestart, Stop, Tick
    <2>2. ASSUME NEW c \in Calls, SendFragment(c), NEW d \in Calls, OnItsWay(d)'
          PROVE  OnItsWay(d)
        <3>1. sent[c] < CallOf[c].frags
            BY <2>2 DEF SendFragment
        <3>2. CASE d = c
            BY <3>1, <3>2 DEF OnItsWay
        <3>3. CASE d # c
            <4> DEFINE f == [type |-> CallOf[c].type, call |-> c, part |-> sent[c] + 1]
            <4>1. inbound' = Append(inbound, f) /\ f.call = c
                BY <2>2 DEF SendFragment
            <4> HIDE DEF f
            <4>2. sent'[d] = sent[d]
                BY <2>2, <3>3 DEF SendFragment, TypeOK
            <4>3. \A i \in Positions' : Asks(i, d)' => i \in Positions /\ Asks(i, d)
                BY <3>3, <4>1, RingAppend DEF Asks
            <4> QED
                BY <2>2, <4>2, <4>3 DEF OnItsWay
        <3> QED
            BY <3>2, <3>3
    <2>3. ASSUME NEW c \in Calls, SendCancel(c), NEW d \in Calls, OnItsWay(d)'
          PROVE  OnItsWay(d)
        <3> DEFINE f == [type |-> "cancel", call |-> c, part |-> 0]
        <3>1. inbound' = Append(inbound, f) /\ f.type = "cancel" /\ sent' = sent
            BY <2>3 DEF SendCancel
        <3> HIDE DEF f
        <3>2. \A i \in Positions' : Asks(i, d)' => i \in Positions /\ Asks(i, d)
            BY <3>1, RingAppend DEF Asks
        <3> QED
            BY <2>3, <3>1, <3>2 DEF OnItsWay
    <2>4. ASSUME HostTakes \/ HostRestart \/ Stop \/ Tick, NEW d \in Calls, OnItsWay(d)'
          PROVE  OnItsWay(d)
        <3>1. UNCHANGED <<inbound, sent>>
            BY <2>4 DEF HostTakes, HostRestart, Stop, Tick
        <3> QED
            BY <1>b, <2>4, <3>1
    <2>5. \A d \in Calls : OnItsWay(d)' => OnItsWay(d)
        BY <1>1, <2>2, <2>3, <2>4 DEF Environment
    <2>6. \A d \in Calls : Replying(d)' => Replying(d)
        BY <2>1 DEF Replying
    <2> QED
        BY <1>a, <2>1, <2>5, <2>6, StageKept
<1>2. ASSUME NEW k \in Corrs, Handler(k)
      PROVE  StageInv'
    <2>1. /\ UNCHANGED <<inbound, sent, mpc, reply, replies>> /\ k \in Jobs
          /\ jobs'[k].call = jobs[k].call
          /\ \A l \in Corrs : l # k => jobs'[l] = jobs[l]
        <3>1. UNCHANGED <<inbound, sent, mpc, reply, replies>> /\ k \in Jobs
            BY <1>2 DEF Handler, HandlerReturns, Complete, Jobs
        <3>2. jobs'[k].call = jobs[k].call /\ \A l \in Corrs : l # k => jobs'[l] = jobs[l]
            BY <1>0, <1>2 DEF Handler, HandlerReturns, Complete, Work
        <3> QED
            BY <3>1, <3>2
    <2>2. \A l \in Jobs' : l \in Jobs /\ jobs'[l].call = jobs[l].call
        BY <2>1 DEF Jobs
    <2>3. \A c \in Calls : (OnItsWay(c)' => OnItsWay(c)) /\ (Replying(c)' => Replying(c))
        BY <1>b, <2>1 DEF Replying
    <2> QED
        BY <2>1, <2>2, <2>3, StageKept
<1>3. CASE Drain
    <2>0. UNCHANGED <<inbound, sent, replies>>
        BY <1>3 DEF Drain
    <2>1. CASE done = <<>>
        <3>1. UNCHANGED jobs /\ mpc' = "ctx"
            BY <1>3, <2>1 DEF Drain
        <3> QED
            BY <1>a, <1>b, <2>0, <3>1, StageKept DEF Replying
    <2>2. CASE done # <<>>
        <3> DEFINE k == Head(done)
                   c == jobs[k].call
        <3>1. /\ 1 \in 1 .. Len(done) /\ k = done[1] /\ k \in Corrs
            BY <1>0, <2>2
        <3>2. k \in Jobs /\ c \in Calls /\ CallOf[c].corr = k
            BY <1>0, <3>1 DEF DoneMatchesJobs, Jobs, Work, StageInv
        <3>3. /\ jobs'[k].phase = "none" /\ \A l \in Corrs : l # k => jobs'[l] = jobs[l]
              /\ mpc' = "reply" /\ reply'.call = c
            BY <1>0, <1>3, <2>2, <3>1 DEF Drain, StartReply, NoWork
        <3> HIDE DEF k
        <3>4. k \notin Jobs' /\ \A l \in Jobs' : l \in Jobs /\ jobs'[l].call = jobs[l].call
            BY <3>3 DEF Jobs
        <3>5. \A l \in Jobs' : CallOf[jobs'[l].call].corr = l
            BY <3>4 DEF StageInv
        <3>6. ASSUME NEW d \in Calls
              PROVE  /\ OnItsWay(d)' => ~Working(d)' /\ ~Replying(d)' /\ replies'[d] = <<>>
                     /\ Working(d)' => ~Replying(d)' /\ replies'[d] = <<>>
                     /\ Replying(d)' => replies'[d] = <<>>
            <4>1. (OnItsWay(d)' => OnItsWay(d)) /\ (Working(d)' => Working(d))
                BY <1>b, <2>0, <3>4 DEF Working
            <4>2. Replying(d)' => d = c /\ Working(d) /\ ~Working(d)'
                BY <3>2, <3>3, <3>4 DEF Replying, Working
            <4> QED
                BY <2>0, <4>1, <4>2 DEF StageInv
        <3> QED
            BY <3>5, <3>6 DEF StageInv
    <2> QED
        BY <2>1, <2>2
<1>4. CASE CheckCtx \/ Shutdown
    <2>1. UNCHANGED <<inbound, sent, replies>> /\ mpc' # "reply"
        BY <1>4 DEF CheckCtx, Shutdown, Return
    <2>2. \A l \in Jobs' : l \in Jobs /\ jobs'[l].call = jobs[l].call
        <3>1. CASE CheckCtx
            <4>1. ASSUME NEW l \in Corrs
                  PROVE  jobs'[l].phase = jobs[l].phase /\ jobs'[l].call = jobs[l].call
                <5>1. jobs'[l] = jobs[l] \/ jobs'[l] = [jobs[l] EXCEPT !.cancelled = TRUE]
                    BY <3>1 DEF CheckCtx
                <5>2. jobs[l] \in Work
                    BY <1>0
                <5> QED
                    BY <5>1, <5>2 DEF Work
            <4> QED
                BY <4>1 DEF Jobs
        <3>2. CASE Shutdown
            <4>1. done # <<>> => Head(done) \in Corrs
                BY <1>0
            <4>2. \A l \in Corrs : jobs'[l] = jobs[l] \/ jobs'[l].phase = "none"
                BY <1>0, <3>2, <4>1 DEF Shutdown, NoWork
            <4> QED
                BY <4>2 DEF Jobs
        <3> QED
            BY <1>4, <3>1, <3>2
    <2> QED
        BY <1>b, <2>1, <2>2, StageKept DEF Replying
<1>5. CASE SendReply
    <2>1. UNCHANGED <<inbound, sent, jobs>> /\ mpc = "reply"
        BY <1>5 DEF SendReply
    <2>2. CASE UNCHANGED replies /\ (mpc' = "reply" => reply'.call = reply.call)
        BY <1>a, <1>b, <2>1, <2>2, StageKept DEF Replying
    <2>3. CASE /\ mpc' = "drain"
               /\ replies' = [replies EXCEPT ![reply.call] = Append(@, reply.status)]
        <3>1. \A d \in Calls : d # reply.call => replies'[d] = replies[d]
            BY <1>0, <2>3
        <3>2. Jobs' = Jobs
            BY <2>1 DEF Jobs
        <3>3. \A l \in Jobs' : CallOf[jobs'[l].call].corr = l
            BY <2>1, <3>2 DEF StageInv
        <3>4. ASSUME NEW d \in Calls
              PROVE  /\ OnItsWay(d)' => ~Working(d)' /\ ~Replying(d)' /\ replies'[d] = <<>>
                     /\ Working(d)' => ~Replying(d)' /\ replies'[d] = <<>>
                     /\ Replying(d)' => replies'[d] = <<>>
            <4>1. (OnItsWay(d)' => OnItsWay(d)) /\ (Working(d)' = Working(d)) /\ ~Replying(d)'
                BY <1>b, <2>1, <2>3, <3>2 DEF Working, Replying
            <4>2. OnItsWay(d) \/ Working(d) => d # reply.call
                BY <2>1 DEF StageInv, Replying
            <4> QED
                BY <3>1, <4>1, <4>2 DEF StageInv
        <3> QED
            BY <3>3, <3>4 DEF StageInv
    <2>4. \/ UNCHANGED replies /\ (mpc' = "reply" => reply'.call = reply.call)
          \/ /\ mpc' = "drain"
             /\ replies' = [replies EXCEPT ![reply.call] = Append(@, reply.status)]
        <3>1. reply \in [call : Calls, status : Status, left : Nat \ {0}]
            BY DEF TypeOK
        <3> QED
            BY <1>5, <3>1 DEF SendReply, FragmentSent, ReplyAbandoned, Return
    <2> QED
        BY <2>2, <2>3, <2>4
<1>6. CASE PollNothing
    <2>1. UNCHANGED <<inbound, sent, jobs, replies>> /\ mpc' # "reply"
        BY <1>6 DEF PollNothing, Return
    <2> QED
        BY <1>a, <1>b, <2>1, StageKept DEF Replying
<1> DEFINE h == inbound[1]
           c == h.call
           k == CallOf[c].corr
<1>c. ASSUME NEW type, PollFrame(type)
      PROVE  /\ inbound # <<>> /\ inbound' = Tail(inbound) /\ Head(inbound) = h /\ h.type = type
             /\ c \in Calls /\ k \in Corrs /\ 1 \in Positions
             /\ mpc = "poll" /\ UNCHANGED <<sent, replies>>
             /\ \A d \in Calls : OnItsWay(d)' => OnItsWay(d)
    BY <1>c, Polled
<1> HIDE DEF h
<1>d. ASSUME NEW type, PollFrame(type), mpc' = "drain",
             \A l \in Jobs' : l \in Jobs /\ jobs'[l].call = jobs[l].call
      PROVE  StageInv'
    BY <1>c, <1>d, StageKept DEF Replying
<1>7. CASE PollCancel
    <2>1. \A l \in Corrs : jobs'[l].phase = jobs[l].phase /\ jobs'[l].call = jobs[l].call
        BY <1>0, <1>7 DEF PollCancel, Work
    <2>2. \A l \in Jobs' : l \in Jobs /\ jobs'[l].call = jobs[l].call
        BY <2>1 DEF Jobs
    <2> QED
        BY <1>7, <1>d, <2>2 DEF PollCancel
<1>8. CASE PollOther \/ PollFragment
    BY <1>8, <1>a, <1>d DEF PollOther, PollFragment
<1>9. CASE PollRefused
    <2>1. /\ PollFrame("request") /\ Refusal(h) # "none" /\ UNCHANGED jobs
          /\ reply'.call = c /\ mpc' = "reply"
        BY <1>9, <1>c DEF PollRefused, StartReply
    <2>2. h.part = CallOf[c].frags
        BY <1>c, <2>1, MiddleAccepted DEF h
    <2>a. PICK e \in Calls : e = c
        BY <1>c, <2>1
    <2>3. OnItsWay(e) /\ ~OnItsWay(e)'
        BY <1>c, <2>1, <2>2, <2>a, LastPolled DEF h
    <2>4. \A l \in Jobs' : l \in Jobs /\ jobs'[l].call = jobs[l].call
        BY <1>a, <2>1
    <2>5. \A l \in Jobs' : CallOf[jobs'[l].call].corr = l
        BY <2>4 DEF StageInv
    <2>6. ASSUME NEW d \in Calls
          PROVE  /\ OnItsWay(d)' => ~Working(d)' /\ ~Replying(d)' /\ replies'[d] = <<>>
                 /\ Working(d)' => ~Replying(d)' /\ replies'[d] = <<>>
                 /\ Replying(d)' => replies'[d] = <<>>
        <3>1. (OnItsWay(d)' => OnItsWay(d)) /\ (Working(d)' => Working(d)) /\ replies'[d] = replies[d]
            BY <1>c, <2>1, <2>4 DEF Working
        <3>2. Replying(d)' => d = e
            BY <2>1, <2>a DEF Replying
        <3> QED
            BY <2>3, <3>1, <3>2 DEF StageInv
    <2> QED
        BY <2>5, <2>6 DEF StageInv
<1>10. CASE PollInvoke
    <2>1. /\ PollFrame("request") /\ h.part = CallOf[c].frags /\ mpc' = "drain"
          /\ jobs' = [jobs EXCEPT ![k] = NewWork(h)]
        BY <1>10, <1>c DEF PollInvoke, Final
    <2>a. PICK e \in Calls : e = c
        BY <1>c, <2>1
    <2>2. OnItsWay(e) /\ ~OnItsWay(e)'
        BY <1>c, <2>1, <2>a, LastPolled DEF h
    <2>3. jobs'[k].call = c /\ \A l \in Corrs : l # k => jobs'[l] = jobs[l]
        BY <1>0, <1>c, <2>1 DEF NewWork
    <2>4. \A l \in Jobs' : l # k => l \in Jobs
        BY <2>3 DEF Jobs
    <2>5. \A l \in Jobs' : CallOf[jobs'[l].call].corr = l
        BY <2>3, <2>4 DEF StageInv, Jobs
    <2>6. ASSUME NEW d \in Calls
          PROVE  /\ OnItsWay(d)' => ~Working(d)' /\ ~Replying(d)' /\ replies'[d] = <<>>
                 /\ Working(d)' => ~Replying(d)' /\ replies'[d] = <<>>
                 /\ Replying(d)' => replies'[d] = <<>>
        <3>1. (OnItsWay(d)' => OnItsWay(d)) /\ ~Replying(d)' /\ replies'[d] = replies[d]
            BY <1>c, <2>1 DEF Replying
        <3>2. Working(d)' => Working(d) \/ d = e
            BY <1>c, <2>1, <2>4, <2>a DEF Working, Apart
        <3> QED
            BY <2>2, <3>1, <3>2 DEF StageInv
    <2> QED
        BY <2>5, <2>6 DEF StageInv
<1>11. CASE UNCHANGED vars
    <2>1. UNCHANGED <<inbound, sent, jobs, mpc, reply, replies>>
        BY <1>11 DEF vars
    <2> QED
        BY <1>a, <1>b, <2>1, StageKept DEF Replying
<1> QED
    BY <1>1, <1>2, <1>3, <1>4, <1>5, <1>6, <1>7, <1>8, <1>9, <1>10, <1>11
    DEF Next, Loop, Returned

LEMMA AnsweredStep ==
    ASSUME TypeOK, StageInv, AnsweredAtMostOnce, [Next]_vars
    PROVE  AnsweredAtMostOnce'
<1> USE DEF env
<1>1. CASE UNCHANGED replies
    BY <1>1 DEF AnsweredAtMostOnce
<1>2. CASE /\ mpc = "reply"
           /\ replies' = [replies EXCEPT ![reply.call] = Append(@, reply.status)]
    <2>1. replies \in [Calls -> Seq(Status)] /\ reply.call \in Calls
        BY DEF TypeOK
    <2>2. replies[reply.call] = <<>>
        BY <1>2, <2>1 DEF StageInv, Replying
    <2>3. Len(replies'[reply.call]) = 1
        BY <1>2, <2>1, <2>2
    <2> QED
        BY <1>2, <2>1, <2>3 DEF AnsweredAtMostOnce
<1>3. CASE SendReply
    BY <1>1, <1>2, <1>3 DEF SendReply, FragmentSent, ReplyAbandoned
<1>4. CASE ~SendReply
    <2>1. CASE Environment
        BY <1>1, <2>1
        DEF Environment, SendFragment, SendCancel, HostTakes, HostRestart, Stop, Tick
    <2>2. CASE \E k \in Corrs : Handler(k)
        BY <1>1, <2>2 DEF Handler, HandlerReturns, Complete
    <2>3. CASE Loop
        BY <1>1, <1>4, <2>3
        DEF Loop, Drain, CheckCtx, Shutdown, PollNothing, PollFrame, PollCancel, PollOther,
            PollRefused, PollFragment, PollInvoke
    <2>4. CASE UNCHANGED vars
        BY <1>1, <2>4 DEF vars
    <2> QED
        BY <2>1, <2>2, <2>3, <2>4 DEF Next, Returned
<1> QED
    BY <1>3, <1>4

LEMMA WholeBodyStep ==
    ASSUME TypeOK, Apart, OrderInv, WholeBody, [Next]_vars
    PROVE  WholeBody'
<1> USE DEF env
<1>0. /\ jobs \in [Corrs -> Work] /\ done \in Seq(Corrs)
      /\ assemblies \in [Corrs -> Seq(Fragment)]
    BY DEF TypeOK
<1>a. ASSUME \A l \in Jobs' : l \in Jobs /\ jobs'[l].call = jobs[l].call
                                         /\ jobs'[l].body = jobs[l].body
      PROVE  WholeBody'
    BY <1>a DEF WholeBody
<1>b. ASSUME \A l \in Corrs :
                \/ jobs'[l].phase = "none"
                \/ jobs[l].phase # "none" /\ jobs'[l].call = jobs[l].call
                                          /\ jobs'[l].body = jobs[l].body
                \/ jobs'[l] = jobs[l]
      PROVE  WholeBody'
    <2>1. \A l \in Jobs' : l \in Jobs /\ jobs'[l].call = jobs[l].call
                                      /\ jobs'[l].body = jobs[l].body
        BY <1>b DEF Jobs
    <2> QED
        BY <1>a, <2>1
<1>1. CASE UNCHANGED jobs
    BY <1>1, <1>b
<1>2. CASE Environment
    BY <1>1, <1>2
    DEF Environment, SendFragment, SendCancel, HostTakes, HostRestart, Stop, Tick
<1>3. ASSUME NEW k \in Corrs, Handler(k)
      PROVE  WholeBody'
    <2>1. /\ \A l \in Corrs : l # k => jobs'[l] = jobs[l]
          /\ jobs[k].phase # "none" /\ jobs'[k].call = jobs[k].call
          /\ jobs'[k].body = jobs[k].body
        BY <1>0, <1>3 DEF Handler, HandlerReturns, Complete, Work
    <2> QED
        BY <1>b, <2>1
<1>4. CASE Drain \/ Shutdown
    <2>1. done # <<>> => Head(done) \in Corrs
        BY <1>0
    <2>2. \A l \in Corrs : jobs'[l] = jobs[l] \/ jobs'[l].phase = "none"
        BY <1>0, <1>4, <2>1 DEF Drain, Shutdown, NoWork
    <2> QED
        BY <1>b, <2>2
<1>5. CASE CheckCtx \/ PollCancel
    <2>1. ASSUME NEW l \in Corrs
          PROVE  \/ jobs'[l] = jobs[l]
                 \/ jobs[l].phase # "none" /\ jobs'[l].call = jobs[l].call
                                           /\ jobs'[l].body = jobs[l].body
        <3>1. \/ jobs'[l] = jobs[l]
              \/ jobs[l].phase # "none" /\ jobs'[l] = [jobs[l] EXCEPT !.cancelled = TRUE]
            <4>1. CASE CheckCtx
                BY <4>1 DEF CheckCtx, Jobs
            <4>2. CASE PollCancel
                BY <1>0, <4>2 DEF PollCancel, Jobs
            <4> QED
                BY <1>5, <4>1, <4>2
        <3>2. jobs[l] \in Work
            BY <1>0
        <3> QED
            BY <3>1, <3>2 DEF Work
    <2> QED
        BY <1>b, <2>1
<1>6. CASE SendReply \/ PollNothing \/ PollOther \/ PollRefused \/ PollFragment \/ UNCHANGED vars
    BY <1>1, <1>6 DEF SendReply, PollNothing, PollOther, PollRefused, PollFragment, vars
<1>7. CASE PollInvoke
    <2> DEFINE h == inbound[1]
               c == h.call
               k == CallOf[c].corr
               body == Assembled(h)
               whole == [n \in 1 .. CallOf[c].frags |-> [call |-> c, part |-> n]]
    <2>1. /\ Head(inbound) = h /\ h.type = "request" /\ c \in Calls /\ k \in Corrs
          /\ 1 \in Positions
        <3>1. PollFrame("request")
            BY <1>7 DEF PollInvoke
        <3> QED
            BY <3>1, Polled
    <2>2. h.part = CallOf[c].frags /\ jobs' = [jobs EXCEPT ![k] = NewWork(h)]
        BY <1>7, <2>1 DEF PollInvoke, Final
    <2>3. /\ CallOf[c].frags \in Nat /\ sent[c] \in Nat /\ h.part \in 1 .. sent[c]
          /\ Len(assemblies[k]) = h.part - 1
        BY <2>1, FirstFollows DEF Assembly
    <2>4. /\ jobs'[k].call = c /\ jobs'[k].body = body
          /\ \A l \in Corrs : l # k => jobs'[l] = jobs[l]
        BY <1>0, <2>1, <2>2 DEF NewWork
    <2> HIDE DEF h
    <2>5. body = whole
        <3> DEFINE f == [call |-> c, part |-> h.part]
        <3>1. f \in Fragment /\ f.call = c /\ f.part = h.part
            BY <2>1, <2>3 DEF Fragment
        <3>2. body = Append(assemblies[k], f) /\ assemblies[k] \in Seq(Fragment)
            BY <1>0, <2>1 DEF Assembled
        <3> HIDE DEF f, body
        <3>3. /\ body \in Seq(Fragment) /\ Len(body) = CallOf[c].frags
              /\ \A n \in 1 .. Len(assemblies[k]) : body[n] = assemblies[k][n]
              /\ body[CallOf[c].frags] = f
              /\ \A n \in 1 .. CallOf[c].frags :
                    n \in 1 .. Len(assemblies[k]) \/ n = CallOf[c].frags
            BY <2>2, <2>3, <3>1, <3>2
        <3>4. ASSUME NEW n \in 1 .. CallOf[c].frags
              PROVE  body[n] = [call |-> c, part |-> n]
            <4>1. CASE n = CallOf[c].frags
                BY <2>2, <3>3, <4>1 DEF f
            <4>2. CASE n \in 1 .. Len(assemblies[k])
                <5> DEFINE g == assemblies[k][n]
                <5>1. g \in Fragment
                    BY <3>2, <4>2
                <5>2. g.part = n /\ CallOf[g.call].corr = k
                    BY <2>1, <4>2 DEF OrderInv, AssembledInOrder
                <5>3. g.call = c
                    BY <2>1, <5>1, <5>2 DEF Fragment, Apart
                <5> HIDE DEF g
                <5>4. g = [call |-> c, part |-> n]
                    BY <5>1, <5>2, <5>3 DEF Fragment
                <5> QED
                    BY <3>3, <4>2, <5>4 DEF g
            <4> QED
                BY <3>3, <4>1, <4>2
        <3>5. body = [n \in 1 .. CallOf[c].frags |-> body[n]]
            BY <2>3, <3>3
        <3> QED
            BY <3>4, <3>5
    <2> HIDE DEF body, whole
    <2>6. jobs'[k].body = whole
        BY <2>4, <2>5
    <2>7. \A l \in Jobs' : l # k => l \in Jobs /\ jobs'[l] = jobs[l]
        BY <2>4 DEF Jobs
    <2>8. ASSUME NEW l \in Jobs'
          PROVE  jobs'[l].body = [n \in 1 .. CallOf[jobs'[l].call].frags |->
                                    [call |-> jobs'[l].call, part |-> n]]
        <3>1. CASE l = k
            BY <2>4, <2>6, <3>1 DEF whole
        <3>2. CASE l # k
            BY <2>7, <3>2 DEF WholeBody
        <3> QED
            BY <3>1, <3>2
    <2> QED
        BY <2>8 DEF WholeBody
<1> QED
    BY <1>2, <1>3, <1>4, <1>5, <1>6, <1>7 DEF Next, Loop, Returned

LEMMA ServedInit ==
    ASSUME Init
    PROVE  OrderInv /\ StageInv /\ AnsweredAtMostOnce /\ WholeBody
<1>1. /\ Positions = {} /\ Jobs = {} /\ \A k \in Corrs : assemblies[k] = <<>>
    BY DEF Init, Positions, Jobs, NoWork
<1>2. \A c \in Calls : /\ sent[c] = 0 /\ CallOf[c].corr \in Corrs /\ CallOf[c].frags \in Nat
                       /\ replies[c] = <<>>
    BY ConstantFacts DEF Init, Call
<1>3. OrderInv
    <2>1. SentSome
        BY <1>2 DEF SentSome
    <2>2. FramesSound /\ FramesOrdered /\ FramesFollow
        BY <1>1 DEF FramesSound, FramesOrdered, FramesFollow
    <2>3. SentFollows
        BY <1>1, <1>2 DEF SentFollows, Assembly
    <2>4. AssembledInOrder
        BY <1>1 DEF AssembledInOrder
    <2> QED
        BY <2>1, <2>2, <2>3, <2>4 DEF OrderInv
<1>4. StageInv
    BY <1>1, <1>2 DEF StageInv, Working, Replying, Init
<1> QED
    BY <1>1, <1>2, <1>3, <1>4 DEF AnsweredAtMostOnce, WholeBody

LEMMA GoodCallersServed ==
    ASSUME GoodCallers
    PROVE  Spec => [](AnsweredAtMostOnce /\ WholeBody)
<1> DEFINE Inv == OrderInv /\ StageInv /\ AnsweredAtMostOnce /\ WholeBody
<1>1. Init => Inv
    BY ServedInit
<1>2. TypeOK /\ InFlightInv /\ Inv /\ [Next]_vars => Inv'
    BY GoodCallersFit, OrderStep, StageStep, AnsweredStep, WholeBodyStep DEF InFlightInv
<1>3. Spec => []Inv
    BY <1>1, <1>2, RuntimeTypeCorrect, InFlightHolds, PTL DEF Spec
<1> QED
    BY <1>3, PTL

(* A call of a good caller is answered at most once, whatever the interleaving *)
(* of cancels, handlers, refusals and a full outbound ring: it is on its way,  *)
(* with a job, being answered or answered, and never two of these.             *)
THEOREM AnsweredAtMostOnceHolds ==
    ASSUME GoodCallers
    PROVE  Spec => []AnsweredAtMostOnce
BY GoodCallersServed, PTL

(* The handler of a good caller's request gets every fragment of it, in order, *)
(* and nothing of any other call.                                              *)
THEOREM WholeBodyHolds ==
    ASSUME GoodCallers
    PROVE  Spec => []WholeBody
BY GoodCallersServed, PTL
=============================================================================
