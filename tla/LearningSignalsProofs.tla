------------------------ MODULE LearningSignalsProofs ------------------------
(***************************************************************************)
(* The router with detectors and results implements the router alone, so   *)
(* what is proved of that holds for detected signals too; what the         *)
(* integrity gate rejects reaches no proposal of a workflow; and what was  *)
(* only detected stays a suggestion, for any signals, callers and faults.  *)
(***************************************************************************)
EXTENDS LearningSignals, LearningRouterProofs

LEMMA RecordIsCall ==
    ASSUME NEW c \in Callers, Record(c)
    PROVE  RecordSignal(c) \/ UNCHANGED vars
<1>1. PICK in \in Inputs : RecordInput(c, in) \/ UNCHANGED vars
  BY Zenon DEF Record
<1> QED BY <1>1 DEF RecordSignal

LEMMA SignalStepIsStep == [SignalNext]_signalVars => [Next]_vars
<1> SUFFICES ASSUME [SignalNext]_signalVars PROVE [Next]_vars
  OBVIOUS
<1>1. ASSUME NEW c \in Callers, Record(c) PROVE [Next]_vars
  BY <1>1, RecordIsCall, Zenon DEF Next, Call
<1>2. ASSUME NEW c \in Callers, OtherCall(c) PROVE [Next]_vars
  BY <1>2, Zenon DEF OtherCall, Next, Call
<1>3. ASSUME NEW c \in Callers, Dispatch(c) PROVE [Next]_vars
  BY <1>3, Zenon DEF Dispatch, Next
<1>4. CASE (MineArtifact \/ Tick) /\ UNCHANGED <<told, heard>>
  BY <1>4, Zenon DEF Next
<1>5. CASE UNCHANGED signalVars
  BY <1>5 DEF signalVars
<1> QED BY <1>1, <1>2, <1>3, <1>4, <1>5, Zenon DEF SignalNext

(* Detectors, settings and results change nothing of what the router does:  *)
(* each step of learning_router_record_signal with its result is a step of  *)
(* the router, or one in which the router refuses the signal.               *)
THEOREM SignalsImplementRouter == SignalSpec => Spec
<1>1. SignalInit => Init
  BY DEF SignalInit
<1> QED BY <1>1, SignalStepIsStep, PTL DEF SignalSpec, Spec

(* So no detection, alone, has an effect on a sink either. *)
THEOREM DetectionsPassTheGate == SignalSpec => []EvidenceGate
BY SignalsImplementRouter, EvidenceGateHolds, PTL

-----------------------------------------------------------------------------
(* No request that is queued for a workflow shows a text the gate rejects. *)
Harmless(s) ==
    \A n \in 1..Len(s) : s[n].sink = "workflow" => s[n].action.text \notin Hostile

LEMMA HarmlessConcat ==
    ASSUME NEW s \in Seq(Request), NEW t \in Seq(Request), Harmless(s), Harmless(t)
    PROVE  Harmless(s \o t)
<1> SUFFICES ASSUME NEW n \in 1..Len(s \o t), (s \o t)[n].sink = "workflow"
             PROVE  (s \o t)[n].action.text \notin Hostile
  BY DEF Harmless
<1>1. Len(s \o t) = Len(s) + Len(t) /\ Len(s) \in Nat /\ Len(t) \in Nat
  OBVIOUS
<1>2. CASE n <= Len(s)
  <2>1. n \in 1..Len(s) /\ (s \o t)[n] = s[n]
    BY <1>1, <1>2
  <2> QED BY <2>1 DEF Harmless
<1>3. CASE n > Len(s)
  <2>1. n - Len(s) \in 1..Len(t) /\ (s \o t)[n] = t[n - Len(s)]
    BY <1>1, <1>3
  <2> QED BY <2>1 DEF Harmless
<1> QED BY <1>1, <1>2, <1>3

LEMMA HarmlessTail ==
    ASSUME NEW s \in Seq(Request), s # <<>>, Harmless(s)
    PROVE  Harmless(Tail(s))
<1> SUFFICES ASSUME NEW n \in 1..Len(Tail(s)), Tail(s)[n].sink = "workflow"
             PROVE  Tail(s)[n].action.text \notin Hostile
  BY DEF Harmless
<1>1. n + 1 \in 1..Len(s) /\ Tail(s)[n] = s[n + 1]
  OBVIOUS
<1> QED BY <1>1 DEF Harmless

LEMMA HarmlessOne ==
    /\ Harmless(<<>>)
    /\ \A k, m, a, h : \A s \in Sinks : (s = "workflow" => a.text \notin Hostile)
            => Harmless(<<[sink |-> s, key |-> k, mem |-> m, action |-> a, high |-> h]>>)
BY DEF Harmless

(* A detection is no user's statement, so the gate has looked at the very    *)
(* text that the workflow's action shows.                                    *)
LEMMA RequestsHarmless ==
    ASSUME NEW in \in Inputs, ~GateRejects(in)
    PROVE  Harmless(Requests(learning_fill_target_key(in)))
<1> DEFINE f == learning_fill_target_key(in)
<1>1. /\ f \in Input
      /\ f.type = in.type /\ f.desc = in.desc
  BY InputsAssumption DEF learning_fill_target_key, Input
<1> HIDE DEF f
<1>2. /\ RerankerRequests(f) \in Seq(Request) /\ SupersedeRequests(f) \in Seq(Request)
      /\ RuleRequests(f) \in Seq(Request) /\ WorkflowRequests(f) \in Seq(Request)
  BY <1>1, PartsType
<1>3. /\ Harmless(RerankerRequests(f)) /\ Harmless(SupersedeRequests(f))
      /\ Harmless(RuleRequests(f))
  <2>1. {"reranker", "supersede", "rule"} \subseteq Sinks \ {"workflow"}
    BY DEF Sinks
  <2>2. Harmless(RerankerRequests(f))
    BY <2>1, HarmlessOne, Zenon DEF RerankerRequests
  <2>3. Harmless(SupersedeRequests(f))
    BY <2>1, HarmlessOne, Zenon DEF SupersedeRequests
  <2>4. Harmless(RuleRequests(f))
    BY <2>1, HarmlessOne, Zenon DEF RuleRequests
  <2> QED BY <2>2, <2>3, <2>4
<1>4. Harmless(WorkflowRequests(f))
  <2>1. CASE WorkflowRequests(f) = <<>>
    BY <2>1, HarmlessOne, Zenon
  <2>2. CASE WorkflowRequests(f) # <<>>
    <3>1. /\ "workflow" \in SinkMask(in.type) /\ in.desc # ""
          /\ WorkflowRequests(f) = <<[sink |-> "workflow", key |-> f.project, mem |-> 0,
                                     action |-> learning_make_workflow_action(f),
                                     high |-> FALSE]>>
      BY <1>1, <2>2, Zenon DEF WorkflowRequests
    <3>2. in.type \notin UserStated
      BY <3>1 DEF SinkMask, UserStated
    <3>3. in.desc \notin Hostile
      BY <3>1, <3>2 DEF GateRejects, GateText
    <3>4. learning_make_workflow_action(f).text = in.desc
      BY <1>1 DEF learning_make_workflow_action
    <3>5. "workflow" \in Sinks
      BY DEF Sinks
    <3> QED BY <3>1, <3>3, <3>4, <3>5, HarmlessOne, Zenon
  <2> QED BY <2>1, <2>2
<1>5. \A s, t \in Seq(Request) : s \o t \in Seq(Request)
  BY ConcatProperties
<1>6. Harmless(Requests(f))
  <2>1. Harmless(RerankerRequests(f) \o SupersedeRequests(f))
    BY <1>2, <1>3, HarmlessConcat
  <2>2. Harmless((RerankerRequests(f) \o SupersedeRequests(f)) \o RuleRequests(f))
    BY <1>2, <1>3, <1>5, <2>1, HarmlessConcat
  <2>3. Harmless(((RerankerRequests(f) \o SupersedeRequests(f)) \o RuleRequests(f))
                    \o WorkflowRequests(f))
    BY <1>2, <1>4, <1>5, <2>2, HarmlessConcat
  <2> QED BY <2>3, Zenon DEF Requests
<1> QED BY <1>6 DEF f

-----------------------------------------------------------------------------
(* Neither the table nor the requests on the way to it show such a text. *)
TextInv ==
    /\ \A i \in Ids : proposals[i].sink = "workflow" => proposals[i].action.text \notin Hostile
    /\ \A c \in Callers : Harmless(reqs[c])

(* What every step but an insert does to the table and to the requests. *)
RowsKept ==
    \A i \in Ids : /\ proposals'[i].sink = proposals[i].sink
                   /\ proposals'[i].action = proposals[i].action

RequestsKept(c) == reqs' = reqs \/ NextRequest(c) \/ reqs' = [reqs EXCEPT ![c] = <<>>]

LEMMA UpdateKeeps ==
    ASSUME TypeOK, NEW i, NEW row, UpdateRow(i, row),
           row.sink = proposals[i].sink /\ row.action = proposals[i].action
    PROVE  RowsKept
BY DEF UpdateRow, RowsKept, TypeOK

LEMMA SweepKeeps ==
    ASSUME TypeOK, ArchiveExpired
    PROVE  RowsKept
BY SweepRows DEF RowsKept, TypeOK

LEMMA RequestsKeptHarmless ==
    ASSUME TypeOK, TextInv, NEW c \in Callers, RequestsKept(c)
    PROVE  \A d \in Callers : Harmless(reqs'[d])
<1> SUFFICES ASSUME NEW d \in Callers PROVE Harmless(reqs'[d])
  OBVIOUS
<1>1. reqs \in [Callers -> Seq(Request)]
  BY DEF TypeOK
<1>2. \/ reqs'[d] = reqs[d] \/ reqs'[d] = <<>>
      \/ reqs[d] # <<>> /\ reqs'[d] = Tail(reqs[d])
  BY <1>1 DEF RequestsKept, NextRequest
<1>3. Harmless(<<>>)
  BY DEF Harmless
<1>4. Harmless(reqs[d])
  BY DEF TextInv
<1>5. reqs[d] # <<>> => Harmless(Tail(reqs[d]))
  BY <1>1, <1>4, HarmlessTail
<1> QED BY <1>2, <1>3, <1>4, <1>5, Zenon

LEMMA KeptHarmless ==
    ASSUME TypeOK, TextInv, NEW c \in Callers, RowsKept, RequestsKept(c)
    PROVE  TextInv'
<1>1. \A d \in Callers : Harmless(reqs'[d])
  BY RequestsKeptHarmless
<1> QED BY <1>1, Zenon DEF TextInv, RowsKept, Harmless

LEMMA TextRecordSignal ==
    ASSUME TypeOK, TextInv, NEW c \in Callers, RecordSignal(c)
    PROVE  TextInv'
<1>1. PICK in \in Inputs : RecordInput(c, in)
  BY DEF RecordSignal
<1> DEFINE queue == Requests(learning_fill_target_key(in))
<1>2. RowsKept
  BY <1>1, SweepKeeps DEF RecordInput
<1>3. Harmless(queue)
  BY <1>1, RequestsHarmless DEF RecordInput
<1> HIDE DEF queue
<1>4. reqs' = reqs \/ reqs' = [reqs EXCEPT ![c] = queue]
  BY <1>1, Zenon DEF RecordInput, queue
<1>5. CASE reqs' = reqs
  BY <1>2, <1>5, KeptHarmless, Zenon DEF RequestsKept
<1>6. CASE reqs' = [reqs EXCEPT ![c] = queue]
  <2>1. \A d \in Callers : Harmless(reqs'[d])
    <3> SUFFICES ASSUME NEW d \in Callers PROVE Harmless(reqs'[d])
      OBVIOUS
    <3>1. reqs'[d] = reqs[d] \/ reqs'[d] = queue
      BY <1>6 DEF TypeOK
    <3> QED BY <1>3, <3>1, Zenon DEF TextInv
  <2> QED BY <1>2, <2>1, Zenon DEF TextInv, RowsKept, Harmless
<1> QED BY <1>4, <1>5, <1>6

LEMMA TextInsert ==
    ASSUME TypeOK, TextInv, NEW c \in Callers, Insert(c)
    PROVE  TextInv'
<1> DEFINE r == Head(reqs[c])
<1>1. RequestsKept(c)
  BY Zenon DEF Insert, RequestsKept
<1>2. CASE UNCHANGED proposals
  BY <1>1, <1>2, KeptHarmless DEF RowsKept
<1>3. ASSUME NEW i \in Ids,
             proposals' = [proposals EXCEPT ![i] = NewRow(r.sink, r.key, r.mem, r.action)]
      PROVE  TextInv'
  <2>1. r.sink = "workflow" => r.action.text \notin Hostile
    <3>1. reqs[c] \in Seq(Request) /\ reqs[c] # <<>> /\ Harmless(reqs[c])
      BY DEF Insert, TypeOK, Routing, TextInv
    <3>2. 1 \in 1..Len(reqs[c]) /\ r = reqs[c][1]
      BY <3>1
    <3> QED BY <3>1, <3>2, Zenon DEF Harmless
  <2> HIDE DEF r
  <2>2. \A j \in Ids : \/ proposals'[j] = proposals[j]
                       \/ proposals'[j] = NewRow(r.sink, r.key, r.mem, r.action)
    BY <1>3 DEF TypeOK
  <2>3. /\ NewRow(r.sink, r.key, r.mem, r.action).sink = r.sink
        /\ NewRow(r.sink, r.key, r.mem, r.action).action = r.action
    BY DEF NewRow
  <2>4. \A j \in Ids :
            proposals'[j].sink = "workflow" => proposals'[j].action.text \notin Hostile
    BY <2>1, <2>2, <2>3, Zenon DEF TextInv
  <2>5. \A d \in Callers : Harmless(reqs'[d])
    BY <1>1, RequestsKeptHarmless
  <2> QED BY <2>4, <2>5, Zenon DEF TextInv, Harmless
<1> QED BY <1>2, <1>3, Zenon DEF Insert

LEMMA TextMineArtifact ==
    ASSUME TypeOK, TextInv, MineArtifact
    PROVE  TextInv'
<1>1. PICK i \in Ids, a \in MinedActions :
        proposals' = [proposals EXCEPT ![i] = NewRow("artifact", "", 0, a)]
  BY Zenon DEF MineArtifact
<1>2. reqs' = reqs
  BY DEF MineArtifact, calls
<1>3. \A j \in Ids : proposals'[j] = proposals[j] \/ proposals'[j].sink = "artifact"
  BY <1>1 DEF TypeOK, NewRow
<1>4. \A j \in Ids :
        proposals'[j].sink = "workflow" => proposals'[j].action.text \notin Hostile
  BY <1>3 DEF TextInv
<1> QED BY <1>2, <1>4, Zenon DEF TextInv, Harmless

LEMMA DispatchKeeps ==
    ASSUME TypeOK, NEW c \in Callers, Step(c), ~Insert(c)
    PROVE  RowsKept /\ RequestsKept(c)
<1>1. CASE Find(c) \/ CheckCap(c) \/ ApplySink(c)
  <2>1. RowsKept
    BY <1>1 DEF Find, CheckCap, ApplySink, store, RowsKept
  <2>2. RequestsKept(c)
    BY <1>1, Zenon DEF Find, CheckCap, ApplySink, Settle, RequestsKept
  <2> QED BY <2>1, <2>2
<1>2. CASE Recheck(c) \/ Get(c) \/ Final(c)
  <2>1. RowsKept
    BY <1>2, SweepKeeps DEF Recheck, Get, Final
  <2>2. RequestsKept(c)
    BY <1>2, Zenon DEF Recheck, Get, Final, Settle, RequestsKept
  <2> QED BY <2>1, <2>2
<1>3. CASE Bump(c) \/ CapArchive(c) \/ MarkCommitted(c) \/ RejectArchive(c)
  <2>1. RequestsKept(c) /\ pid[c] \in Ids
    BY <1>3 DEF Bump, CapArchive, MarkCommitted, RejectArchive, Settle, RequestsKept, TypeOK,
                Holding, Pc
  <2>2. proposals[pid[c]] \in Row
    BY <2>1 DEF TypeOK
  <2> DEFINE row == proposals[pid[c]]
             bumped == [row EXCEPT !.corr = @ + 1]
             marked == [row EXCEPT !.state = "committed", !.committedAt = clock]
  <2>3. /\ bumped.sink = row.sink /\ bumped.action = row.action
        /\ marked.sink = row.sink /\ marked.action = row.action
    BY <2>2 DEF Row
  <2>4. \A reason : Archived(row, reason).sink = row.sink
                    /\ Archived(row, reason).action = row.action
    BY <2>2 DEF Row, Archived
  <2>5. \/ UpdateRow(pid[c], bumped) \/ UpdateRow(pid[c], marked)
        \/ \E reason : UpdateRow(pid[c], Archived(row, reason))
    BY <1>3, Zenon DEF Bump, CapArchive, MarkCommitted, RejectArchive
  <2> HIDE DEF bumped, marked
  <2>6. RowsKept
    BY <2>3, <2>4, <2>5, UpdateKeeps
  <2> QED BY <2>1, <2>6
<1> QED BY <1>1, <1>2, <1>3 DEF Step

LEMMA TextStep == TypeOK /\ TextInv /\ [Next]_vars => TextInv'
<1> SUFFICES ASSUME TypeOK, TextInv, [Next]_vars PROVE TextInv'
  OBVIOUS
<1>1. ASSUME NEW c \in Callers, Call(c) PROVE TextInv'
  <2>1. CASE RecordSignal(c)
    BY <2>1, TextRecordSignal
  <2>2. CASE AcceptProposal(c) \/ RejectProposal(c) \/ ListProposals(c)
    <3>1. ArchiveExpired /\ reqs' = reqs
      BY <2>2 DEF AcceptProposal, RejectProposal, ListProposals, calls
    <3> QED BY <3>1, SweepKeeps, KeptHarmless DEF RequestsKept
  <2> QED BY <1>1, <2>1, <2>2 DEF Call
<1>2. ASSUME NEW c \in Callers, Step(c) PROVE TextInv'
  BY <1>2, TextInsert, DispatchKeeps, KeptHarmless
<1>3. ASSUME NEW c \in Callers, Crash(c) PROVE TextInv'
  BY <1>3, KeptHarmless DEF Crash, store, RowsKept, RequestsKept
<1>4. CASE Tick \/ UNCHANGED vars
  <2>1. proposals' = proposals /\ reqs' = reqs
    BY <1>4 DEF Tick, vars, store, calls
  <2> QED BY <2>1, Zenon DEF TextInv, Harmless
<1> QED BY <1>1, <1>2, <1>3, <1>4, TextMineArtifact DEF Next

(* What the gate rejects never shows in a proposal of a workflow, whichever  *)
(* detector, caller or failure brings it there.                              *)
THEOREM HostileNeverQueuedHolds == SignalSpec => []HostileNeverQueued
<1>1. Init => TextInv
  <2> SUFFICES ASSUME Init PROVE TextInv
    OBVIOUS
  <2>1. \A i \in Ids : proposals[i] = NoRow
    BY DEF Init
  <2>2. NoRow.sink # "workflow"
    BY DEF NoRow
  <2>3. \A c \in Callers : reqs[c] = <<>>
    BY DEF Init
  <2> HIDE DEF NoRow
  <2> QED BY <2>1, <2>2, <2>3, HarmlessOne, Zenon DEF TextInv
<1>2. Spec => []TextInv
  BY <1>1, TextStep, TypeCorrect, PTL DEF Spec
<1>3. TextInv => HostileNeverQueued
  BY DEF TextInv, HostileNeverQueued
<1> QED BY <1>2, <1>3, SignalsImplementRouter, PTL

-----------------------------------------------------------------------------
(* A signal that was only detected backs proposals of workflows and asks for *)
(* nothing else.                                                             *)
ForWorkflow(s) == \A n \in 1..Len(s) : s[n].sink = "workflow"

DetectInv ==
    /\ heard \subseteq 1..signals
    /\ \A i \in Ids : evidence[i].signals \cap heard # {} => proposals[i].sink = "workflow"
    /\ \A c \in Callers : sig[c] \in heard => ForWorkflow(reqs[c])

LEMMA DetectedForWorkflow ==
    ASSUME NEW in \in Inputs, in \in Detected
    PROVE  ForWorkflow(Requests(learning_fill_target_key(in)))
<1> DEFINE f == learning_fill_target_key(in)
<1>1. in.type \in {"other", "workflow_repetition"}
  <2>1. \/ \E kind \in Turns : in \in learning_implicit_detect_turn(kind)
        \/ \E q \in Questions : in \in learning_implicit_record_repeat_question(q[1], q[2])
        \/ \E k \in Corrections : in \in learning_implicit_record_correction(k[1], k[2])
        \/ \E w \in Workflows : in \in learning_implicit_record_workflow(w[1], w[2], w[3])
    BY Zenon DEF Detected
  <2>2. \A kind : learning_implicit_detect_turn(kind)
            \subseteq {emit_implicit("other", "", 0, "detected", "", "")}
    BY Zenon DEF learning_implicit_detect_turn
  <2>3. \A tool, repeat : learning_implicit_record_repeat_question(tool, repeat)
            \subseteq {emit_implicit("other", tool, 0, "detected", "", "")}
    BY Zenon DEF learning_implicit_record_repeat_question
  <2>4. \A key, mem : learning_implicit_record_correction(key, mem)
            \subseteq {emit_implicit("other", key, mem, "detected", "", "")}
    BY Zenon DEF learning_implicit_record_correction
  <2>5. \A workspace, type, desc : learning_implicit_record_workflow(workspace, type, desc)
            \subseteq {emit_implicit("workflow_repetition", workspace, 0, desc,
                                     workspace, type)}
    BY Zenon DEF learning_implicit_record_workflow
  <2>6. ASSUME NEW kind, in \in learning_implicit_detect_turn(kind)
        PROVE  in.type = "other"
    <3>1. in = emit_implicit("other", "", 0, "detected", "", "")
      BY <2>2, <2>6, Zenon
    <3> QED BY <3>1 DEF emit_implicit
  <2>7. ASSUME NEW q, in \in learning_implicit_record_repeat_question(q[1], q[2])
        PROVE  in.type = "other"
    <3>1. in = emit_implicit("other", q[1], 0, "detected", "", "")
      BY <2>3, <2>7, Zenon
    <3> QED BY <3>1 DEF emit_implicit
  <2>8. ASSUME NEW k \in Corrections, in \in learning_implicit_record_correction(k[1], k[2])
        PROVE  in.type = "other"
    <3>1. in = emit_implicit("other", k[1], k[2], "detected", "", "")
      BY <2>4, <2>8, Zenon
    <3> QED BY <3>1 DEF emit_implicit
  <2>9. ASSUME NEW w \in Workflows,
                in \in learning_implicit_record_workflow(w[1], w[2], w[3])
        PROVE  in.type = "workflow_repetition"
    <3>1. in = emit_implicit("workflow_repetition", w[1], 0, w[3], w[1], w[2])
      BY <2>5, <2>9, Zenon
    <3> QED BY <3>1 DEF emit_implicit
  <2> QED BY <2>1, <2>6, <2>7, <2>8, <2>9
<1>2. f \in Input /\ f.type = in.type
  BY InputsAssumption DEF learning_fill_target_key, Input
<1> HIDE DEF f
<1>3. SinkMask(f.type) \subseteq {"workflow"} /\ f.type # "correction"
  BY <1>1, <1>2 DEF SinkMask
<1>4. RerankerRequests(f) = <<>> /\ SupersedeRequests(f) = <<>> /\ RuleRequests(f) = <<>>
  <2>1. "reranker" \notin SinkMask(f.type) /\ "supersede" \notin SinkMask(f.type)
        /\ "rule" \notin SinkMask(f.type)
    BY <1>3
  <2> QED BY <2>1, Zenon DEF RerankerRequests, SupersedeRequests, RuleRequests
<1>5. WorkflowRequests(f) \in Seq(Request)
  BY <1>2, PartsType
<1>6. Requests(f) = WorkflowRequests(f)
  BY <1>4, <1>5 DEF Requests
<1>7. \A k, a : ForWorkflow(<<[sink |-> "workflow", key |-> k, mem |-> 0, action |-> a,
                              high |-> FALSE]>>)
  BY DEF ForWorkflow
<1>8. ForWorkflow(<<>>)
  BY DEF ForWorkflow
<1>9. ForWorkflow(WorkflowRequests(f))
  BY <1>7, <1>8, Zenon DEF WorkflowRequests
<1> QED BY <1>6, <1>9 DEF f

LEMMA TailForWorkflow ==
    ASSUME NEW s \in Seq(Request), s # <<>>, ForWorkflow(s)
    PROVE  ForWorkflow(Tail(s))
<1> SUFFICES ASSUME NEW n \in 1..Len(Tail(s)) PROVE Tail(s)[n].sink = "workflow"
  BY DEF ForWorkflow
<1>1. n + 1 \in 1..Len(s) /\ Tail(s)[n] = s[n + 1]
  OBVIOUS
<1> QED BY <1>1 DEF ForWorkflow

LEMMA DetectRecord ==
    ASSUME TypeOK, GateInv, DetectInv, NEW c \in Callers, Record(c)
    PROVE  DetectInv'
<1>1. PICK in \in Inputs :
        \/ /\ RecordInput(c, in)
           /\ heard' = IF in \in Detected /\ signals' # signals
                       THEN heard \cup {signals'} ELSE heard
        \/ UNCHANGED <<vars, heard>>
  BY Zenon DEF Record
<1>2. CASE UNCHANGED <<vars, heard>>
  BY <1>2 DEF vars, DetectInv, ForWorkflow
<1>3. CASE ~(UNCHANGED <<vars, heard>>)
  <2> DEFINE queue == Requests(learning_fill_target_key(in))
  <2>1. /\ RecordInput(c, in)
        /\ heard' = IF in \in Detected /\ signals' # signals
                    THEN heard \cup {signals'} ELSE heard
    BY <1>1, <1>3
  <2>2. RowsKept /\ evidence' = evidence
    BY <2>1, SweepKeeps DEF RecordInput
  <2>3. /\ signals \in Nat /\ signals' \in Nat
        /\ signals' = signals \/ signals' = signals + 1
        /\ 1..signals \subseteq 1..signals'
        /\ signals' # signals => signals' \notin 1..signals /\ signals' \in 1..signals'
    BY <2>1, BoundsAssumption DEF RecordInput, TypeOK
  <2>4. heard \subseteq heard' /\ heard' \subseteq heard \cup ({signals'} \ {signals})
    BY <2>1
  <2>5. heard' \subseteq 1..signals'
    BY <2>3, <2>4 DEF DetectInv
  <2>6. \A i \in Ids :
            evidence'[i].signals \cap heard' # {} => proposals'[i].sink = "workflow"
    <3> SUFFICES ASSUME NEW i \in Ids, NEW s \in evidence'[i].signals, s \in heard'
                 PROVE  proposals'[i].sink = "workflow"
      OBVIOUS
    <3>1. s \in 1..signals
      BY <2>2 DEF GateInv, RowOK
    <3>2. s \in heard
      BY <2>3, <2>4, <3>1
    <3> QED BY <2>2, <3>2 DEF DetectInv, RowsKept
  <2>7. ASSUME NEW d \in Callers, sig'[d] \in heard' PROVE ForWorkflow(reqs'[d])
    <3> HIDE DEF queue
    <3>1. CASE reqs'[d] = reqs[d] /\ sig'[d] = sig[d]
      <4>1. CASE reqs[d] = <<>>
        BY <3>1, <4>1 DEF ForWorkflow
      <4>2. CASE reqs[d] # <<>>
        <5>1. sig[d] \in 1..signals
          BY <4>2 DEF TypeOK
        <5>2. sig[d] \in heard
          BY <2>3, <2>4, <2>7, <3>1, <5>1
        <5> QED BY <3>1, <5>2 DEF DetectInv
      <4> QED BY <4>1, <4>2
    <3>2. CASE ~(reqs'[d] = reqs[d] /\ sig'[d] = sig[d])
      <4>1. reqs'[d] = queue /\ sig'[d] = signals + 1 /\ signals' = signals + 1
        BY <2>1, <3>2 DEF RecordInput, TypeOK, queue
      <4>2. signals' \notin heard
        BY <2>3, <4>1 DEF DetectInv
      <4>3. in \in Detected
        BY <2>1, <2>7, <4>1, <4>2
      <4> QED BY <4>1, <4>3, DetectedForWorkflow DEF queue
    <3> QED BY <3>1, <3>2
  <2> QED BY <2>5, <2>6, <2>7, Zenon DEF DetectInv, ForWorkflow
<1> QED BY <1>2, <1>3

(* The other steps add no request and drop the signal with the last one. *)
SignalKept == \A d \in Callers : sig'[d] = sig[d] \/ sig'[d] = 0

LEMMA KeptForWorkflow ==
    ASSUME TypeOK, DetectInv, NEW c \in Callers, RequestsKept(c), SignalKept, heard' = heard
    PROVE  \A d \in Callers : sig'[d] \in heard' => ForWorkflow(reqs'[d])
<1> SUFFICES ASSUME NEW d \in Callers, sig'[d] \in heard'
             PROVE  ForWorkflow(reqs'[d])
  OBVIOUS
<1>1. reqs \in [Callers -> Seq(Request)]
  BY DEF TypeOK
<1>2. \/ reqs'[d] = reqs[d] \/ reqs'[d] = <<>>
      \/ reqs[d] # <<>> /\ reqs'[d] = Tail(reqs[d])
  BY <1>1 DEF RequestsKept, NextRequest
<1>3. ForWorkflow(reqs[d])
  BY DEF SignalKept, DetectInv
<1>4. ForWorkflow(<<>>)
  BY DEF ForWorkflow
<1>5. reqs[d] # <<>> => ForWorkflow(Tail(reqs[d]))
  BY <1>1, <1>3, TailForWorkflow
<1> QED BY <1>2, <1>3, <1>4, <1>5, Zenon

LEMMA DetectKept ==
    ASSUME TypeOK, DetectInv, NEW c \in Callers, RowsKept, RequestsKept(c), SignalKept,
           heard' = heard, signals' = signals,
           \A i \in Ids : evidence'[i].signals = evidence[i].signals
    PROVE  DetectInv'
<1>1. \A d \in Callers : sig'[d] \in heard' => ForWorkflow(reqs'[d])
  BY KeptForWorkflow
<1>2. \A i \in Ids : evidence'[i].signals \cap heard' # {} => proposals'[i].sink = "workflow"
  BY DEF DetectInv, RowsKept
<1>3. heard' \subseteq 1..signals'
  BY DEF DetectInv
<1> QED BY <1>1, <1>2, <1>3, Zenon DEF DetectInv, ForWorkflow

LEMMA DispatchKeepsSignals ==
    ASSUME TypeOK, NEW c \in Callers, Step(c)
    PROVE  SignalKept /\ signals' = signals
<1>1. sig' = sig \/ NextRequest(c)
  BY Zenon DEF Step, Find, Bump, Recheck, Insert, Get, CheckCap, CapArchive, ApplySink,
              MarkCommitted, RejectArchive, Final, Settle
<1>2. SignalKept
  BY <1>1 DEF SignalKept, NextRequest, TypeOK
<1>3. signals' = signals
  BY Zenon DEF Step, Find, Bump, Recheck, Insert, Get, CheckCap, CapArchive, ApplySink,
              MarkCommitted, RejectArchive, Final, store
<1> QED BY <1>2, <1>3

(* A corroborated row has the sink of the request, an inserted row takes it. *)
LEMMA DetectBump ==
    ASSUME TypeOK, GateInv, DetectInv, NEW c \in Callers, Bump(c), heard' = heard
    PROVE  DetectInv'
<1>1. RowsKept /\ RequestsKept(c) /\ SignalKept /\ signals' = signals
  <2>1. Step(c) /\ ~Insert(c)
    BY DEF Step, Bump, Insert
  <2> QED BY <2>1, DispatchKeeps, DispatchKeepsSignals
<1>2. ASSUME NEW i \in Ids, evidence'[i].signals \cap heard' # {}
      PROVE  proposals'[i].sink = "workflow"
  <2>1. CASE i # pid[c]
    <3>1. evidence'[i] = evidence[i]
      BY <2>1 DEF Bump, TypeOK
    <3> QED BY <1>1, <1>2, <3>1 DEF DetectInv, RowsKept
  <2>2. CASE i = pid[c]
    <3>1. evidence'[i].signals = evidence[i].signals \cup {sig[c]}
      <4>1. evidence[i] \in Evidence
        BY DEF TypeOK
      <4> QED BY <2>2, <4>1 DEF Bump, TypeOK, Evidence
    <3>2. CASE sig[c] \in heard
      <4>1. reqs[c] # <<>> /\ reqs[c] \in Seq(Request) /\ proposals[i].sink = reqs[c][1].sink
        BY <2>2 DEF Bump, TypeOK, Routing, GateInv, HoldingOK
      <4>2. ForWorkflow(reqs[c])
        BY <3>2 DEF DetectInv
      <4>3. 1 \in 1..Len(reqs[c])
        BY <4>1
      <4> QED BY <1>1, <4>1, <4>2, <4>3 DEF ForWorkflow, RowsKept
    <3>3. CASE sig[c] \notin heard
      <4>1. evidence[i].signals \cap heard # {}
        BY <1>2, <3>1, <3>3
      <4> QED BY <1>1, <4>1 DEF DetectInv, RowsKept
    <3> QED BY <3>2, <3>3
  <2> QED BY <2>1, <2>2
<1>3. \A d \in Callers : sig'[d] \in heard' => ForWorkflow(reqs'[d])
  BY <1>1, KeptForWorkflow
<1>4. heard' \subseteq 1..signals'
  BY <1>1 DEF DetectInv
<1> QED BY <1>2, <1>3, <1>4, Zenon DEF DetectInv, ForWorkflow

LEMMA DetectInsert ==
    ASSUME TypeOK, DetectInv, NEW c \in Callers, Insert(c), heard' = heard
    PROVE  DetectInv'
<1> DEFINE r == Head(reqs[c])
<1>1. RequestsKept(c)
  BY Zenon DEF Insert, RequestsKept
<1>2. SignalKept /\ signals' = signals
  BY DispatchKeepsSignals DEF Step
<1>3. \A d \in Callers : sig'[d] \in heard' => ForWorkflow(reqs'[d])
  BY <1>1, <1>2, KeptForWorkflow
<1>4. heard' \subseteq 1..signals'
  BY <1>2 DEF DetectInv
<1>5. CASE UNCHANGED <<proposals, evidence>>
  BY <1>1, <1>2, <1>5, DetectKept DEF RowsKept
<1>6. ASSUME NEW i \in Ids,
             proposals' = [proposals EXCEPT ![i] = NewRow(r.sink, r.key, r.mem, r.action)],
             evidence' = [evidence EXCEPT ![i] =
                    [NoEvidence EXCEPT !.signals = {sig[c]}, !.agree = {sig[c]},
                                       !.high = r.high, !.unseen = pid[c] < 0]]
      PROVE  DetectInv'
  <2>1. sig[c] \in heard => r.sink = "workflow"
    <3>1. reqs[c] \in Seq(Request) /\ reqs[c] # <<>>
      BY DEF Insert, TypeOK, Routing
    <3>2. 1 \in 1..Len(reqs[c]) /\ r = reqs[c][1]
      BY <3>1
    <3> QED BY <3>2, Zenon DEF DetectInv, ForWorkflow
  <2>2. proposals'[i].sink = r.sink /\ evidence'[i].signals = {sig[c]}
    BY <1>6 DEF TypeOK, NewRow, NoEvidence
  <2>3. \A j \in Ids : j # i => proposals'[j] = proposals[j] /\ evidence'[j] = evidence[j]
    BY <1>6 DEF TypeOK
  <2> HIDE DEF r
  <2>4. \A j \in Ids : evidence'[j].signals \cap heard' # {} => proposals'[j].sink = "workflow"
    BY <2>1, <2>2, <2>3 DEF DetectInv
  <2> QED BY <1>3, <1>4, <2>4, Zenon DEF DetectInv, ForWorkflow
<1> QED BY <1>5, <1>6, Zenon DEF Insert

LEMMA DetectDispatch ==
    ASSUME TypeOK, GateInv, DetectInv, NEW c \in Callers, Step(c), heard' = heard
    PROVE  DetectInv'
<1>1. CASE Bump(c)
  BY <1>1, DetectBump
<1>2. CASE Insert(c)
  BY <1>2, DetectInsert
<1>3. CASE ~Bump(c) /\ ~Insert(c)
  <2>1. RowsKept /\ RequestsKept(c) /\ SignalKept /\ signals' = signals
    BY <1>3, DispatchKeeps, DispatchKeepsSignals
  <2>2. \/ evidence' = evidence
        \/ evidence' = [evidence EXCEPT ![pid[c]].applies = @ + 1]
        \/ CheckCap(c)
        \/ MarkCommitted(c)
    BY <1>3, Zenon DEF Step, Find, Recheck, Get, CapArchive, ApplySink,
                      RejectArchive, Final, store
  <2>3. ASSUME NEW i \in Ids PROVE evidence'[i].signals = evidence[i].signals
    <3>1. evidence[i] \in Evidence /\ evidence \in [Ids -> Evidence]
      BY DEF TypeOK
    <3>2. CASE evidence' = evidence
      BY <3>2
    <3>3. CASE evidence' = [evidence EXCEPT ![pid[c]].applies = @ + 1]
      BY <3>1, <3>3 DEF Evidence
    <3>4. CASE CheckCap(c)
      <4>1. pid[c] \in Ids
        BY <3>4 DEF CheckCap, TypeOK, Holding, Pc
      <4>2. \/ evidence' = evidence
            \/ \E failed \in BOOLEAN : evidence' = [evidence EXCEPT ![pid[c]].uncounted = failed]
        BY <3>4, Zenon DEF CheckCap
      <4> QED BY <4>1, <4>2, CountKeeps DEF EvidenceKept
    <3>5. CASE MarkCommitted(c)
      <4>1. pid[c] \in Ids
        BY <3>5 DEF MarkCommitted, TypeOK, Holding, Pc
      <4>2. evidence' = evidence \/ LoseMark(pid[c])
        BY <3>5, Zenon DEF MarkCommitted
      <4> QED BY <4>1, <4>2, LoseMarkKeeps DEF EvidenceKept
    <3> QED BY <2>2, <3>2, <3>3, <3>4, <3>5
  <2> QED BY <2>1, <2>3, DetectKept
<1> QED BY <1>1, <1>2, <1>3

LEMMA DetectOther ==
    ASSUME TypeOK, DetectInv, NEW c \in Callers, OtherCall(c)
    PROVE  DetectInv'
<1>1. CASE AcceptProposal(c) \/ RejectProposal(c) \/ ListProposals(c)
  <2>1. /\ RowsKept
        /\ reqs' = reqs /\ sig' = sig /\ signals' = signals
        /\ heard' = heard
    BY <1>1, SweepKeeps DEF AcceptProposal, RejectProposal, ListProposals, calls, OtherCall
  <2>2. ASSUME NEW i \in Ids PROVE evidence'[i].signals = evidence[i].signals
    <3>1. evidence[i] \in Evidence /\ evidence \in [Ids -> Evidence]
      BY DEF TypeOK
    <3>2. \/ evidence' = evidence
          \/ \E j \in Ids : evidence' = [evidence EXCEPT ![j].accepted = TRUE]
      BY <1>1, Zenon DEF AcceptProposal, RejectProposal, ListProposals
    <3>3. ASSUME NEW j \in Ids, evidence' = [evidence EXCEPT ![j].accepted = TRUE]
          PROVE  evidence'[i].signals = evidence[i].signals
      BY <3>1, <3>3 DEF Evidence
    <3> QED BY <3>2, <3>3
  <2> QED BY <2>1, <2>2, DetectKept DEF RequestsKept, SignalKept
<1>2. CASE Crash(c)
  <2>1. RowsKept /\ RequestsKept(c) /\ SignalKept
    BY <1>2 DEF Crash, store, RowsKept, RequestsKept, SignalKept, TypeOK
  <2>2. signals' = signals /\ heard' = heard
    BY <1>2 DEF Crash, OtherCall
  <2>3. ASSUME NEW i \in Ids PROVE evidence'[i].signals = evidence[i].signals
    <3>1. CASE evidence' = evidence
      BY <3>1
    <3>2. CASE pc[c] = "mark" /\ LoseMark(pid[c])
      <4>1. pid[c] \in Ids
        BY <3>2 DEF TypeOK, Holding, Pc
      <4> QED BY <3>2, <4>1, LoseMarkKeeps DEF EvidenceKept
    <3> QED BY <1>2, <3>1, <3>2, Zenon DEF Crash
  <2> QED BY <2>1, <2>2, <2>3, DetectKept
<1> QED BY <1>1, <1>2 DEF OtherCall

LEMMA DetectMineArtifact ==
    ASSUME TypeOK, DetectInv, MineArtifact, heard' = heard
    PROVE  DetectInv'
<1>1. PICK i \in Ids, a \in MinedActions :
        /\ proposals' = [proposals EXCEPT ![i] = NewRow("artifact", "", 0, a)]
        /\ evidence' = [evidence EXCEPT ![i] = NoEvidence]
  BY Zenon DEF MineArtifact
<1>2. reqs' = reqs /\ sig' = sig /\ signals' = signals
  BY DEF MineArtifact, calls
<1>3. \A j \in Ids : \/ evidence'[j].signals = {}
                     \/ evidence'[j] = evidence[j] /\ proposals'[j] = proposals[j]
  BY <1>1 DEF TypeOK, NoEvidence
<1>4. \A j \in Ids : evidence'[j].signals \cap heard' # {} => proposals'[j].sink = "workflow"
  BY <1>3 DEF DetectInv
<1> QED BY <1>2, <1>4, Zenon DEF DetectInv, ForWorkflow

LEMMA DetectStep == TypeOK /\ GateInv /\ DetectInv /\ [SignalNext]_signalVars => DetectInv'
<1> SUFFICES ASSUME TypeOK, GateInv, DetectInv, [SignalNext]_signalVars PROVE DetectInv'
  OBVIOUS
<1>1. ASSUME NEW c \in Callers, Dispatch(c) PROVE DetectInv'
  BY <1>1, DetectDispatch DEF Dispatch
<1>2. CASE (Tick /\ UNCHANGED <<told, heard>>) \/ UNCHANGED signalVars
  <2>1. /\ proposals' = proposals /\ evidence' = evidence /\ signals' = signals
        /\ reqs' = reqs /\ sig' = sig /\ heard' = heard
    BY <1>2 DEF Tick, signalVars, vars, store, calls
  <2> QED BY <2>1, Zenon DEF DetectInv, ForWorkflow
<1>3. CASE MineArtifact /\ UNCHANGED <<told, heard>>
  BY <1>3, DetectMineArtifact
<1> QED BY <1>1, <1>2, <1>3, DetectRecord, DetectOther DEF SignalNext

(* What was only detected stays a suggestion about workflows, that nothing   *)
(* applies before a second signal or an operator agrees: for any detectors,  *)
(* callers and faults.                                                       *)
THEOREM DetectionsSuggestHolds == SignalSpec => []DetectionsSuggest
<1>1. SignalInit => DetectInv
  <2> SUFFICES ASSUME SignalInit PROVE DetectInv
    OBVIOUS
  <2>1. heard = {}
    BY DEF SignalInit
  <2> QED BY <2>1 DEF DetectInv
<1>2. TypeOK /\ GateInv /\ DetectInv => DetectionsSuggest
  <2> SUFFICES ASSUME TypeOK, GateInv, DetectInv, NEW i \in Ids,
                      evidence[i].signals \cap heard # {}
               PROVE  /\ proposals[i].sink = "workflow"
                      /\ evidence[i].applies > 0 =>
                            evidence[i].accepted \/ Cardinality(evidence[i].signals) > 1
    BY DEF DetectionsSuggest
  <2>1. proposals[i].sink = "workflow"
    BY DEF DetectInv
  <2>2. CASE evidence[i].applies > 0 /\ ~evidence[i].accepted
    <3>1. Backed(i)
      BY <2>2 DEF GateInv, RowOK
    <3>2. PICK s \in evidence[i].signals, t \in evidence[i].signals : s # t
      BY <2>1, <2>2, <3>1 DEF Backed
    <3>3. IsFiniteSet(evidence[i].signals)
      <4>1. evidence[i].signals \subseteq 1..signals /\ signals \in Nat
        BY BoundsAssumption DEF GateInv, RowOK, TypeOK
      <4> QED BY <4>1, FS_Interval, FS_Subset
    <3>4. Cardinality({s, t}) = 2
      <4>1. IsFiniteSet({s}) /\ Cardinality({s}) = 1 /\ t \notin {s}
        BY <3>2, FS_Singleton
      <4>2. Cardinality({s} \cup {t}) = Cardinality({s}) + 1
        BY <4>1, FS_AddElement
      <4>3. {s, t} = {s} \cup {t}
        OBVIOUS
      <4> QED BY <4>1, <4>2, <4>3
    <3>5. Cardinality({s, t}) <= Cardinality(evidence[i].signals)
      <4>1. {s, t} \subseteq evidence[i].signals
        BY <3>2
      <4> QED BY <3>3, <4>1, FS_Subset
    <3>6. Cardinality(evidence[i].signals) \in Nat
      BY <3>3, FS_CardinalityType
    <3> QED BY <2>1, <3>4, <3>5, <3>6
  <2> QED BY <2>1, <2>2
<1>3. Spec => []GateInv
  BY GateInit, GateStep, TypeCorrect, PTL DEF Spec
<1> QED BY <1>1, <1>2, <1>3, DetectStep, TypeCorrect, SignalsImplementRouter, PTL
            DEF SignalSpec
=============================================================================
