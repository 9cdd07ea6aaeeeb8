--------------------------- MODULE LearningSignals ---------------------------
(***************************************************************************)
(* What comes into and out of the router of module LearningRouter: the     *)
(* detectors of learning_implicit.c, which turn what happens in a session  *)
(* into signals nobody asked for, and the learning_dispatch_result_t that  *)
(* learning_router_record_signal fills in for its caller while it works.   *)
(***************************************************************************)
EXTENDS LearningRouter

CONSTANTS
    Flags,          \* the learning_implicit_* settings that are on
    Turns,          \* the classifications of user turns: "repair", "continuation", ...
    Questions,      \* <<tool, whether the question was asked before this month>>
    Corrections,    \* <<target key, target memory>> of corrections
    Workflows       \* <<workspace, signal type, description>> that were stored

VARIABLES
    told,   \* [Callers -> the result of the caller's latest call]
    heard   \* the signals that were detected, not stated: history

signalVars == <<vars, told, heard>>

-----------------------------------------------------------------------------
(* The signals the detectors emit.  Their title and evidence are fixed, and  *)
(* all but one type are of no interest to any sink.                          *)
emit_implicit(type, key, mem, desc, project, wtype) ==
    [type |-> type, key |-> key, mem |-> mem, text |-> "", title |-> "detected",
     desc |-> desc, refs |-> "empty", project |-> project, wtype |-> wtype,
     high |-> FALSE]

learning_implicit_detect_turn(kind) ==
    IF \/ kind = "repair" /\ "citation_repair" \in Flags
       \/ kind = "continuation" /\ "citation_continuation" \in Flags
    THEN {emit_implicit("other", "", 0, "detected", "", "")} ELSE {}

learning_implicit_record_repeat_question(tool, repeat) ==
    IF "repeat_question" \in Flags /\ repeat
    THEN {emit_implicit("other", tool, 0, "detected", "", "")} ELSE {}

(* A bug: the detection passes for the correction it was made from. *)
RecordCorrectionAsStated(key, mem) ==
    IF "repeated_correction" \in Flags
    THEN {emit_implicit("correction", key, mem, "detected", "", "")} ELSE {}

learning_implicit_record_correction(key, mem) ==
    IF "repeated_correction" \in Flags
    THEN {emit_implicit("other", key, mem, "detected", "", "")} ELSE {}

learning_implicit_record_workflow(workspace, type, desc) ==
    IF workspace # "" /\ type # "" /\ "workflow_repetition" \in Flags
    THEN {emit_implicit("workflow_repetition", workspace, 0, desc, workspace, type)} ELSE {}

Detected ==
    UNION ({learning_implicit_detect_turn(kind) : kind \in Turns}
        \cup {learning_implicit_record_repeat_question(q[1], q[2]) : q \in Questions}
        \cup {learning_implicit_record_correction(k[1], k[2]) : k \in Corrections}
        \cup {learning_implicit_record_workflow(w[1], w[2], w[3]) : w \in Workflows})

-----------------------------------------------------------------------------
(* learning_dispatch_clear *)
Nothing == [proposals |-> {}, committed |-> {}]
Clear(c) == told' = [told EXCEPT ![c] = Nothing]

(* The proposal that the present step queues for a request, and the one it *)
(* finds committed when it is done with the request.                       *)
Queued(c) ==
    {i \in Ids : \/ pc[c] = "bump" /\ i = pid[c]
                 \/ pc[c] = "insert" /\ proposals[i] # proposals'[i]}

(* A bug: a commit that returned is taken for a commit. *)
CommittedUnread(c) ==
    {i \in Ids : i = pid[c] /\ reqs[c] # <<>> /\ pc[c] = "final" /\ faults' = faults}

(* The row learning_commit_proposal read last, if it could be read. *)
Committed(c) ==
    {i \in Ids : /\ i = pid[c] /\ reqs[c] # <<>>
                 /\ pc[c] \in {"get", "final"}
                 /\ faults' = faults
                 /\ proposals'[i].state = "committed"}

(* record_signal starts: the result is cleared and the signal recorded, or *)
(* the gate or the classifier refuses it.                                  *)
Record(c) ==
    /\ pc[c] = "idle"
    /\ \E in \in Inputs :
        \/ /\ RecordInput(c, in)
           /\ heard' = IF in \in Detected /\ signals' # signals
                       THEN heard \cup {signals'} ELSE heard
        \/ UNCHANGED <<vars, heard>>
    /\ Clear(c)

(* The other calls, and a crash, leave no result of record_signal. *)
OtherCall(c) ==
    /\ AcceptProposal(c) \/ RejectProposal(c) \/ ListProposals(c) \/ Crash(c)
    /\ Clear(c)
    /\ UNCHANGED heard

(* A step of the call adds to the result what it queues and commits. *)
Dispatch(c) ==
    /\ Step(c)
    /\ told' = [told EXCEPT ![c] = [proposals |-> @.proposals \cup Queued(c),
                                    committed |-> @.committed \cup Committed(c)]]
    /\ UNCHANGED heard

SignalInit == Init /\ told = [c \in Callers |-> Nothing] /\ heard = {}

SignalNext ==
    \/ \E c \in Callers : Record(c) \/ OtherCall(c) \/ Dispatch(c)
    \/ (MineArtifact \/ Tick) /\ UNCHANGED <<told, heard>>

(* A caller inside the router keeps running: nothing in it waits. *)
SignalSpec ==
    SignalInit /\ [][SignalNext]_signalVars /\ \A c \in Callers : WF_signalVars(Dispatch(c))
-----------------------------------------------------------------------------
(* With one caller the result of a call is the truth about the store: of    *)
(* the proposals it names as queued, it names those as committed that are,  *)
(* also when the cap, a sink or a settled row stopped some of them; a read  *)
(* that fails may keep a commit from it, and nothing adds one.              *)
ResultMatchesStore ==
    \A c \in Callers :
        LET settled == {i \in told[c].proposals : proposals[i].state = "committed"}
        IN  /\ told[c].committed \subseteq settled
            /\ pc[c] = "idle" /\ faults = 0 => told[c].committed = settled

(* What was only detected stays a suggestion about workflows: it backs no   *)
(* proposal of another sink (memories, rules), and none that was applied    *)
(* before it was detected twice or accepted by an operator.                 *)
DetectionsSuggest ==
    \A i \in Ids :
        evidence[i].signals \cap heard # {} =>
            /\ proposals[i].sink = "workflow"
            /\ evidence[i].applies > 0 =>
                    evidence[i].accepted \/ Cardinality(evidence[i].signals) > 1

(* What the gate rejects in a detection reaches no proposal, although every *)
(* detection also has a harmless title to show.                             *)
HostileNeverQueued ==
    \A i \in Ids :
        proposals[i].state # "absent" /\ proposals[i].sink = "workflow"
        => proposals[i].action.text \notin Hostile
=============================================================================
