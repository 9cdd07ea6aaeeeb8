--------------------------- MODULE LearningRouter ---------------------------
(***************************************************************************)
(* The proposal gate of src/modules/learning/learning_router.c.            *)
(*                                                                         *)
(* A signal (a thumb, a correction, a stated preference, ...) is recorded  *)
(* and routed to the sinks its type allows.  For each sink the router      *)
(* either corroborates the pending proposal for the same target or inserts *)
(* a new one; a proposal corroborated often enough, captured with high     *)
(* confidence or accepted by an operator is committed: its action is       *)
(* applied to the sink and the row is marked.  Commits are capped per sink *)
(* and week, and a pending proposal expires.                               *)
(*                                                                         *)
(* Every variable that outlives a call is a row of the DB2 store, which    *)
(* several processes share (the server, the CLI verbs, the KB drain), so   *)
(* the calls of different Callers interleave between any two DB2 calls:    *)
(* pc[c] names the DB2 call that caller c makes next.                      *)
(***************************************************************************)
EXTENDS Integers, FiniteSets, Sequences

CONSTANTS
    Callers,        \* the threads and processes that call the router
    Text,           \* the strings that occur in signals: keys, titles, texts, ...
    Inputs,         \* the learning_signal_input_t values that may be recorded
    KeyOf,          \* memory id -> its key, "" where memory_get fails
    Oversized,      \* texts whose rendered action overflows its C buffer
    Hostile,        \* texts the integrity gate rejects when it is enforced
    MinedActions,   \* the artifact actions kb_mining proposes
    InsertedCorroboration, \* corroboration_count of a row DB2 has just inserted
    ConfigTtl,      \* config_learning_proposal_ttl_days(), 0 if unset
    ConfigCap,      \* config_learning_max_commits_per_week(), 0 if unset
    Week,           \* length of the commit-count window, in clock units
    MaxProposals,   \* bound on the rows of the proposal table
    MaxSignals,     \* bound on the signals recorded
    MaxClock,       \* bound on time
    Faults,         \* the failures considered: "crash" of a caller, a DB2 "lost_write",
                    \* "failed_read", "failed_insert" or "failed_count",
                    \* a "failed_sink"
    MaxFaults       \* bound on their number

Ids == 1..MaxProposals
SignalIds == 1..MaxSignals
Sinks == {"reranker", "supersede", "rule", "workflow", "artifact"}

UserStated ==
    {"thumb_up", "thumb_down", "correction", "preference_statement", "mark_rule"}

(* "other": a signal type that no sink is interested in. *)
SignalTypes == UserStated \cup {"workflow_repetition", "other"}

CorrectionReason == "Repeated correction captured by learning router"
RuleReasons == {CorrectionReason, "Explicit rule capture", "Explicit user preference"}

(* What the properties tell apart of an action_json: what it does (verb), to *)
(* what and with which text, whether it cites a memory, and whether the      *)
(* string in the row still parses (snprintf cuts a rendering that is too     *)
(* long).                                                                    *)
Action == [verb : {"success", "failure", "supersede", "artifact"} \cup RuleReasons \cup Text,
           about : Text, text : Text, cites : BOOLEAN, parses : BOOLEAN]

Input == [type : SignalTypes, key : Text, mem : Int, text : Text,
          title : Text, desc : Text, refs : {"none", "empty", "ids", "overlong"},
          project : Text, wtype : Text, high : BOOLEAN]

Request == [sink : Sinks, key : Text, mem : Int, action : Action, high : BOOLEAN]

ASSUME CallersAssumption == IsFiniteSet(Callers) /\ Callers # {}
ASSUME InputsAssumption ==
    /\ "" \in Text
    /\ Inputs \subseteq Input
    /\ \A in \in Inputs : in.mem > 0 => in.mem \in DOMAIN KeyOf /\ KeyOf[in.mem] \in Text
    /\ MinedActions \subseteq Action
ASSUME BoundsAssumption ==
    /\ MaxProposals \in Nat
    /\ MaxSignals \in Nat
    /\ MaxClock \in Nat
    /\ MaxFaults \in Nat
    /\ Week \in Nat \ {0}
ASSUME ConfigAssumption == ConfigTtl \in Int /\ ConfigCap \in Int
ASSUME InsertedAssumption == InsertedCorroboration \in {0, 1}

VARIABLES
    proposals,  \* [Ids -> Row]: the learning_proposals table
    evidence,   \* [Ids -> Evidence]: history of each row, read only by properties
    signals,    \* how many signals were inserted: the last signal_id
    clock,      \* time
    faults,     \* how many faults have happened
    pc,         \* [Callers -> Pc]: the DB2 call each caller makes next
    reqs,       \* [Callers -> Seq(Request)]: sink requests still to queue
    sig,        \* [Callers -> 0..MaxSignals]: signal_id being routed
    pid         \* [Callers -> -1..MaxProposals]: proposal being worked on; at the
                \* insert, what the lookup returned: 0 for none, -1 if it failed

store == <<proposals, evidence, signals>>
calls == <<pc, reqs, sig, pid>>
vars == <<proposals, evidence, signals, clock, faults, pc, reqs, sig, pid>>

Row == [sink : Sinks, key : Text, mem : Int, action : Action,
        state : {"absent", "pending", "committed", "archived"},
        corr : Nat, expires : Int, committedAt : Nat,
        reason : {"", "expired", "weekly_cap", "rejected"}]

(* signals: the signals that inserted or corroborated the row; agree: those *)
(* of them that asked for the row's own action; unseen: it was inserted     *)
(* after a lookup that failed; uncounted: the count of commits that let it  *)
(* pass failed; applies: successful calls of learning_apply_sink; unmarked: *)
(* those of them whose mark was lost, with its write or with its caller.    *)
Evidence == [signals : SUBSET SignalIds, agree : SUBSET SignalIds,
             high : BOOLEAN, accepted : BOOLEAN, unseen : BOOLEAN,
             uncounted : BOOLEAN, applies : Nat, unmarked : Nat]

Pc == {"idle", "find", "bump", "recheck", "insert", "get", "cap",
       "cap_archive", "apply", "mark", "reject", "final"}

-----------------------------------------------------------------------------
(* Configuration, with the defaults of the code. *)
learning_proposal_ttl_days == IF ConfigTtl > 0 THEN ConfigTtl ELSE 7
learning_max_commits_per_week == IF ConfigCap > 0 THEN ConfigCap ELSE 25

(* The sinks a signal type is routed to: learning_signal_policy_sink_mask. *)
SinkMask(type) ==
    CASE type \in {"thumb_up", "thumb_down"} -> {"reranker"}
      [] type = "correction" -> {"reranker", "supersede", "rule"}
      [] type \in {"preference_statement", "mark_rule"} -> {"rule"}
      [] type = "workflow_repetition" -> {"workflow"}
      [] OTHER -> {}

(* A bug: the gate looks at the title first. *)
GateTextTitleFirst(in) ==
    IF in.title # "" THEN in.title ELSE IF in.desc # "" THEN in.desc ELSE in.text

(* The text the integrity gate inspects; the gate stops tool-origin signals only. *)
GateText(in) ==
    IF in.desc # "" THEN in.desc ELSE IF in.text # "" THEN in.text ELSE in.title
GateRejects(in) == in.type \notin UserStated /\ GateText(in) \in Hostile

learning_fill_target_key(in) ==
    IF in.key = "" /\ in.mem > 0 THEN [in EXCEPT !.key = KeyOf[in.mem]] ELSE in

-----------------------------------------------------------------------------
(* The action each sink is asked for. *)

learning_make_reranker_action(in) ==
    [verb |-> IF in.type = "thumb_up" THEN "success" ELSE "failure",
     about |-> "", text |-> "",
     cites |-> in.mem > 0 \/ in.refs \in {"ids", "overlong"},
     parses |-> in.mem > 0 \/ in.refs # "overlong"]

learning_make_supersede_action(in) ==
    [verb |-> "supersede", about |-> "", text |-> in.text, cites |-> TRUE,
     parses |-> in.text \notin Oversized]

learning_make_rule_action(about, text, reason) ==
    [verb |-> reason, about |-> about, text |-> text, cites |-> FALSE,
     parses |-> text \notin Oversized]

learning_make_workflow_action(in) ==
    [verb |-> in.wtype, about |-> in.project, text |-> in.desc, cites |-> FALSE,
     parses |-> in.desc \notin Oversized]

(* "For <key or title>, use <text>" when there is a text, else the bare text, *)
(* which is the empty description of a correction that only has a title.      *)
CorrectionRule(in) ==
    IF in.text # ""
    THEN learning_make_rule_action(IF in.key # "" THEN in.key ELSE in.title,
                                   in.text, CorrectionReason)
    ELSE learning_make_rule_action("", in.desc, CorrectionReason)

StatedRule(in) ==
    learning_make_rule_action("", IF in.desc # "" THEN in.desc ELSE in.title,
        IF in.type = "mark_rule" THEN "Explicit rule capture"
                                 ELSE "Explicit user preference")

RerankerRequests(in) ==
    IF /\ "reranker" \in SinkMask(in.type)
       /\ in.type = "correction" => in.mem > 0 \/ in.refs # "none"
    THEN <<[sink |-> "reranker", key |-> in.key, mem |-> in.mem,
            action |-> learning_make_reranker_action(in), high |-> FALSE]>>
    ELSE <<>>

SupersedeRequests(in) ==
    IF "supersede" \in SinkMask(in.type) /\ in.mem > 0 /\ in.text # ""
    THEN <<[sink |-> "supersede", key |-> in.key, mem |-> in.mem,
            action |-> learning_make_supersede_action(in), high |-> FALSE]>>
    ELSE <<>>

(* A bug the properties must catch: every rule request counts as explicit. *)
RuleRequestsAlwaysHigh(in) ==
    IF "rule" \in SinkMask(in.type)
    THEN <<[sink |-> "rule", key |-> in.key, mem |-> in.mem,
            action |-> IF in.type = "correction" THEN CorrectionRule(in)
                                                 ELSE StatedRule(in),
            high |-> TRUE]>>
    ELSE <<>>

RuleRequests(in) ==
    IF /\ "rule" \in SinkMask(in.type)
       /\ in.type = "correction" => in.text # "" \/ in.title # "" \/ in.desc # ""
    THEN <<[sink |-> "rule", key |-> in.key, mem |-> in.mem,
            action |-> IF in.type = "correction" THEN CorrectionRule(in)
                                                 ELSE StatedRule(in),
            high |-> in.type # "correction" /\ (in.high \/ in.type = "mark_rule")]>>
    ELSE <<>>

WorkflowRequests(in) ==
    IF /\ "workflow" \in SinkMask(in.type)
       /\ in.project # "" /\ in.wtype # "" /\ in.desc # ""
    THEN <<[sink |-> "workflow", key |-> in.project, mem |-> 0,
            action |-> learning_make_workflow_action(in), high |-> FALSE]>>
    ELSE <<>>

(* The calls of learning_queue_sink a signal causes, in order. *)
Requests(in) ==
    RerankerRequests(in) \o SupersedeRequests(in) \o RuleRequests(in)
        \o WorkflowRequests(in)

-----------------------------------------------------------------------------
(* The DB2 store, as the router uses it. *)

NoRow == [sink |-> "rule", key |-> "", mem |-> 0,
          action |-> [verb |-> "", about |-> "", text |-> "", cites |-> FALSE,
                      parses |-> FALSE],
          state |-> "absent", corr |-> 0, expires |-> 0, committedAt |-> 0,
          reason |-> ""]

NoEvidence == [signals |-> {}, agree |-> {}, high |-> FALSE, accepted |-> FALSE,
               unseen |-> FALSE, uncounted |-> FALSE, applies |-> 0, unmarked |-> 0]

Archived(row, reason) == [row EXCEPT !.state = "archived", !.reason = reason]

Fault(kind) == kind \in Faults /\ faults < MaxFaults /\ faults' = faults + 1

(* db2_learning_proposals_archive_expired *)
Swept(i) ==
    IF proposals[i].state = "pending" /\ proposals[i].expires <= clock
    THEN Archived(proposals[i], "expired")
    ELSE proposals[i]
ArchiveExpired == proposals' = [i \in Ids |-> Swept(i)]

(* A bug: the lookup skips proposals without a target memory. *)
FindPendingWithMemory(r) ==
    {i \in Ids : /\ proposals[i].state = "pending"
                 /\ proposals[i].sink = r.sink
                 /\ proposals[i].key = r.key
                 /\ r.mem > 0 /\ proposals[i].mem = r.mem}

(* db2_learning_proposal_find_pending *)
FindPending(r) ==
    {i \in Ids : /\ proposals[i].state = "pending"
                 /\ proposals[i].sink = r.sink
                 /\ proposals[i].key = r.key
                 /\ proposals[i].mem = r.mem}

(* db2_learning_commits_in_last_7_days *)
CommitsInWindow(sink) ==
    {i \in Ids : /\ proposals[i].state = "committed"
                 /\ proposals[i].sink = sink
                 /\ proposals[i].committedAt > clock - Week}

(* The by-id updates, whose results the router ignores: the write may be lost, *)
(* and whether it touches a row another caller has settled since the router    *)
(* looked at it is up to the store.                                            *)
UpdateRow(i, row) ==
    \/ proposals' = [proposals EXCEPT ![i] = row] /\ UNCHANGED faults
    \/ proposals[i].state # "pending" /\ UNCHANGED <<proposals, faults>>
    \/ Fault("lost_write") /\ UNCHANGED proposals

FreshId(i) == /\ proposals[i].state = "absent"
              /\ \A j \in Ids : j < i => proposals[j].state # "absent"

NewRow(sink, key, mem, action) ==
    [sink |-> sink, key |-> key, mem |-> mem, action |-> action,
     state |-> "pending", corr |-> InsertedCorroboration,
     expires |-> clock + learning_proposal_ttl_days, committedAt |-> 0,
     reason |-> ""]

-----------------------------------------------------------------------------
(* Control of a call. *)

Goto(c, label) == pc' = [pc EXCEPT ![c] = label]

(* Return from learning_queue_sink to record_signal's next request, or from *)
(* the call when there is none.                                             *)
NextRequest(c) ==
    /\ reqs' = [reqs EXCEPT ![c] = IF @ = <<>> THEN <<>> ELSE Tail(@)]
    /\ pc' = [pc EXCEPT ![c] = IF Len(reqs[c]) > 1 THEN "find" ELSE "idle"]
    /\ pid' = [pid EXCEPT ![c] = 0]
    /\ sig' = [sig EXCEPT ![c] = IF Len(reqs[c]) > 1 THEN @ ELSE 0]

Settle(c, label) == Goto(c, label) /\ UNCHANGED <<reqs, sig, pid>>

(* learning_router_record_signal up to the first queue_sink: the gate lets *)
(* the signal pass, the sweep runs, and the signal row is inserted (if the *)
(* insert fails the call ends there).  A signal the gate or the classifier *)
(* refuses changes nothing.                                                *)
RecordInput(c, in) ==
    /\ pc[c] = "idle"
    /\ ~GateRejects(in)
    /\ ArchiveExpired
    /\ \/ /\ signals < MaxSignals /\ UNCHANGED faults
          /\ signals' = signals + 1
          /\ LET queue == Requests(learning_fill_target_key(in)) IN
                \/ /\ queue # <<>>
                   /\ reqs' = [reqs EXCEPT ![c] = queue]
                   /\ sig' = [sig EXCEPT ![c] = signals + 1]
                   /\ Goto(c, "find")
                \/ queue = <<>> /\ UNCHANGED <<sig, reqs, pc>>
       \/ Fault("failed_insert") /\ UNCHANGED <<signals, sig, reqs, pc>>
    /\ UNCHANGED <<evidence, clock, pid>>

RecordSignal(c) == \E in \in Inputs : RecordInput(c, in)

(* A lookup that finds nothing returns 0, one that fails a negative number, *)
(* and the router inserts a proposal after both.                            *)
Found(c, result) ==
    pid' = [pid EXCEPT ![c] = result] /\ Goto(c, IF result > 0 THEN "bump" ELSE "insert")

(* learning_queue_sink: look for the pending proposal of the same target. *)
Find(c) ==
    /\ pc[c] = "find"
    /\ LET found == FindPending(Head(reqs[c])) IN
        \/ \E i \in found : Found(c, i) /\ UNCHANGED faults
        \/ found = {} /\ Found(c, 0) /\ UNCHANGED faults
        \/ Fault("failed_read") /\ Found(c, -1)
    /\ UNCHANGED <<store, clock, reqs, sig>>

(* learning_queue_sink: corroborate the proposal found. *)
Bump(c) ==
    /\ pc[c] = "bump"
    /\ UpdateRow(pid[c], [proposals[pid[c]] EXCEPT !.corr = @ + 1])
    /\ evidence' = [evidence EXCEPT
            ![pid[c]].signals = @ \cup {sig[c]},
            ![pid[c]].agree =
                IF Head(reqs[c]).action = proposals[pid[c]].action
                THEN @ \cup {sig[c]} ELSE @]
    /\ Settle(c, "recheck")
    /\ UNCHANGED <<signals, clock>>

(* learning_queue_sink: re-read it, and commit it once it is corroborated; *)
(* below two corroborations, or if the read fails, the request ends here.    *)
Recheck(c) ==
    /\ pc[c] = "recheck"
    /\ ArchiveExpired
    /\ \/ proposals[pid[c]].corr >= 2 /\ Settle(c, "get") /\ UNCHANGED faults
       \/ proposals[pid[c]].corr < 2 /\ NextRequest(c) /\ UNCHANGED faults
       \/ Fault("failed_read") /\ NextRequest(c)
    /\ UNCHANGED <<evidence, signals, clock>>

(* learning_queue_sink: insert a new proposal, and commit it at once when the *)
(* request has high confidence.  A failed insert ends the request.            *)
Insert(c) ==
    /\ pc[c] = "insert"
    /\ LET r == Head(reqs[c]) IN
        \/ \E i \in Ids :
            /\ FreshId(i)
            /\ proposals' = [proposals EXCEPT ![i] = NewRow(r.sink, r.key, r.mem, r.action)]
            /\ evidence' = [evidence EXCEPT ![i] =
                    [NoEvidence EXCEPT !.signals = {sig[c]}, !.agree = {sig[c]},
                                       !.high = r.high, !.unseen = pid[c] < 0]]
            /\ \/ /\ r.high
                  /\ Goto(c, "get")
                  /\ pid' = [pid EXCEPT ![c] = i]
                  /\ UNCHANGED <<reqs, sig>>
               \/ ~r.high /\ NextRequest(c)
            /\ UNCHANGED faults
        \/ /\ \/ Fault("failed_insert")
              \/ (\A i \in Ids : ~FreshId(i)) /\ UNCHANGED faults
           /\ NextRequest(c)
           /\ UNCHANGED <<proposals, evidence>>
    /\ UNCHANGED <<signals, clock>>

(* A bug: a settled row is waited for. *)
GetWaits(c) ==
    /\ pc[c] = "get"
    /\ ArchiveExpired
    /\ Settle(c, IF Swept(pid[c]).state = "pending" THEN "cap" ELSE "get")
    /\ UNCHANGED <<evidence, signals, clock, faults>>

(* learning_commit_proposal: read the row; a row that is settled, or cannot *)
(* be read, is left as it is.                                               *)
Get(c) ==
    /\ pc[c] = "get"
    /\ ArchiveExpired
    /\ \/ Swept(pid[c]).state = "pending" /\ Settle(c, "cap") /\ UNCHANGED faults
       \/ Swept(pid[c]).state # "pending" /\ NextRequest(c) /\ UNCHANGED faults
       \/ Fault("failed_read") /\ NextRequest(c)
    /\ UNCHANGED <<evidence, signals, clock>>

(* Two bugs: the comparison is off by one, or the cap is not checked. *)
CheckCapOffByOne(c) ==
    /\ pc[c] = "cap"
    /\ Settle(c, IF Cardinality(CommitsInWindow(proposals[pid[c]].sink))
                        > learning_max_commits_per_week
                 THEN "cap_archive" ELSE "apply")
    /\ UNCHANGED <<store, clock, faults>>
NoCapCheck(c) ==
    /\ pc[c] = "cap"
    /\ Settle(c, "apply")
    /\ UNCHANGED <<store, clock, faults>>

(* learning_commit_proposal: count the sink's commits of the week.  A count *)
(* that fails is negative, which is below every cap.                        *)
CheckCap(c) ==
    /\ pc[c] = "cap"
    /\ LET commits == Cardinality(CommitsInWindow(proposals[pid[c]].sink)) IN
        \/ /\ commits >= learning_max_commits_per_week
           /\ Settle(c, "cap_archive")
           /\ UNCHANGED <<evidence, faults>>
        \/ /\ commits < learning_max_commits_per_week
           /\ Settle(c, "apply")
           /\ evidence' = [evidence EXCEPT ![pid[c]].uncounted = FALSE]
           /\ UNCHANGED faults
        \/ /\ Fault("failed_count")
           /\ Settle(c, "apply")
           /\ evidence' = [evidence EXCEPT ![pid[c]].uncounted = TRUE]
    /\ UNCHANGED <<proposals, signals, clock>>

(* learning_commit_proposal: the sink has no commits left this week. *)
CapArchive(c) ==
    /\ pc[c] = "cap_archive"
    /\ UpdateRow(pid[c], Archived(proposals[pid[c]], "weekly_cap"))
    /\ Settle(c, "final")
    /\ UNCHANGED <<evidence, signals, clock>>

(* The checks learning_apply_sink makes before it calls the sink: a reranker *)
(* action that cites nothing succeeds without a call, the other actions need *)
(* a text.                                                                   *)
Applicable(row) == row.action.parses /\ (row.sink # "reranker" => row.action.text # "")

(* Two bugs: the row is not marked after the sink was called, or the result of *)
(* learning_apply_sink is ignored.                                             *)
ApplySinkUnmarked(c) ==
    /\ pc[c] = "apply"
    /\ \/ /\ Applicable(proposals[pid[c]])
          /\ evidence' = [evidence EXCEPT ![pid[c]].applies = @ + 1]
       \/ ~Applicable(proposals[pid[c]]) /\ UNCHANGED evidence
    /\ NextRequest(c)
    /\ UNCHANGED <<proposals, signals, clock, faults>>
ApplySinkUnchecked(c) ==
    /\ pc[c] = "apply"
    /\ \/ /\ Applicable(proposals[pid[c]])
          /\ evidence' = [evidence EXCEPT ![pid[c]].applies = @ + 1]
       \/ UNCHANGED evidence
    /\ Settle(c, "mark")
    /\ UNCHANGED <<proposals, signals, clock, faults>>

(* learning_commit_proposal: apply the action; the proposal stays pending if *)
(* that fails, in the checks or in the sink.                                 *)
ApplySink(c) ==
    /\ pc[c] = "apply"
    /\ \/ /\ Applicable(proposals[pid[c]])
          /\ evidence' = [evidence EXCEPT ![pid[c]].applies = @ + 1]
          /\ Settle(c, "mark")
          /\ UNCHANGED faults
       \/ /\ \/ Fault("failed_sink")
             \/ ~Applicable(proposals[pid[c]]) /\ UNCHANGED faults
          /\ NextRequest(c)
          /\ UNCHANGED evidence
    /\ UNCHANGED <<proposals, signals, clock>>

(* The mark of an application is lost. *)
LoseMark(i) == evidence' = [evidence EXCEPT ![i].unmarked = @ + 1]

(* learning_commit_proposal: mark the row. *)
MarkCommitted(c) ==
    /\ pc[c] = "mark"
    /\ UpdateRow(pid[c], [proposals[pid[c]] EXCEPT !.state = "committed",
                                                  !.committedAt = clock])
    /\ IF faults' = faults THEN UNCHANGED evidence ELSE LoseMark(pid[c])
    /\ Settle(c, "final")
    /\ UNCHANGED <<signals, clock>>

(* The learning_get_proposal that fills in the caller's result, if it can. *)
Final(c) ==
    /\ pc[c] = "final"
    /\ ArchiveExpired
    /\ UNCHANGED faults \/ Fault("failed_read")
    /\ NextRequest(c)
    /\ UNCHANGED <<evidence, signals, clock>>

(* learning_accept_proposal: sweep, then commit like a corroborated proposal. *)
AcceptProposal(c) ==
    /\ pc[c] = "idle"
    /\ \E i \in Ids :
        /\ proposals[i].state # "absent"
        /\ ArchiveExpired
        /\ evidence' = [evidence EXCEPT ![i].accepted = TRUE]
        /\ Goto(c, "get")
        /\ pid' = [pid EXCEPT ![c] = i]
    /\ UNCHANGED <<signals, clock, faults, reqs, sig>>

(* A bug: a settled proposal is rejected too. *)
RejectAnyState(c) ==
    /\ pc[c] = "idle"
    /\ \E i \in Ids :
        /\ proposals[i].state # "absent"
        /\ ArchiveExpired
        /\ Goto(c, "reject")
        /\ pid' = [pid EXCEPT ![c] = i]
    /\ UNCHANGED <<evidence, signals, clock, faults, reqs, sig>>

(* learning_reject_proposal: the read, then the archive of a row that was *)
(* not settled, then the read of the result.                              *)
RejectProposal(c) ==
    /\ pc[c] = "idle"
    /\ \E i \in Ids :
        /\ proposals[i].state # "absent"
        /\ ArchiveExpired
        /\ Goto(c, IF Swept(i).state = "pending" THEN "reject" ELSE "final")
        /\ pid' = [pid EXCEPT ![c] = i]
    /\ UNCHANGED <<evidence, signals, clock, faults, reqs, sig>>

RejectArchive(c) ==
    /\ pc[c] = "reject"
    /\ UpdateRow(pid[c], Archived(proposals[pid[c]], "rejected"))
    /\ Settle(c, "final")
    /\ UNCHANGED <<evidence, signals, clock>>

(* learning_list_proposals and learning_get_proposal sweep, then only read. *)
ListProposals(c) ==
    /\ pc[c] = "idle"
    /\ ArchiveExpired
    /\ UNCHANGED <<evidence, signals, clock, faults, calls>>

(* kb_mining puts an artifact proposal into the same table. *)
MineArtifact ==
    /\ \E i \in Ids, a \in MinedActions :
        /\ FreshId(i)
        /\ proposals' = [proposals EXCEPT ![i] = NewRow("artifact", "", 0, a)]
        /\ evidence' = [evidence EXCEPT ![i] = NoEvidence]
    /\ UNCHANGED <<signals, clock, faults, calls>>

Tick ==
    /\ clock < MaxClock
    /\ clock' = clock + 1
    /\ UNCHANGED <<store, faults, calls>>

(* A caller dies between two DB2 calls: its frame is gone, the rows stay. *)
Crash(c) ==
    /\ pc[c] # "idle"
    /\ Fault("crash")
    /\ pc' = [pc EXCEPT ![c] = "idle"]
    /\ reqs' = [reqs EXCEPT ![c] = <<>>]
    /\ sig' = [sig EXCEPT ![c] = 0]
    /\ pid' = [pid EXCEPT ![c] = 0]
    /\ IF pc[c] = "mark" THEN LoseMark(pid[c]) ELSE UNCHANGED evidence
    /\ UNCHANGED <<proposals, signals, clock>>

(* The DB2 call that caller c makes next, inside a call of the router. *)
Step(c) ==
    \/ Find(c) \/ Bump(c) \/ Recheck(c) \/ Insert(c)
    \/ Get(c) \/ CheckCap(c) \/ CapArchive(c) \/ ApplySink(c)
    \/ MarkCommitted(c) \/ RejectArchive(c) \/ Final(c)

Call(c) == RecordSignal(c) \/ AcceptProposal(c) \/ RejectProposal(c) \/ ListProposals(c)

Init ==
    /\ proposals = [i \in Ids |-> NoRow]
    /\ evidence = [i \in Ids |-> NoEvidence]
    /\ signals = 0
    /\ clock = 0
    /\ faults = 0
    /\ pc = [c \in Callers |-> "idle"]
    /\ reqs = [c \in Callers |-> <<>>]
    /\ sig = [c \in Callers |-> 0]
    /\ pid = [c \in Callers |-> 0]

Next ==
    \/ \E c \in Callers : Call(c) \/ Step(c) \/ Crash(c)
    \/ MineArtifact
    \/ Tick

Spec == Init /\ [][Next]_vars
-----------------------------------------------------------------------------
Routing == {"find", "bump", "recheck", "insert"}
Holding == Pc \ {"idle", "find", "insert"}

(* Type correctness: also, a caller routing a request has the request, its  *)
(* signal and (past the lookup) the proposal it works on.                   *)
TypeOK ==
    /\ proposals \in [Ids -> Row]
    /\ evidence \in [Ids -> Evidence]
    /\ signals \in 0..MaxSignals
    /\ clock \in 0..MaxClock
    /\ faults \in 0..MaxFaults
    /\ pc \in [Callers -> Pc]
    /\ reqs \in [Callers -> Seq(Request)]
    /\ sig \in [Callers -> 0..MaxSignals]
    /\ pid \in [Callers -> -1..MaxProposals]
    /\ \A c \in Callers :
        /\ pc[c] \in Routing => reqs[c] # <<>>
        /\ reqs[c] # <<>> => sig[c] \in 1..signals
        /\ pc[c] \in Holding => pid[c] \in Ids

(* What an applied action needs to be backed by. *)
Backed(i) ==
    \/ evidence[i].accepted
    \/ /\ evidence[i].high
       /\ proposals[i].sink = "rule"
       /\ proposals[i].action.verb # CorrectionReason
    \/ \E s, t \in evidence[i].signals : s # t

(* The gate of the module: no action reaches a sink on the word of a single *)
(* signal.  A proposal whose action was applied was accepted by an operator *)
(* or is an explicitly stated rule captured with high confidence or has the *)
(* backing of two different signals, whatever callers race or crash.        *)
EvidenceGate == \A i \in Ids : evidence[i].applies > 0 => Backed(i)

(* A row says committed only if learning_apply_sink succeeded for it, under *)
(* races, crashes and lost writes.                                          *)
CommittedWasApplied ==
    \A i \in Ids : proposals[i].state = "committed" => evidence[i].applies > 0

(* The strengthening of EvidenceGate and CommittedWasApplied that every step *)
(* preserves.  A row counts at least as many different signals as it has     *)
(* corroborations, because a signal has one request per sink, a request is   *)
(* spent once, and no two callers route the same signal; and a caller that   *)
(* is about to commit a row has found the evidence for it.                   *)
RowOK(i) ==
    /\ proposals[i].state = "absent" =>
            proposals[i].corr = 0 /\ evidence[i].signals = {} /\ evidence[i].applies = 0
    /\ proposals[i].corr >= 1 /\ proposals[i].sink # "artifact" => evidence[i].signals # {}
    /\ proposals[i].corr >= 2 => \E s, t \in evidence[i].signals : s # t
    /\ proposals[i].sink = "artifact" => proposals[i].corr <= 1
    /\ evidence[i].signals \subseteq 1..signals
    /\ evidence[i].applies > 0 => Backed(i)
    /\ proposals[i].state = "committed" => evidence[i].applies > 0

RequestsOK(c) ==
    \A n \in 1..Len(reqs[c]) :
        /\ reqs[c][n].sink # "artifact"
        /\ reqs[c][n].high => /\ reqs[c][n].sink = "rule"
                              /\ reqs[c][n].action.verb # CorrectionReason
        /\ \A m \in 1..Len(reqs[c]) : m # n => reqs[c][m].sink # reqs[c][n].sink

Unspent(c) ==
    \A n \in 1..Len(reqs[c]), i \in Ids :
        /\ n > 1 \/ pc[c] \in {"find", "bump", "insert"}
        /\ proposals[i].sink = reqs[c][n].sink
        => sig[c] \notin evidence[i].signals

HoldingOK(c) ==
    /\ pc[c] \in Holding => proposals[pid[c]].state # "absent"
    /\ pc[c] = "bump" => proposals[pid[c]].sink = reqs[c][1].sink
    /\ pc[c] \in {"get", "cap", "apply", "mark"} => Backed(pid[c])
    /\ pc[c] = "mark" => evidence[pid[c]].applies > 0

DistinctSignals ==
    \A c, d \in Callers : c # d /\ reqs[c] # <<>> /\ reqs[d] # <<>> => sig[c] # sig[d]

GateInv ==
    /\ \A i \in Ids : RowOK(i)
    /\ \A c \in Callers : RequestsOK(c) /\ Unspent(c) /\ HoldingOK(c)
    /\ DistinctSignals

(* The commits of the window that a count let pass. *)
CountedCommits(s) == {i \in CommitsInWindow(s) : ~evidence[i].uncounted}

(* The check of the weekly cap and the mark are separate DB2 calls, so      *)
(* concurrent callers can exceed the cap, but each by one commit at most:   *)
(* not counting the very commits whose own count failed, there are fewer    *)
(* than the cap and the callers, whatever else fails, is lost or crashes.   *)
CapOvershootBounded ==
    \A s \in Sinks :
        Cardinality(CountedCommits(s)) < learning_max_commits_per_week + Cardinality(Callers)

(* With one caller the weekly cap is a cap, but for the very commits whose  *)
(* own count failed; no other failure buys a commit.                        *)
WithinWeeklyCap ==
    \A s \in Sinks : Cardinality(CountedCommits(s)) <= learning_max_commits_per_week

(* What docs/modules/learning.md says of the caps and of unavailable        *)
(* storage: a sink never has more commits of a week than its limit.         *)
CapIsCap ==
    \A s \in Sinks : Cardinality(CommitsInWindow(s)) <= learning_max_commits_per_week

(* With one caller the applications of a proposal are accounted for: one if *)
(* it is committed, none if it is pending or archived, and one more for     *)
(* each mark that was lost, with its write or with the caller's life.       *)
(* No retry, corroboration or acceptance repeats an effect otherwise, nor   *)
(* has a rejected or expired proposal had one.                              *)
AppliedExactlyOnce ==
    \A i \in Ids :
        (\A c \in Callers : ~(pc[c] = "mark" /\ pid[c] = i)) =>
            evidence[i].applies =
                evidence[i].unmarked + IF proposals[i].state = "committed" THEN 1 ELSE 0

(* With one caller a settled proposal stays as it was settled: an accept, a *)
(* corroboration, a rejection or a sweep never reopens or re-settles it.    *)
SettledForGood ==
    [][\A i \in Ids : proposals[i].state \in {"committed", "archived"} =>
            /\ proposals'[i].state = proposals[i].state
            /\ proposals'[i].reason = proposals[i].reason
            /\ proposals'[i].committedAt = proposals[i].committedAt]_vars

(* Two pending proposals a lookup cannot tell apart. *)
SameTarget(i, j) ==
    /\ i # j
    /\ proposals[i].state = "pending" /\ proposals[j].state = "pending"
    /\ proposals[i].sink # "artifact"
    /\ <<proposals[i].sink, proposals[i].key, proposals[i].mem>>
         = <<proposals[j].sink, proposals[j].key, proposals[j].mem>>

(* With one caller a target has one pending proposal per sink, a repeated   *)
(* signal corroborates it: a second one is inserted by a request whose own  *)
(* lookup failed, and after no other failure, loss or crash.                *)
OnePendingPerTarget ==
    \A i, j \in Ids : SameTarget(i, j) => evidence[i].unseen \/ evidence[j].unseen

(* Every call of the router returns: the walk over the requests of a signal *)
(* ends, whatever is found, capped, refused by a sink or settled meanwhile. *)
EveryCallReturns == \A c \in Callers : pc[c] # "idle" ~> pc[c] = "idle"

(* What the reason of a captured correction says: a correction that became  *)
(* a rule without an operator was made more than once.                      *)
RepeatedCorrectionWasRepeated ==
    \A i \in Ids :
        /\ proposals[i].state = "committed"
        /\ proposals[i].action.verb = CorrectionReason
        => \/ evidence[i].accepted
           \/ \E s, t \in evidence[i].agree : s # t
=============================================================================
