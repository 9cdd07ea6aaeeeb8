-------------------------- MODULE EvidenceCapture --------------------------
(***************************************************************************)
(* How evidence comes into the pipeline of module LearningEvidence:        *)
(* learning_evidence_write_event stores a report under the hash of its     *)
(* kind and content, then enqueues the artifact for embedding and for      *)
(* synthesis.  Both failures are ignored, and the caller may die in        *)
(* between.  The two queues are drained by KB workers outside this code;   *)
(* synthesis is what makes evidence cite candidates.                       *)
(***************************************************************************)
EXTENDS LearningEvidence

CONSTANTS
    Reports,    \* what is reported: records with a kind, a scope and a content
    MaxWork     \* bound on calls, captures included, and on failures of all kinds

ReportKinds == {r.kind : r \in Reports}

ASSUME ReportsAssumption == IsFiniteSet(Reports) /\ MaxWork \in Nat

VARIABLES
    reported,   \* the reports that write_event was called with and stored, history
    queue,      \* [Queues -> [Artifacts -> where the artifact is]]
    cites,      \* [Candidates -> SUBSET Artifacts]: the citation edges
    capture,    \* [Callers -> what the caller is about to enqueue]
    captures,   \* calls of write_event made
    mishaps,    \* failures of captures
    lost        \* what was not enqueued and not reported again since, history

captureVars == <<vars, reported, queue, cites, capture, captures, mishaps, lost>>

Queues == {"embed", "synth"}
Stages == {"none", "queued", "done"}

evidence_kind_allowed(kind) ==
    kind \in {"session_turn", "session_summary", "feedback_positive", "feedback_negative",
              "tool_outcome", "guardrail_event", "benchmark_trace", "workflow_pattern"}

(* A bug: the hash tells scopes apart. *)
IdentityWithScope(r) == <<r.kind, r.content, r.scope>>

(* evidence_content_hash: what an artifact is stored under. *)
Identity(r) == <<r.kind, r.content>>

Artifacts == {Identity(r) : r \in Reports}
Stored == {Identity(r) : r \in reported}

Idle(p) == pc[p] = "idle" /\ capture[p] = <<>>
HasWork == calls + captures < MaxWork
MayFail(kind) == kind \in Faults /\ faults + mishaps < MaxFaults /\ mishaps' = mishaps + 1
-----------------------------------------------------------------------------
(* A bug: only an artifact that is new is enqueued. *)
CaptureNewOnly(p) ==
    /\ Idle(p) /\ HasWork
    /\ \E r \in Reports :
        /\ evidence_kind_allowed(r.kind)
        /\ reported' = reported \cup {r}
        /\ capture' = IF Identity(r) \in Stored THEN capture
                      ELSE [capture EXCEPT ![p] = <<"embed", Identity(r)>>]
        /\ lost' = {l \in lost : l[2] # Identity(r)}
    /\ captures' = captures + 1
    /\ UNCHANGED <<vars, queue, cites, mishaps>>

(* learning_evidence_write_event: the write, which finds the artifact if the *)
(* same content was captured before.                                         *)
Capture(p) ==
    /\ Idle(p) /\ HasWork
    /\ \E r \in Reports :
        /\ evidence_kind_allowed(r.kind)
        /\ reported' = reported \cup {r}
        /\ capture' = [capture EXCEPT ![p] = <<"embed", Identity(r)>>]
        /\ lost' = {l \in lost : l[2] # Identity(r)}
    /\ captures' = captures + 1
    /\ UNCHANGED <<vars, queue, cites, mishaps>>

Then(p) == capture' = [capture EXCEPT ![p] =
                IF @[1] = "embed" THEN <<"synth", @[2]>> ELSE <<>>]

(* db2_evidence_enqueue and db2_synth_enqueue: to enqueue again does nothing. *)
Enqueue(p) ==
    /\ capture[p] # <<>>
    /\ LET q == capture[p][1]
           a == capture[p][2]
       IN  \/ /\ queue' = [queue EXCEPT ![q][a] = IF @ = "none" THEN "queued" ELSE @]
              /\ UNCHANGED <<mishaps, lost>>
           \/ /\ MayFail("failed_enqueue")
              /\ lost' = lost \cup {<<q, a>>}
              /\ UNCHANGED queue
    /\ Then(p)
    /\ UNCHANGED <<vars, reported, cites, captures>>

CrashInCapture(p) ==
    /\ capture[p] # <<>>
    /\ MayFail("crash")
    /\ lost' = lost \cup {<<q, capture[p][2]>> :
                            q \in IF capture[p][1] = "embed" THEN Queues ELSE {"synth"}}
    /\ capture' = [capture EXCEPT ![p] = <<>>]
    /\ UNCHANGED <<vars, reported, queue, cites, captures>>

(* The embedding worker stores the vector. *)
Embed(a) ==
    /\ queue["embed"][a] = "queued"
    /\ queue' = [queue EXCEPT !["embed"][a] = "done"]
    /\ UNCHANGED <<vars, reported, cites, capture, captures, mishaps, lost>>

(* Synthesis reads the artifact: it may cite a candidate or none.  An edge *)
(* that is there already is not a second citation.                         *)
Synthesise(a) ==
    /\ queue["synth"][a] = "queued"
    /\ queue' = [queue EXCEPT !["synth"][a] = "done"]
    /\ \/ \E c \in Candidates :
            /\ cites' = [cites EXCEPT ![c] = @ \cup {a}]
            /\ IF a \in cites[c] THEN UNCHANGED vars ELSE Cite(c)
       \/ UNCHANGED <<vars, cites>>
    /\ UNCHANGED <<reported, capture, captures, mishaps, lost>>

(* The judge, promotions and rollbacks of module LearningEvidence. *)
Commit(p) ==
    /\ capture[p] = <<>>
    /\ pc[p] = "idle" => HasWork
    /\ faults + mishaps < MaxFaults \/ UNCHANGED faults
    /\ Step(p)
    /\ UNCHANGED <<reported, queue, cites, capture, captures, mishaps, lost>>
-----------------------------------------------------------------------------
CaptureInit ==
    /\ Init
    /\ reported = {}
    /\ queue = [q \in Queues |-> [a \in Artifacts |-> "none"]]
    /\ cites = [c \in Candidates |-> {}]
    /\ capture = [p \in Callers |-> <<>>]
    /\ captures = 0 /\ mishaps = 0 /\ lost = {}

CaptureNext ==
    \/ \E p \in Callers : Capture(p) \/ Enqueue(p) \/ CrashInCapture(p) \/ Commit(p)
    \/ \E a \in Artifacts : Embed(a) \/ Synthesise(a)

CaptureSpec == CaptureInit /\ [][CaptureNext]_captureVars
-----------------------------------------------------------------------------
(* Corroboration is by distinct evidence: however often and in whichever     *)
(* scopes the same content is reported, raced or retried after a crash, it   *)
(* counts once for a candidate, so nobody corroborates a candidate by        *)
(* repeating himself.                                                        *)
CorroborationIsDistinct ==
    \A c \in Candidates :
        citations[c] <= Cardinality({<<r.kind, r.content>> : r \in reported})

(* Why: only synthesis of what was stored adds a citation, and an edge once. *)
CaptureOK ==
    /\ reported \subseteq Reports
    /\ queue \in [Queues -> [Artifacts -> Stages]]
    /\ capture \in [Callers -> {<<>>} \cup (Queues \X Artifacts)]
    /\ cites \in [Candidates -> SUBSET Artifacts]

CitesInv ==
    /\ CaptureOK
    /\ \A p \in Callers : capture[p] # <<>> => capture[p][2] \in Stored
    /\ \A q \in Queues, a \in Artifacts : queue[q][a] # "none" => a \in Stored
    /\ \A c \in Candidates :
        /\ cites[c] \subseteq Stored
        /\ citations[c] = Cardinality(cites[c])

(* Capturing again repairs: what is stored is queued or done in both queues, *)
(* or someone is on the way to enqueue it, or the latest attempts to capture *)
(* it failed or died (nobody retries those, and the caller is told that all  *)
(* went well).                                                               *)
NothingForgotten ==
    \A a \in Stored, q \in Queues :
        \/ queue[q][a] # "none"
        \/ <<q, a>> \in lost
        \/ \E p \in Callers : capture[p] \in {<<"embed", a>>, <<q, a>>}
=============================================================================
