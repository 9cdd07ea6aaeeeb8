-------------------------- MODULE LearningEvidence --------------------------
(***************************************************************************)
(* The life of a learned candidate in                                      *)
(* src/modules/learning/learning_evidence.c: the judge commits it once     *)
(* enough evidence cites it, a promotion writes it into the surface it is  *)
(* meant for (a memory, a rule, an alias, ...) and audits that, and a      *)
(* retroactive thumbs-down rolls it back.  Each is several DB2 calls; KB   *)
(* workers and reviewers interleave between any two of them, and each call *)
(* may fail.  A call that returns before it changed anything is no step.   *)
(***************************************************************************)
EXTENDS Integers, FiniteSets

CONSTANTS
    Callers,        \* the threads and processes that work on candidates
    Candidates,     \* artifact ids of candidates
    KindOf,         \* [Candidates -> kind]
    TargetOf,       \* [Candidates -> surface], the target_surface column, "" if unset
    ConfidenceOf,   \* [Candidates -> Int], in hundredths
    Fieldless,      \* the candidates whose payload names no profile field
    HasDB1,         \* db1_working_profile_local_observe is linked in
    Threshold,      \* what learning_promote is called with, in hundredths
    Minimums,       \* the values of min_corroboration the judge is called with
    MaxCitations,   \* bound on the evidence that cites a candidate
    MaxCalls,       \* bound on the calls made
    Faults,         \* the failures considered: "crash" of a caller, a DB2
                    \* "failed_read", "failed_write" or "failed_audit"
    MaxFaults       \* bound on their number

LEARNING_PROMOTE_BORDERLINE == 10

Surfaces == {"anti_pattern", "memory", "workflow_pattern", "rule",
             "epistemic_directive", "entity", "guardrail_exemplar", "working_profile"}

ASSUME SetsAssumption == IsFiniteSet(Callers) /\ Minimums \subseteq Int
ASSUME MappingsAssumption ==
    /\ TargetOf \in [Candidates -> STRING]
    /\ ConfidenceOf \in [Candidates -> Int] /\ Threshold \in Int
ASSUME BoundsAssumption ==
    MaxCitations \in Nat /\ MaxCalls \in Nat /\ MaxFaults \in Nat

VARIABLES
    state,      \* [Candidates -> {"proposed", "committed"}]
    citations,  \* [Candidates -> Nat]: distinct evidence that cites the candidate
    before,     \* [Candidates -> state or "none"]: before_snapshot of the latest audit row
    rows,       \* [Candidates -> Nat]: completed writes to the candidate's surface
    audits,     \* [Candidates -> Nat]: audit rows of promotions
    calls,      \* calls made
    faults,     \* faults that have happened
    pc,         \* [Callers -> Pc]: the DB2 call that each caller makes next
    cand,       \* [Callers -> Candidates]: the candidate it works on
    left,       \* [Callers -> Nat]: surface writes left
    restore,    \* [Callers -> state]: what a rollback restores
    surface,    \* [Callers -> surface]: the surface that a promotion writes to
    placed,     \* [Candidates -> SUBSET Surfaces]: where it was written to, history
    overtaken,  \* the callers whose promotion a rollback has overtaken, history
    misread,    \* the candidates whose explicit surface a promotion could not read, history
    unaudited   \* [Candidates -> Nat]: writes whose audit failed or was never made, history

store == <<state, citations, before, rows, audits, placed>>
frames == <<pc, cand, left, restore, surface>>
history == <<overtaken, misread, unaudited>>
vars == <<store, calls, faults, frames, history>>

States == {"proposed", "committed"}
Pc == {"idle", "set_state", "judge_audit", "target", "write", "promote_audit", "rollback"}

-----------------------------------------------------------------------------
learning_candidate_target_surface(kind) ==
    CASE kind = "preference" -> "memory"
      [] kind = "workflow" -> "workflow_pattern"
      [] kind \in {"anti_pattern", "mistake_pattern"} -> "anti_pattern"
      [] OTHER -> ""

(* A bug: the minimum is taken as it is given. *)
EnoughAsGiven(c, min) == citations[c] >= min

(* At least one citation is asked for, whatever the caller says. *)
Enough(c, min) == citations[c] >= (IF min > 0 THEN min ELSE 1)

(* Below the borderline window a candidate is held for review. *)
Held(c) == ConfidenceOf[c] < Threshold - LEARNING_PROMOTE_BORDERLINE

(* The surface writes of a promotion: an alias needs its node first. *)
Writes(s) == IF s = "entity" THEN 2 ELSE 1

(* promote_working_profile gives up before it writes. *)
Unwritable(c, s) == s = "working_profile" /\ (~HasDB1 \/ c \in Fieldless)

Applies(c, s) == s \in Surfaces /\ ~Held(c) /\ ~Unwritable(c, s)

Fault(kind) == kind \in Faults /\ faults < MaxFaults /\ faults' = faults + 1

Begin(p, c, label) ==
    /\ pc[p] = "idle" /\ calls < MaxCalls
    /\ calls' = calls + 1
    /\ pc' = [pc EXCEPT ![p] = label]
    /\ cand' = [cand EXCEPT ![p] = c]

Goto(p, label) == pc' = [pc EXCEPT ![p] = label] /\ UNCHANGED <<calls, cand>>
Return(p) == Goto(p, "idle")
-----------------------------------------------------------------------------
(* learning_judge_commit, up to its check.  The candidate's state is not read. *)
Judge(p) ==
    /\ \E c \in Candidates, min \in Minimums :
        /\ learning_candidate_target_surface(KindOf[c]) # ""
        /\ Enough(c, min)
        /\ Begin(p, c, "set_state")
    /\ UNCHANGED <<store, faults, left, restore, surface, history>>

JudgeSetState(p) ==
    /\ pc[p] = "set_state"
    /\ \/ /\ state' = [state EXCEPT ![cand[p]] = "committed"]
          /\ Goto(p, "judge_audit")
          /\ UNCHANGED faults
       \/ Fault("failed_write") /\ Return(p) /\ UNCHANGED state
    /\ UNCHANGED <<citations, before, rows, audits, placed, left, restore, surface, history>>

(* The audit row says that the candidate was proposed. *)
JudgeAudit(p) ==
    /\ pc[p] = "judge_audit"
    /\ \/ before' = [before EXCEPT ![cand[p]] = "proposed"] /\ UNCHANGED faults
       \/ Fault("failed_audit") /\ UNCHANGED before
    /\ Return(p)
    /\ UNCHANGED <<state, citations, rows, audits, placed, left, restore, surface, history>>

(* A bug: a candidate of any state is promoted. *)
PromoteAnyState(p) ==
    /\ \E c \in Candidates : Begin(p, c, "target")
    /\ overtaken' = overtaken \ {p}
    /\ UNCHANGED <<store, faults, left, restore, surface, misread, unaudited>>

(* learning_promote: read the artifact, which must be committed. *)
Promote(p) ==
    /\ \E c \in Candidates : state[c] = "committed" /\ Begin(p, c, "target")
    /\ overtaken' = overtaken \ {p}
    /\ UNCHANGED <<store, faults, left, restore, surface, misread, unaudited>>

KindSurface(c) == learning_candidate_target_surface(KindOf[c])

(* What follows once the surface is known. *)
Placing(p, s) ==
    \/ /\ Applies(cand[p], s)
       /\ Goto(p, "write")
       /\ left' = [left EXCEPT ![p] = Writes(s)]
       /\ surface' = [surface EXCEPT ![p] = s]
    \/ ~Applies(cand[p], s) /\ Return(p) /\ UNCHANGED <<left, surface>>

(* A bug: the kind decides before the explicit surface does. *)
TargetByKind(p) ==
    /\ pc[p] = "target"
    /\ Placing(p, IF KindSurface(cand[p]) # "" THEN KindSurface(cand[p]) ELSE TargetOf[cand[p]])
    /\ UNCHANGED <<store, faults, restore, history>>

(* learning_promote: the explicit surface, or the one of the candidate's kind *)
(* when there is none or when it cannot be read; then the checks.             *)
Target(p) ==
    /\ pc[p] = "target"
    /\ \E column \in {TargetOf[cand[p]], ""} :
        /\ \/ column = TargetOf[cand[p]] /\ UNCHANGED <<faults, misread>>
           \/ column = "" /\ Fault("failed_read") /\ misread' = misread \cup {cand[p]}
        /\ Placing(p, IF column # "" THEN column ELSE KindSurface(cand[p]))
    /\ UNCHANGED <<store, restore, overtaken, unaudited>>

(* A bug: the promotion is audited before its surface is written. *)
WriteAfterAudit(p) ==
    /\ pc[p] = "write"
    /\ audits' = [audits EXCEPT ![cand[p]] = @ + 1]
    /\ \/ /\ rows' = [rows EXCEPT ![cand[p]] = @ + 1]
          /\ UNCHANGED faults
       \/ Fault("failed_write") /\ UNCHANGED rows
    /\ Return(p)
    /\ UNCHANGED <<state, citations, before, placed, left, restore, surface, history>>

Written(p) ==
    /\ rows' = [rows EXCEPT ![cand[p]] = @ + 1]
    /\ placed' = [placed EXCEPT ![cand[p]] = @ \cup {surface[p]}]
    /\ Goto(p, "promote_audit")
    /\ UNCHANGED <<left, faults>>

(* promote_*: one write to the surface. *)
Write(p) ==
    /\ pc[p] = "write"
    /\ \/ /\ left[p] > 1
          /\ left' = [left EXCEPT ![p] = @ - 1]
          /\ UNCHANGED <<rows, placed, faults, calls, cand, pc>>
       \/ left[p] = 1 /\ Written(p)
       \/ Fault("failed_write") /\ Return(p) /\ UNCHANGED <<rows, placed, left>>
    /\ UNCHANGED <<state, citations, before, audits, restore, surface, history>>

Unaudited(p) == unaudited' = [unaudited EXCEPT ![cand[p]] = @ + 1]

(* promote_*: the audit row; its before_snapshot names no state. *)
PromoteAudit(p) ==
    /\ pc[p] = "promote_audit"
    /\ \/ /\ audits' = [audits EXCEPT ![cand[p]] = @ + 1]
          /\ before' = [before EXCEPT ![cand[p]] = "none"]
          /\ UNCHANGED <<faults, unaudited>>
       \/ Fault("failed_audit") /\ Unaudited(p) /\ UNCHANGED <<audits, before>>
    /\ Return(p)
    /\ UNCHANGED <<state, citations, rows, placed, left, restore, surface, overtaken, misread>>

(* learning_review_rollback: what the latest audit row says was before, or *)
(* proposed when it says nothing or cannot be read.                        *)
Rollback(p) ==
    /\ \E c \in Candidates :
        /\ Begin(p, c, "rollback")
        /\ \/ /\ restore' = [restore EXCEPT ![p] =
                                IF before[c] = "none" THEN "proposed" ELSE before[c]]
              /\ UNCHANGED faults
           \/ Fault("failed_read") /\ restore' = [restore EXCEPT ![p] = "proposed"]
    /\ UNCHANGED <<store, left, surface, history>>

(* db2_artifact_review_rollback: the new state and an audit row of its own, *)
(* which may record the state it found.                                     *)
RollbackApply(p) ==
    /\ pc[p] = "rollback"
    /\ \/ /\ state' = [state EXCEPT ![cand[p]] = restore[p]]
          /\ \E snapshot \in {"none", state[cand[p]]} :
                before' = [before EXCEPT ![cand[p]] = snapshot]
          /\ overtaken' = overtaken \cup
                {q \in Callers : /\ pc[q] \in {"target", "write"}
                                 /\ cand[q] = cand[p] /\ restore[p] # "committed"}
          /\ UNCHANGED faults
       \/ Fault("failed_write") /\ UNCHANGED <<state, before, history>>
    /\ Return(p)
    /\ UNCHANGED <<citations, rows, audits, placed, left, restore, surface, misread, unaudited>>

(* Evidence that cites the candidate is recorded. *)
Cite(c) ==
    /\ citations[c] < MaxCitations
    /\ citations' = [citations EXCEPT ![c] = @ + 1]
    /\ UNCHANGED <<state, before, rows, audits, placed, calls, faults, frames, history>>

Crash(p) ==
    /\ pc[p] # "idle"
    /\ Fault("crash")
    /\ IF pc[p] = "promote_audit" THEN Unaudited(p) ELSE UNCHANGED unaudited
    /\ Return(p)
    /\ UNCHANGED <<store, left, restore, surface, overtaken, misread>>

Init ==
    /\ state = [c \in Candidates |-> "proposed"]
    /\ citations = [c \in Candidates |-> 0]
    /\ before = [c \in Candidates |-> "none"]
    /\ rows = [c \in Candidates |-> 0]
    /\ audits = [c \in Candidates |-> 0]
    /\ calls = 0 /\ faults = 0
    /\ pc = [p \in Callers |-> "idle"]
    /\ cand \in [Callers -> Candidates]
    /\ left = [p \in Callers |-> 0]
    /\ restore = [p \in Callers |-> "proposed"]
    /\ surface = [p \in Callers |-> ""]
    /\ placed = [c \in Candidates |-> {}]
    /\ overtaken = {} /\ misread = {}
    /\ unaudited = [c \in Candidates |-> 0]

Step(p) ==
    \/ Judge(p) \/ JudgeSetState(p) \/ JudgeAudit(p)
    \/ Promote(p) \/ Target(p) \/ Write(p) \/ PromoteAudit(p)
    \/ Rollback(p) \/ RollbackApply(p) \/ Crash(p)

Next == (\E p \in Callers : Step(p)) \/ (\E c \in Candidates : Cite(c))

Spec == Init /\ [][Next]_vars
-----------------------------------------------------------------------------
PlacesOK ==
    /\ surface \in [Callers -> Surfaces \cup {""}]
    /\ placed \in [Candidates -> SUBSET Surfaces]
    /\ \A p \in Callers : pc[p] = "write" => surface[p] \in Surfaces

(* Type correctness: also, a caller at a surface write has one left to make, *)
(* and knows where.                                                          *)
TypeOK ==
    /\ state \in [Candidates -> States]
    /\ citations \in [Candidates -> 0 .. MaxCitations]
    /\ before \in [Candidates -> States \cup {"none"}]
    /\ rows \in [Candidates -> Nat]
    /\ audits \in [Candidates -> Nat]
    /\ calls \in 0 .. MaxCalls /\ faults \in 0 .. MaxFaults
    /\ pc \in [Callers -> Pc]
    /\ cand \in [Callers -> Candidates]
    /\ left \in [Callers -> 0 .. 2]
    /\ restore \in [Callers -> States]
    /\ overtaken \subseteq Callers /\ misread \subseteq Candidates
    /\ unaudited \in [Candidates -> Nat]
    /\ \A p \in Callers : pc[p] = "write" => left[p] > 0
    /\ PlacesOK

(* Nothing reaches a surface without evidence: a promoted candidate is cited *)
(* at least once, even if the judge is asked for no corroboration at all and *)
(* whatever judges, promotions and rollbacks race, fail or restore.          *)
PromotedWasCited == \A c \in Candidates : rows[c] > 0 => citations[c] > 0

(* Why: a state other than proposed, in the store, in an audit row or in the *)
(* hands of a rollback, goes back to a judge that found a citation.          *)
CitedInv ==
    /\ \A c \in Candidates :
        state[c] = "committed" \/ before[c] = "committed" \/ rows[c] > 0 => citations[c] > 0
    /\ \A p \in Callers :
        (\/ pc[p] \in {"set_state", "target", "write"}
         \/ pc[p] = "rollback" /\ restore[p] = "committed") => citations[cand[p]] > 0

(* The audit trail neither claims what did not happen nor forgets what did:  *)
(* every completed write is audited, about to be audited, or one whose audit *)
(* failed or whose caller died before it, whatever calls race or fail.       *)
(* (A promotion that is called again after its audit failed writes again:    *)
(* that is one more write here, not a lost one.)                             *)
Auditing(c) == {p \in Callers : pc[p] = "promote_audit" /\ cand[p] = c}
AuditedWasWritten ==
    \A c \in Candidates :
        rows[c] = audits[c] + unaudited[c] + Cardinality(Auditing(c))

(* A promotion in progress is of a committed candidate, or a thumbs-down has *)
(* overtaken it since it read the state: that is the only way in which a     *)
(* candidate that is not committed reaches its surface.                      *)
PromotesCommitted ==
    \A p \in Callers : pc[p] \in {"target", "write"} =>
        state[cand[p]] = "committed" \/ p \in overtaken

(* However often a candidate is promoted, rolled back and promoted again, it *)
(* only lands on the surface it is meant for; only when a promotion of it    *)
(* could not read that surface it may also land on the one of its kind,      *)
(* where nobody looks for it.                                                *)
PlacedAsMeant ==
    \A c \in Candidates : \A s \in placed[c] :
        s = TargetOf[c] \/ (s = KindSurface(c) /\ (TargetOf[c] = "" \/ c \in misread))
=============================================================================
