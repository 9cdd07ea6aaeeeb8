------------------------ MODULE LearningEvidenceProofs ------------------------
(***************************************************************************)
(* Proofs about LearningEvidence for any callers, candidates, faults and   *)
(* bounds: its types, that nothing is promoted without evidence, that the  *)
(* audit trail accounts for every write of a promotion, that only a        *)
(* thumbs-down lets a candidate that is not committed reach its surface,   *)
(* and which surface that is; then, about EvidenceCapture, that the        *)
(* capture of evidence leaves all of that true; then, about                *)
(* LearningBundle, that a bundle is the nearest evidence for every corpus, *)
(* query and bound.                                                        *)
(***************************************************************************)
EXTENDS LearningBundle, FiniteSetTheorems, TLAPS

LEMMA StepPlaces ==
    ASSUME TypeOK, NEW p \in Callers, Step(p)
    PROVE  PlacesOK'
<1>0. PlacesOK /\ pc \in [Callers -> Pc] /\ cand \in [Callers -> Candidates]
    BY DEF TypeOK
<1>1. CASE Target(p)
    <2>1. /\ UNCHANGED placed
          /\ \/ \E s \in Surfaces : /\ pc' = [pc EXCEPT ![p] = "write"]
                                   /\ surface' = [surface EXCEPT ![p] = s]
             \/ pc' = [pc EXCEPT ![p] = "idle"] /\ UNCHANGED surface
        BY <1>1 DEF Target, Placing, Applies, Goto, Return, store
    <2> QED
        BY <1>0, <2>1 DEF PlacesOK
<1>2. CASE Write(p)
    <2>1. /\ UNCHANGED surface
          /\ pc[p] = "write"
          /\ \/ UNCHANGED <<placed, pc>>
             \/ /\ placed' = [placed EXCEPT ![cand[p]] = @ \cup {surface[p]}]
                /\ pc' = [pc EXCEPT ![p] = "promote_audit"]
             \/ UNCHANGED placed /\ pc' = [pc EXCEPT ![p] = "idle"]
        BY <1>2 DEF Write, Written, Goto, Return
    <2>2. surface[p] \in Surfaces
        BY <1>0, <2>1 DEF PlacesOK
    <2>3. placed' \in [Candidates -> SUBSET Surfaces]
        <3>1. placed \in [Candidates -> SUBSET Surfaces] /\ cand[p] \in Candidates
            BY <1>0 DEF PlacesOK
        <3> QED
            BY <2>1, <2>2, <3>1
    <2>4. \A q \in Callers : pc'[q] = "write" => pc[q] = "write"
        BY <1>0, <2>1
    <2> QED
        BY <1>0, <2>1, <2>3, <2>4 DEF PlacesOK
<1>3. CASE ~Target(p) /\ ~Write(p)
    <2>1. UNCHANGED <<surface, placed>>
        BY <1>3 DEF Step, Judge, JudgeSetState, JudgeAudit, Promote, PromoteAudit, Rollback,
                    RollbackApply, Crash, store
    <2>2. \A q \in Callers : pc'[q] = "write" => pc[q] = "write"
        BY <1>0, <1>3 DEF Step, Judge, JudgeSetState, JudgeAudit, Promote, PromoteAudit,
                    Rollback, RollbackApply, Crash, Begin, Goto, Return
    <2> QED
        BY <1>0, <2>1, <2>2 DEF PlacesOK
<1> QED
    BY <1>1, <1>2, <1>3

LEMMA StepTypes ==
    ASSUME TypeOK, NEW p \in Callers, Step(p)
    PROVE  TypeOK'
<1> USE BoundsAssumption DEF TypeOK, States, Pc, store, frames, history, Goto, Return, Fault, Unaudited
<1>0. PlacesOK'
    BY StepPlaces
<1>1. CASE Judge(p)
    <2>1. PICK c \in Candidates : Begin(p, c, "set_state")
        BY <1>1 DEF Judge
    <2>2. UNCHANGED <<store, faults, left, restore, surface, history>>
        BY <1>1 DEF Judge
    <2> QED
        BY <1>0, <2>1, <2>2 DEF Begin
<1>2. CASE JudgeSetState(p)
    BY <1>0, <1>2 DEF JudgeSetState
<1>3. CASE JudgeAudit(p)
    BY <1>0, <1>3 DEF JudgeAudit
<1>4. CASE Promote(p)
    BY <1>0, <1>4 DEF Promote, Begin
<1>5. CASE Target(p)
    <2>0. cand[p] \in Candidates
        OBVIOUS
    <2>1. /\ UNCHANGED <<store, calls, cand, restore, overtaken, unaudited>>
          /\ UNCHANGED faults \/ Fault("failed_read")
          /\ misread' \in {misread, misread \cup {cand[p]}}
          /\ \/ \E s : /\ pc' = [pc EXCEPT ![p] = "write"]
                       /\ left' = [left EXCEPT ![p] = Writes(s)]
             \/ pc' = [pc EXCEPT ![p] = "idle"] /\ UNCHANGED left
        BY <1>5 DEF Target, Placing
    <2>2. \A s : Writes(s) \in 1 .. 2
        BY DEF Writes
    <2>3. /\ pc' \in [Callers -> Pc]
          /\ left' \in [Callers -> 0 .. 2]
          /\ \A q \in Callers : pc'[q] = "write" => left'[q] > 0
        BY <2>1, <2>2
    <2>4. misread' \subseteq Candidates
        BY <2>0, <2>1
    <2> QED
        BY <1>0, <2>1, <2>3, <2>4
<1>6. CASE Write(p)
    BY <1>0, <1>6 DEF Write, Written
<1>7. CASE PromoteAudit(p)
    BY <1>0, <1>7 DEF PromoteAudit
<1>8. CASE Rollback(p)
    BY <1>0, <1>8 DEF Rollback, Begin
<1>9. CASE RollbackApply(p)
    BY <1>0, <1>9 DEF RollbackApply
<1>10. CASE Crash(p)
    BY <1>0, <1>10 DEF Crash
<1> QED
    BY <1>1, <1>2, <1>3, <1>4, <1>5, <1>6, <1>7, <1>8, <1>9, <1>10 DEF Step

LEMMA NextTypes ==
    ASSUME TypeOK, [Next]_vars
    PROVE  TypeOK'
<1>1. ASSUME NEW p \in Callers, Step(p) PROVE TypeOK'
    BY <1>1, StepTypes
<1>2. ASSUME NEW c \in Candidates, Cite(c) PROVE TypeOK'
    <2>1. PlacesOK'
        BY <1>2 DEF Cite, TypeOK, PlacesOK, frames
    <2> QED
        BY <1>2, <2>1, BoundsAssumption DEF Cite, TypeOK, frames, history
<1>3. CASE UNCHANGED vars
    BY <1>3 DEF TypeOK, PlacesOK, vars, store, frames, history
<1> QED
    BY <1>1, <1>2, <1>3 DEF Next

(* The type invariant of the evidence pipeline, whatever the candidates are *)
(* and however many callers judge, promote and roll back.                   *)
THEOREM EvidenceTypeCorrect == Spec => []TypeOK
<1>1. Init => TypeOK
    <2>1. Init => PlacesOK
        BY DEF Init, PlacesOK
    <2>2. Init => /\ state \in [Candidates -> States]
                  /\ citations \in [Candidates -> 0 .. MaxCitations]
                  /\ before \in [Candidates -> States \cup {"none"}]
                  /\ rows \in [Candidates -> Nat] /\ audits \in [Candidates -> Nat]
                  /\ calls \in 0 .. MaxCalls /\ faults \in 0 .. MaxFaults
        <3>1. Init => /\ state = [c \in Candidates |-> "proposed"]
                      /\ citations = [c \in Candidates |-> 0]
                      /\ before = [c \in Candidates |-> "none"]
                      /\ rows = [c \in Candidates |-> 0] /\ audits = [c \in Candidates |-> 0]
                      /\ calls = 0 /\ faults = 0
            BY Zenon DEF Init
        <3> QED
            BY <3>1, BoundsAssumption DEF States
    <2>3. Init => /\ pc \in [Callers -> Pc] /\ cand \in [Callers -> Candidates]
                  /\ left \in [Callers -> 0 .. 2] /\ restore \in [Callers -> States]
                  /\ overtaken \subseteq Callers /\ misread \subseteq Candidates
                  /\ unaudited \in [Candidates -> Nat]
                  /\ \A p \in Callers : pc[p] = "write" => left[p] > 0
        <3>1. Init => /\ pc = [p \in Callers |-> "idle"] /\ cand \in [Callers -> Candidates]
                      /\ left = [p \in Callers |-> 0]
                      /\ restore = [p \in Callers |-> "proposed"]
                      /\ overtaken = {} /\ misread = {}
                      /\ unaudited = [c \in Candidates |-> 0]
            BY Zenon DEF Init
        <3> QED
            BY <3>1 DEF Pc, States
    <2> QED
        BY <2>1, <2>2, <2>3 DEF TypeOK
<1> QED
    BY <1>1, NextTypes, PTL DEF Spec

-----------------------------------------------------------------------------
LEMMA CitedStep ==
    ASSUME TypeOK, CitedInv, NEW p \in Callers, Step(p)
    PROVE  CitedInv'
<1> USE DEF TypeOK, CitedInv, store, frames, Goto, Return
<1>1. CASE Judge(p)
    <2>1. PICK c \in Candidates, min \in Minimums : Enough(c, min) /\ Begin(p, c, "set_state")
        BY <1>1 DEF Judge
    <2>2. citations[c] > 0
        BY <2>1, SetsAssumption DEF Enough
    <2> QED
        BY <1>1, <2>1, <2>2 DEF Judge, Begin
<1>2. CASE JudgeSetState(p)
    BY <1>2 DEF JudgeSetState
<1>3. CASE JudgeAudit(p)
    BY <1>3 DEF JudgeAudit
<1>4. CASE Promote(p)
    BY <1>4 DEF Promote, Begin
<1>5. CASE Target(p)
    BY <1>5 DEF Target, Placing
<1>6. CASE Write(p)
    BY <1>6 DEF Write, Written
<1>7. CASE PromoteAudit(p)
    BY <1>7 DEF PromoteAudit
<1>8. CASE Rollback(p)
    BY <1>8 DEF Rollback, Begin
<1>9. CASE RollbackApply(p)
    BY <1>9 DEF RollbackApply
<1>10. CASE Crash(p)
    BY <1>10 DEF Crash
<1> QED
    BY <1>1, <1>2, <1>3, <1>4, <1>5, <1>6, <1>7, <1>8, <1>9, <1>10 DEF Step

(* Nothing reaches a surface without evidence that cites it.  Inductive is    *)
(* CitedInv: wherever the state committed comes from, a judge saw a citation. *)
THEOREM PromotedWasCitedHolds == Spec => []PromotedWasCited
<1>1. Init => CitedInv
    BY DEF Init, CitedInv
<1>2. TypeOK /\ CitedInv /\ [Next]_vars => CitedInv'
    <2> SUFFICES ASSUME TypeOK, CitedInv, [Next]_vars PROVE CitedInv'
        OBVIOUS
    <2>1. ASSUME NEW p \in Callers, Step(p) PROVE CitedInv'
        BY <2>1, CitedStep
    <2>2. ASSUME NEW c \in Candidates, Cite(c) PROVE CitedInv'
        BY <2>2 DEF Cite, TypeOK, CitedInv, frames
    <2>3. CASE UNCHANGED vars
        BY <2>3 DEF CitedInv, vars, store, frames
    <2> QED
        BY <2>1, <2>2, <2>3 DEF Next
<1>3. CitedInv => PromotedWasCited
    BY DEF CitedInv, PromotedWasCited
<1> QED
    BY <1>1, <1>2, <1>3, EvidenceTypeCorrect, PTL DEF Spec

-----------------------------------------------------------------------------
LEMMA AuditingFinite ==
    ASSUME NEW c
    PROVE  IsFiniteSet(Auditing(c)) /\ Cardinality(Auditing(c)) \in Nat
BY SetsAssumption, FS_Subset, FS_CardinalityType DEF Auditing

(* Who audits what is not affected, nor what has been. *)
LEMMA NoAudit ==
    ASSUME AuditedWasWritten, UNCHANGED <<rows, audits, unaudited>>,
           \A q \in Callers : (pc'[q] = "promote_audit") <=> (pc[q] = "promote_audit"),
           \A q \in Callers : pc[q] = "promote_audit" => cand'[q] = cand[q]
    PROVE  AuditedWasWritten'
<1>1. ASSUME NEW c \in Candidates PROVE Auditing(c)' = Auditing(c)
    <2>1. \A q \in Callers : (pc'[q] = "promote_audit" /\ cand'[q] = c)
                             <=> (pc[q] = "promote_audit" /\ cand[q] = c)
        OBVIOUS
    <2> QED
        BY <2>1, Zenon DEF Auditing
<1> QED
    BY <1>1 DEF AuditedWasWritten

(* A completed write: one more row, and one more caller that is to audit it. *)
LEMMA WriteAudit ==
    ASSUME AuditedWasWritten, TypeOK, NEW p \in Callers, Write(p)
    PROVE  AuditedWasWritten'
<1> USE DEF Goto, Return
<1>0. UNCHANGED <<audits, unaudited, cand>> /\ pc[p] = "write"
    BY DEF Write, Written, history
<1>1. CASE UNCHANGED rows
    <2>1. \A q \in Callers : (pc'[q] = "promote_audit") <=> (pc[q] = "promote_audit")
        BY <1>1 DEF Write, Written, TypeOK
    <2> QED
        BY <1>0, <1>1, <2>1, NoAudit
<1>2. CASE /\ rows' = [rows EXCEPT ![cand[p]] = @ + 1]
           /\ pc' = [pc EXCEPT ![p] = "promote_audit"]
    <2> SUFFICES ASSUME NEW c \in Candidates
                 PROVE  rows'[c] = audits'[c] + unaudited'[c] + Cardinality(Auditing(c)')
        BY DEF AuditedWasWritten
    <2>0. /\ audits[c] \in Nat /\ rows[c] \in Nat /\ unaudited[c] \in Nat
          /\ rows[c] = audits[c] + unaudited[c] + Cardinality(Auditing(c))
        BY DEF AuditedWasWritten, TypeOK
    <2>1. IsFiniteSet(Auditing(c)) /\ Cardinality(Auditing(c)) \in Nat
        BY AuditingFinite
    <2>2. CASE c = cand[p]
        <3>1. Auditing(c)' = Auditing(c) \cup {p} /\ p \notin Auditing(c)
            BY <1>0, <1>2, <2>2 DEF Auditing, TypeOK
        <3>2. Cardinality(Auditing(c)') = Cardinality(Auditing(c)) + 1
            BY <2>1, <3>1, FS_AddElement
        <3>3. rows'[c] = rows[c] + 1
            BY <1>2, <2>2 DEF TypeOK
        <3> QED
            BY <1>0, <2>0, <2>1, <3>2, <3>3
    <2>3. CASE c # cand[p]
        <3>1. Auditing(c)' = Auditing(c)
            BY <1>0, <1>2, <2>3 DEF Auditing, TypeOK
        <3>2. rows'[c] = rows[c]
            BY <1>2, <2>3 DEF TypeOK
        <3> QED
            BY <1>0, <2>0, <3>1, <3>2
    <2> QED
        BY <2>2, <2>3
<1> QED
    BY <1>1, <1>2 DEF Write, Written

(* An audit that is made, or given up, takes the place of its caller. *)
LEMMA AuditEnds ==
    ASSUME AuditedWasWritten, TypeOK, NEW p \in Callers, pc[p] = "promote_audit",
           pc' = [pc EXCEPT ![p] = "idle"], UNCHANGED <<rows, cand>>,
           \/ audits' = [audits EXCEPT ![cand[p]] = @ + 1] /\ UNCHANGED unaudited
           \/ unaudited' = [unaudited EXCEPT ![cand[p]] = @ + 1] /\ UNCHANGED audits
    PROVE  AuditedWasWritten'
<1> SUFFICES ASSUME NEW c \in Candidates
             PROVE  rows'[c] = audits'[c] + unaudited'[c] + Cardinality(Auditing(c)')
    BY DEF AuditedWasWritten
<1>0. /\ audits[c] \in Nat /\ rows[c] \in Nat /\ unaudited[c] \in Nat
      /\ rows[c] = audits[c] + unaudited[c] + Cardinality(Auditing(c))
    BY DEF AuditedWasWritten, TypeOK
<1>1. IsFiniteSet(Auditing(c)) /\ Cardinality(Auditing(c)) \in Nat
    BY AuditingFinite
<1>2. CASE c = cand[p]
    <2>1. Auditing(c)' = Auditing(c) \ {p} /\ p \in Auditing(c)
        BY <1>2 DEF Auditing, TypeOK
    <2>2. Cardinality(Auditing(c)') = Cardinality(Auditing(c)) - 1
        BY <1>1, <2>1, FS_RemoveElement
    <2>3. audits'[c] + unaudited'[c] = audits[c] + unaudited[c] + 1
        BY <1>0, <1>2 DEF TypeOK
    <2>4. audits'[c] \in Nat /\ unaudited'[c] \in Nat
        BY <1>0, <1>2 DEF TypeOK
    <2> QED
        BY <1>0, <1>1, <2>2, <2>3, <2>4
<1>3. CASE c # cand[p]
    <2>1. Auditing(c)' = Auditing(c)
        BY <1>3 DEF Auditing, TypeOK
    <2>2. audits'[c] = audits[c] /\ unaudited'[c] = unaudited[c]
        BY <1>3 DEF TypeOK
    <2> QED
        BY <1>0, <2>1, <2>2
<1> QED
    BY <1>2, <1>3

LEMMA StepAudit ==
    ASSUME AuditedWasWritten, TypeOK, NEW p \in Callers, Step(p)
    PROVE  AuditedWasWritten'
<1> USE DEF Goto, Return, Begin, history
<1>1. CASE Write(p)
    BY <1>1, WriteAudit
<1>2. CASE PromoteAudit(p)
    BY <1>2, AuditEnds DEF PromoteAudit, Unaudited
<1>3. CASE Crash(p) /\ pc[p] = "promote_audit"
    BY <1>3, AuditEnds DEF Crash, Unaudited, store
<1>4. CASE ~Write(p) /\ ~PromoteAudit(p) /\ ~(Crash(p) /\ pc[p] = "promote_audit")
    <2>1. UNCHANGED <<rows, audits, unaudited>>
        BY <1>4 DEF Step, Judge, JudgeSetState, JudgeAudit, Promote, Target, Placing, Rollback,
                    RollbackApply, Crash, store
    <2>2. \A q \in Callers : (pc'[q] = "promote_audit") <=> (pc[q] = "promote_audit")
        BY <1>4 DEF Step, Judge, JudgeSetState, JudgeAudit, Promote, Target, Placing, Rollback,
                    RollbackApply, Crash, TypeOK
    <2>3. \A q \in Callers : pc[q] = "promote_audit" => cand'[q] = cand[q]
        BY <1>4 DEF Step, Judge, JudgeSetState, JudgeAudit, Promote, Target, Placing, Rollback,
                    RollbackApply, Crash, TypeOK
    <2> QED
        BY <2>1, <2>2, <2>3, NoAudit
<1> QED
    BY <1>1, <1>2, <1>3, <1>4

(* The audit trail accounts for every completed write: it is audited, a caller *)
(* is about to audit it, or its audit failed or died with its caller.          *)
THEOREM AuditedWasWrittenHolds == Spec => []AuditedWasWritten
<1>1. Init => AuditedWasWritten
    <2> SUFFICES ASSUME Init, NEW c \in Candidates
                 PROVE  rows[c] = audits[c] + unaudited[c] + Cardinality(Auditing(c))
        BY DEF AuditedWasWritten
    <2>1. Auditing(c) = {} /\ audits[c] = 0 /\ rows[c] = 0 /\ unaudited[c] = 0
        BY DEF Init, Auditing
    <2> QED
        BY <2>1, FS_EmptySet
<1>2. TypeOK /\ AuditedWasWritten /\ [Next]_vars => AuditedWasWritten'
    <2> SUFFICES ASSUME TypeOK, AuditedWasWritten, [Next]_vars PROVE AuditedWasWritten'
        OBVIOUS
    <2>1. ASSUME NEW p \in Callers, Step(p) PROVE AuditedWasWritten'
        BY <2>1, StepAudit
    <2>2. CASE (\E c \in Candidates : Cite(c)) \/ UNCHANGED vars
        <3>1. UNCHANGED <<rows, audits, unaudited, pc, cand>>
            BY <2>2 DEF Cite, vars, store, frames, history
        <3> QED
            BY <3>1, NoAudit
    <2> QED
        BY <2>1, <2>2 DEF Next
<1> QED
    BY <1>1, <1>2, EvidenceTypeCorrect, PTL DEF Spec

-----------------------------------------------------------------------------
LEMMA PromotesStep ==
    ASSUME TypeOK, PromotesCommitted, NEW p \in Callers, Step(p)
    PROVE  PromotesCommitted'
<1> USE DEF TypeOK, PromotesCommitted, store, frames, history, Goto, Return
<1>1. CASE Judge(p)
    <2>1. PICK c \in Candidates : Begin(p, c, "set_state")
        BY <1>1 DEF Judge
    <2> QED
        BY <1>1, <2>1 DEF Judge, Begin
<1>2. CASE JudgeSetState(p)
    BY <1>2 DEF JudgeSetState
<1>3. CASE JudgeAudit(p)
    BY <1>3 DEF JudgeAudit
<1>4. CASE Promote(p)
    BY <1>4 DEF Promote, Begin
<1>5. CASE Target(p)
    BY <1>5 DEF Target, Placing
<1>6. CASE Write(p)
    BY <1>6 DEF Write, Written
<1>7. CASE PromoteAudit(p)
    BY <1>7 DEF PromoteAudit
<1>8. CASE Rollback(p)
    BY <1>8 DEF Rollback, Begin
<1>9. CASE RollbackApply(p)
    BY <1>9 DEF RollbackApply
<1>10. CASE Crash(p)
    BY <1>10 DEF Crash
<1> QED
    BY <1>1, <1>2, <1>3, <1>4, <1>5, <1>6, <1>7, <1>8, <1>9, <1>10 DEF Step

(* A promotion that is under way is of a committed candidate, unless a        *)
(* thumbs-down took the commit back after the promotion had read the state.   *)
THEOREM PromotesCommittedHolds == Spec => []PromotesCommitted
<1>1. Init => PromotesCommitted
    BY DEF Init, PromotesCommitted
<1>2. TypeOK /\ PromotesCommitted /\ [Next]_vars => PromotesCommitted'
    <2> SUFFICES ASSUME TypeOK, PromotesCommitted, [Next]_vars PROVE PromotesCommitted'
        OBVIOUS
    <2>1. ASSUME NEW p \in Callers, Step(p) PROVE PromotesCommitted'
        BY <2>1, PromotesStep
    <2>2. CASE (\E c \in Candidates : Cite(c)) \/ UNCHANGED vars
        BY <2>2 DEF Cite, vars, store, frames, history, PromotesCommitted
    <2> QED
        BY <2>1, <2>2 DEF Next
<1> QED
    BY <1>1, <1>2, EvidenceTypeCorrect, PTL DEF Spec

-----------------------------------------------------------------------------
(* Why a candidate lands where it is meant to: so does every write to come. *)
Meant(c, s, unread) ==
    s = TargetOf[c] \/ (s = KindSurface(c) /\ (TargetOf[c] = "" \/ c \in unread))
PlacingInv ==
    PlacedAsMeant /\ \A p \in Callers : pc[p] = "write" => Meant(cand[p], surface[p], misread)

LEMMA MisreadRemains ==
    ASSUME NEW p \in Callers, Step(p)
    PROVE  misread \subseteq misread'
<1>1. CASE Target(p)
    BY <1>1 DEF Target
<1>2. CASE ~Target(p)
    BY <1>2 DEF Step, Judge, JudgeSetState, JudgeAudit, Promote, Write, PromoteAudit, Rollback,
                RollbackApply, Crash, history
<1> QED
    BY <1>1, <1>2

LEMMA PlacingStep ==
    ASSUME TypeOK, PlacingInv, NEW p \in Callers, Step(p)
    PROVE  PlacingInv'
<1>0. /\ pc \in [Callers -> Pc] /\ cand \in [Callers -> Candidates]
      /\ placed \in [Candidates -> SUBSET Surfaces]
      /\ surface \in [Callers -> Surfaces \cup {""}]
    BY DEF TypeOK, PlacesOK
<1>1. misread \subseteq misread'
    BY MisreadRemains
<1>2. placed \in [Candidates -> SUBSET Surfaces]
    BY <1>0
<1>3. \A c \in Candidates : \A s \in placed[c] : Meant(c, s, misread)
    BY DEF PlacingInv, PlacedAsMeant, Meant
<1>4. \A q \in Callers : pc[q] = "write" => Meant(cand[q], surface[q], misread)
    BY DEF PlacingInv
<1>5. SUFFICES /\ \A c \in Candidates : \A s \in placed'[c] : Meant(c, s, misread')
               /\ \A q \in Callers : pc'[q] = "write" => Meant(cand'[q], surface'[q], misread')
    BY Zenon DEF PlacingInv, PlacedAsMeant, Meant, KindSurface
<1>6. \A c, s : Meant(c, s, misread) => Meant(c, s, misread')
    BY <1>1, Zenon DEF Meant
<1>7. CASE Target(p)
    <2>1. UNCHANGED placed
        BY <1>7 DEF Target, store
    <2>2. PICK column \in {TargetOf[cand[p]], ""} :
            /\ \/ column = TargetOf[cand[p]]
               \/ column = "" /\ cand[p] \in misread'
            /\ Placing(p, IF column # "" THEN column ELSE KindSurface(cand[p]))
        BY <1>7 DEF Target
    <2> DEFINE s == IF column # "" THEN column ELSE KindSurface(cand[p])
    <2>3. Meant(cand[p], s, misread')
        <3>1. CASE column # ""
            BY <2>2, <3>1 DEF Meant
        <3>2. CASE column = "" /\ TargetOf[cand[p]] = ""
            BY <3>2 DEF Meant
        <3>3. CASE column = "" /\ cand[p] \in misread'
            BY <3>3 DEF Meant
        <3> QED
            BY <2>2, <3>1, <3>2, <3>3
    <2>4. /\ UNCHANGED cand
          /\ \A q \in Callers : q # p => pc'[q] = pc[q] /\ surface'[q] = surface[q]
          /\ pc'[p] = "write" => surface'[p] = s
        <3> HIDE DEF s
        <3>1. Placing(p, s)
            BY <2>2 DEF s
        <3> QED
            BY <1>0, <3>1 DEF Placing, Goto, Return
    <2>5. ASSUME NEW q \in Callers, pc'[q] = "write"
          PROVE  Meant(cand'[q], surface'[q], misread')
        <3> HIDE DEF s
        <3>1. CASE q = p
            BY <2>3, <2>4, <2>5, <3>1
        <3>2. CASE q # p
            BY <1>4, <1>6, <2>4, <2>5, <3>2
        <3> QED
            BY <3>1, <3>2
    <2> QED
        BY <1>3, <1>6, <2>1, <2>5
<1>8. CASE Write(p)
    <2>1. UNCHANGED <<surface, cand>> /\ pc[p] = "write"
          /\ \A q \in Callers : pc'[q] = "write" => pc[q] = "write"
        BY <1>0, <1>8 DEF Write, Written, Goto, Return
    <2>2. \/ UNCHANGED placed
          \/ placed' = [placed EXCEPT ![cand[p]] = @ \cup {surface[p]}]
        BY <1>8 DEF Write, Written
    <2>3. ASSUME NEW c \in Candidates, NEW s \in placed'[c] PROVE Meant(c, s, misread)
        <3>1. s \in placed[c] \/ (c = cand[p] /\ s = surface[p])
            <4>1. CASE c = cand[p]
                BY <1>2, <2>2, <2>3, <4>1
            <4>2. CASE c # cand[p]
                BY <1>2, <2>2, <2>3, <4>2
            <4> QED
                BY <4>1, <4>2
        <3> QED
            BY <1>3, <1>4, <2>1, <3>1
    <2> QED
        BY <1>4, <1>6, <2>1, <2>3
<1>9. CASE ~Target(p) /\ ~Write(p)
    <2>1. UNCHANGED <<surface, placed>>
        BY <1>9 DEF Step, Judge, JudgeSetState, JudgeAudit, Promote, PromoteAudit, Rollback,
                    RollbackApply, Crash, store
    <2>2. \A q \in Callers : pc'[q] = "write" => pc[q] = "write" /\ cand'[q] = cand[q]
        <3>1. \E label \in Pc \ {"write"} :
                \/ Goto(p, label)
                \/ \E c \in Candidates : Begin(p, c, label)
            <4>1. CASE Judge(p) \/ Promote(p)
                BY <4>1 DEF Judge, Promote, Pc
            <4>2. CASE JudgeSetState(p) \/ JudgeAudit(p) \/ PromoteAudit(p)
                BY <4>2 DEF JudgeSetState, JudgeAudit, PromoteAudit, Return, Pc
            <4>3. CASE Rollback(p) \/ RollbackApply(p) \/ Crash(p)
                BY <4>3 DEF Rollback, RollbackApply, Crash, Return, Pc
            <4> QED
                BY <1>9, <4>1, <4>2, <4>3 DEF Step
        <3> QED
            BY <1>0, <3>1 DEF Begin, Goto
    <2> QED
        BY <1>3, <1>4, <1>6, <2>1, <2>2
<1> QED
    BY <1>7, <1>8, <1>9

(* A promotion lands on the surface the candidate is meant for, or, when the *)
(* read of that one failed, on the one of its kind.                          *)
THEOREM PlacedAsMeantHolds == Spec => []PlacedAsMeant
<1>1. Init => PlacingInv
    BY DEF Init, PlacingInv, PlacedAsMeant
<1>2. TypeOK /\ PlacingInv /\ [Next]_vars => PlacingInv'
    <2> SUFFICES ASSUME TypeOK, PlacingInv, [Next]_vars PROVE PlacingInv'
        OBVIOUS
    <2>1. ASSUME NEW p \in Callers, Step(p) PROVE PlacingInv'
        BY <2>1, PlacingStep
    <2>2. CASE (\E c \in Candidates : Cite(c)) \/ UNCHANGED vars
        <3>1. UNCHANGED <<placed, pc, cand, surface, misread>>
            BY <2>2 DEF Cite, vars, store, frames, history
        <3> QED
            BY <3>1, Zenon DEF PlacingInv, PlacedAsMeant, Meant, KindSurface
    <2> QED
        BY <2>1, <2>2 DEF Next
<1>3. PlacingInv => PlacedAsMeant
    BY DEF PlacingInv
<1> QED
    BY <1>1, <1>2, <1>3, EvidenceTypeCorrect, PTL DEF Spec

-----------------------------------------------------------------------------
(* The capture of evidence adds nothing to what judges, promotions and       *)
(* rollbacks do: every step of CaptureSpec is a step of the specification of *)
(* LearningEvidence, or leaves its variables alone, so what is proved of     *)
(* that one holds with capture and synthesis around it.  And no candidate is *)
(* cited more often than different contents were reported.                   *)

LEMMA CaptureStep == [CaptureNext]_captureVars => [Next]_vars
<1> SUFFICES ASSUME [CaptureNext]_captureVars PROVE [Next]_vars
  OBVIOUS
<1>1. ASSUME NEW p \in Callers, Capture(p) \/ Enqueue(p) \/ CrashInCapture(p)
      PROVE  UNCHANGED vars
  BY <1>1 DEF Capture, Enqueue, CrashInCapture
<1>2. ASSUME NEW p \in Callers, Commit(p) PROVE Next
  BY <1>2 DEF Commit, Next
<1>3. ASSUME NEW a \in Artifacts, Embed(a) PROVE UNCHANGED vars
  BY <1>3 DEF Embed
<1>4. ASSUME NEW a \in Artifacts, Synthesise(a) PROVE [Next]_vars
  BY <1>4 DEF Synthesise, Next
<1>5. CASE UNCHANGED captureVars
  BY <1>5 DEF captureVars
<1> QED BY <1>1, <1>2, <1>3, <1>4, <1>5 DEF CaptureNext

(* The pipeline with capture implements the pipeline without: learning_judge *)
(* _commit, learning_promote and learning_review_rollback see evidence only  *)
(* as citations that come from somewhere.                                    *)
THEOREM CaptureImplementsEvidence == CaptureSpec => Spec
BY CaptureStep, PTL DEF CaptureSpec, CaptureInit, Spec

(* Nothing that was captured, queued twice, lost in a queue or synthesised   *)
(* again lets a candidate reach its surface uncited.                         *)
THEOREM CapturedPromotedWasCited == CaptureSpec => []PromotedWasCited
BY CaptureImplementsEvidence, PromotedWasCitedHolds, PTL

-----------------------------------------------------------------------------
LEMMA StoredFinite ==
    ASSUME CaptureOK PROVE IsFiniteSet(Stored) /\ Stored \subseteq Artifacts
<1>1. IsFiniteSet(reported) /\ reported \subseteq Reports
  BY ReportsAssumption, FS_Subset DEF CaptureOK
<1> DEFINE f == [r \in reported |-> Identity(r)]
<1>2. f \in Surjection(reported, Stored)
  BY DEF Surjection, Stored
<1>3. IsFiniteSet(Stored)
  BY <1>1, <1>2, FS_Surjection
<1> QED BY <1>1, <1>3 DEF Stored, Artifacts

LEMMA CitesInit == CaptureInit => CitesInv /\ NothingForgotten
<1> SUFFICES ASSUME CaptureInit PROVE CitesInv /\ NothingForgotten
  OBVIOUS
<1>1. CaptureOK
  BY DEF CaptureInit, CaptureOK, Stages, Queues
<1>2. \A c \in Candidates : cites[c] = {} /\ citations[c] = 0
  BY DEF CaptureInit, Init
<1>3. CitesInv
  BY <1>1, <1>2, FS_EmptySet DEF CaptureInit, CitesInv
<1>4. Stored = {}
  BY DEF CaptureInit, Stored
<1> QED BY <1>3, <1>4 DEF NothingForgotten

(* What is stored stays stored. *)
LEMMA StoredGrows ==
    ASSUME CaptureOK, CaptureOK', reported \subseteq reported' PROVE Stored \subseteq Stored'
BY DEF Stored

LEMMA CaptureKeeps ==
    ASSUME TypeOK, CitesInv, NothingForgotten, NEW p \in Callers, Capture(p)
    PROVE  CitesInv' /\ NothingForgotten'
<1>1. PICK r \in Reports :
        /\ reported' = reported \cup {r}
        /\ capture' = [capture EXCEPT ![p] = <<"embed", Identity(r)>>]
        /\ lost' = {l \in lost : l[2] # Identity(r)}
  BY DEF Capture
<1>2. capture[p] = <<>> /\ queue' = queue /\ cites' = cites /\ citations' = citations
  BY DEF Capture, Idle, vars, store
<1> DEFINE a == Identity(r)
<1>3. a \in Artifacts /\ Stored' = Stored \cup {a}
  BY <1>1 DEF Artifacts, Stored
<1> HIDE DEF a
<1>4. CaptureOK'
  BY <1>1, <1>2, <1>3 DEF CitesInv, CaptureOK, Queues, a
<1>5. CitesInv'
  BY <1>1, <1>2, <1>3, <1>4 DEF CitesInv, CaptureOK, a
<1>6. ASSUME NEW b \in Stored', NEW q \in Queues
      PROVE  \/ queue'[q][b] # "none"
             \/ <<q, b>> \in lost'
             \/ \E o \in Callers : capture'[o] \in {<<"embed", b>>, <<q, b>>}
  <2>1. CASE b = a
    BY <1>1, <2>1 DEF CitesInv, CaptureOK, a
  <2>2. CASE b # a
    <3>1. b \in Stored
      BY <1>3, <2>2
    <3>2. <<q, b>> \in lost => <<q, b>> \in lost'
      BY <1>1, <2>2 DEF a
    <3>3. \A o \in Callers : capture[o] \in {<<"embed", b>>, <<q, b>>}
                => capture'[o] \in {<<"embed", b>>, <<q, b>>}
      BY <1>1, <1>2 DEF CitesInv, CaptureOK
    <3> QED BY <1>2, <3>1, <3>2, <3>3 DEF NothingForgotten
  <2> QED BY <2>1, <2>2
<1> QED BY <1>5, <1>6 DEF NothingForgotten

LEMMA EnqueueKeeps ==
    ASSUME TypeOK, CitesInv, NothingForgotten, NEW p \in Callers, Enqueue(p)
    PROVE  CitesInv' /\ NothingForgotten'
<1>1. PICK q \in Queues, a \in Artifacts : capture[p] = <<q, a>>
  BY DEF Enqueue, CitesInv, CaptureOK
<1>2. /\ reported' = reported /\ cites' = cites /\ citations' = citations
      /\ Stored' = Stored /\ a \in Stored
  BY <1>1 DEF Enqueue, Stored, vars, store, CitesInv
<1>3. capture' = [capture EXCEPT ![p] = IF q = "embed" THEN <<"synth", a>> ELSE <<>>]
  BY <1>1 DEF Enqueue, Then, CitesInv, CaptureOK
<1>4. \/ /\ queue' = [queue EXCEPT ![q][a] = IF @ = "none" THEN "queued" ELSE @]
         /\ lost' = lost
      \/ queue' = queue /\ lost' = lost \cup {<<q, a>>}
  BY <1>1 DEF Enqueue
<1>5. /\ queue' \in [Queues -> [Artifacts -> Stages]]
      /\ queue'[q][a] # "none" \/ <<q, a>> \in lost'
      /\ \A o \in Queues, b \in Artifacts :
            /\ <<o, b>> # <<q, a>> => queue'[o][b] = queue[o][b]
            /\ queue[o][b] # "none" => queue'[o][b] # "none"
      /\ lost \subseteq lost'
  BY <1>4 DEF CitesInv, CaptureOK, Stages
<1>6. CaptureOK'
  BY <1>2, <1>3, <1>5 DEF CitesInv, CaptureOK, Queues
<1>7. CitesInv'
  <2>1. \A o \in Callers : capture'[o] # <<>> => capture'[o][2] \in Stored
    BY <1>2, <1>3 DEF CitesInv, CaptureOK
  <2>2. \A o \in Queues, b \in Artifacts : queue'[o][b] # "none" => b \in Stored
    BY <1>2, <1>5 DEF CitesInv
  <2> QED BY <1>2, <1>6, <2>1, <2>2 DEF CitesInv
<1>8. ASSUME NEW b \in Stored', NEW o \in Queues
      PROVE  \/ queue'[o][b] # "none"
             \/ <<o, b>> \in lost'
             \/ \E x \in Callers : capture'[x] \in {<<"embed", b>>, <<o, b>>}
  <2>1. b \in Stored /\ b \in Artifacts
    BY <1>2, StoredFinite DEF CitesInv
  <2>2. CASE queue[o][b] # "none" \/ <<o, b>> \in lost
    BY <1>5, <2>1, <2>2
  <2>3. ASSUME NEW x \in Callers, capture[x] \in {<<"embed", b>>, <<o, b>>}, x # p
        PROVE  capture'[x] \in {<<"embed", b>>, <<o, b>>}
    BY <1>3, <2>3 DEF CitesInv, CaptureOK
  <2>4. CASE capture[p] \in {<<"embed", b>>, <<o, b>>}
    <3>1. b = a /\ (q = "embed" \/ q = o)
      BY <1>1, <2>4
    <3>2. CASE o = q
      BY <1>5, <3>1, <3>2
    <3>3. CASE o # q
      <4>1. o = "synth" /\ q = "embed"
        BY <3>1, <3>3 DEF Queues
      <4>2. capture'[p] = <<o, b>>
        BY <1>3, <3>1, <4>1 DEF CitesInv, CaptureOK
      <4> QED BY <4>2
    <3> QED BY <3>2, <3>3
  <2> QED BY <2>1, <2>2, <2>3, <2>4 DEF NothingForgotten
<1> QED BY <1>7, <1>8 DEF NothingForgotten

LEMMA CrashKeeps ==
    ASSUME TypeOK, CitesInv, NothingForgotten, NEW p \in Callers, CrashInCapture(p)
    PROVE  CitesInv' /\ NothingForgotten'
<1>1. PICK q \in Queues, a \in Artifacts : capture[p] = <<q, a>>
  BY DEF CrashInCapture, CitesInv, CaptureOK
<1>2. /\ queue' = queue /\ cites' = cites /\ citations' = citations
      /\ reported' = reported /\ Stored' = Stored
      /\ capture' = [capture EXCEPT ![p] = <<>>]
      /\ lost' = lost \cup {<<o, a>> : o \in IF q = "embed" THEN Queues ELSE {"synth"}}
  BY <1>1 DEF CrashInCapture, Stored, vars, store
<1>3. CitesInv'
  BY <1>2 DEF CitesInv, CaptureOK
<1>4. ASSUME NEW b \in Stored, NEW o \in Queues
      PROVE  \/ queue'[o][b] # "none"
             \/ <<o, b>> \in lost'
             \/ \E x \in Callers : capture'[x] \in {<<"embed", b>>, <<o, b>>}
  <2>1. ASSUME NEW x \in Callers, capture[x] \in {<<"embed", b>>, <<o, b>>}, x # p
        PROVE  capture'[x] \in {<<"embed", b>>, <<o, b>>}
    BY <1>2, <2>1 DEF CitesInv, CaptureOK
  <2>2. CASE capture[p] \in {<<"embed", b>>, <<o, b>>}
    <3>1. b = a /\ (q = "embed" \/ q = o)
      BY <1>1, <2>2
    <3>2. o \in IF q = "embed" THEN Queues ELSE {"synth"}
      BY <3>1 DEF Queues
    <3> QED BY <1>2, <3>1, <3>2
  <2> QED BY <1>2, <2>1, <2>2 DEF NothingForgotten
<1> QED BY <1>2, <1>3, <1>4 DEF NothingForgotten

(* An edge that is there is not counted again, a new one is one citation more. *)
LEMMA WorkersKeep ==
    ASSUME TypeOK, CitesInv, NothingForgotten, NEW a \in Artifacts, Embed(a) \/ Synthesise(a)
    PROVE  CitesInv' /\ NothingForgotten'
<1>1. PICK q \in Queues : /\ queue[q][a] = "queued"
                          /\ queue' = [queue EXCEPT ![q][a] = "done"]
  BY DEF Embed, Synthesise, Queues
<1>2. /\ reported' = reported /\ capture' = capture /\ lost' = lost /\ Stored' = Stored
      /\ a \in Stored
  BY <1>1 DEF Embed, Synthesise, Stored, CitesInv
<1>3. /\ queue' \in [Queues -> [Artifacts -> Stages]]
      /\ \A o \in Queues, b \in Artifacts : queue'[o][b] # "none" <=> queue[o][b] # "none"
  BY <1>1 DEF CitesInv, CaptureOK, Stages
<1>4. ASSUME NEW c \in Candidates
      PROVE  /\ cites' \in [Candidates -> SUBSET Artifacts]
             /\ cites'[c] \subseteq Stored
             /\ citations'[c] = Cardinality(cites'[c])
  <2>1. CASE UNCHANGED <<vars, cites>>
    BY <2>1 DEF vars, store, CitesInv, CaptureOK
  <2>2. CASE Synthesise(a) /\ ~UNCHANGED <<vars, cites>>
    <3>1. PICK d \in Candidates :
            /\ cites' = [cites EXCEPT ![d] = @ \cup {a}]
            /\ IF a \in cites[d] THEN UNCHANGED vars ELSE Cite(d)
      BY <2>2 DEF Synthesise
    <3>2. cites \in [Candidates -> SUBSET Artifacts] /\ citations \in [Candidates -> 0 .. MaxCitations]
      BY DEF CitesInv, CaptureOK, TypeOK
    <3>3. cites[d] \subseteq Stored /\ IsFiniteSet(cites[d])
          /\ citations[d] = Cardinality(cites[d])
      BY StoredFinite, FS_Subset DEF CitesInv
    <3>4. CASE a \in cites[d]
      <4>1. cites' = cites /\ citations' = citations
        BY <3>1, <3>2, <3>4 DEF vars, store
      <4> QED BY <4>1 DEF CitesInv, CaptureOK
    <3>5. CASE a \notin cites[d]
      <4>1. citations' = [citations EXCEPT ![d] = @ + 1]
        BY <3>1, <3>5 DEF Cite
      <4>2. Cardinality(cites[d] \cup {a}) = Cardinality(cites[d]) + 1
        BY <3>3, <3>5, FS_AddElement
      <4> QED BY <1>2, <3>1, <3>2, <3>3, <4>1, <4>2 DEF CitesInv
    <3> QED BY <3>4, <3>5
  <2>3. Embed(a) => UNCHANGED <<vars, cites>>
    BY DEF Embed
  <2> QED BY <2>1, <2>2, <2>3
<1>5. cites' \in [Candidates -> SUBSET Artifacts]
  BY <1>4 DEF CitesInv, CaptureOK, Embed, Synthesise
<1>6. CaptureOK'
  BY <1>2, <1>3, <1>5 DEF CitesInv, CaptureOK
<1>7. CitesInv'
  BY <1>2, <1>3, <1>4, <1>6 DEF CitesInv
<1>8. NothingForgotten'
  <2>1. Stored \subseteq Artifacts
    BY StoredFinite DEF CitesInv
  <2> QED BY <1>2, <1>3, <2>1 DEF NothingForgotten
<1> QED BY <1>7, <1>8

LEMMA CommitKeeps ==
    ASSUME CitesInv, NothingForgotten, NEW p \in Callers, Commit(p)
    PROVE  CitesInv' /\ NothingForgotten'
<1>1. UNCHANGED <<reported, queue, cites, capture, lost>>
  BY DEF Commit
<1>2. citations' = citations
  BY DEF Commit, Step, Judge, JudgeSetState, JudgeAudit, Promote, Target, Write, PromoteAudit,
         Rollback, RollbackApply, Crash, store
<1> QED BY <1>1, <1>2 DEF CitesInv, CaptureOK, NothingForgotten, Stored

LEMMA CitesStep ==
    TypeOK /\ CitesInv /\ NothingForgotten /\ [CaptureNext]_captureVars
        => CitesInv' /\ NothingForgotten'
<1>1. CASE UNCHANGED captureVars
  BY <1>1 DEF captureVars, vars, store, CitesInv, CaptureOK, NothingForgotten, Stored
<1> QED BY <1>1, CaptureKeeps, EnqueueKeeps, CrashKeeps, WorkersKeep, CommitKeeps
        DEF CaptureNext

LEMMA CaptureHolds == CaptureSpec => [](CitesInv /\ NothingForgotten)
BY CaptureImplementsEvidence, EvidenceTypeCorrect, CitesInit, CitesStep, PTL DEF CaptureSpec

(* Nobody corroborates a candidate by repeating himself: it has at most as  *)
(* many citations as different contents were reported, whichever of the     *)
(* captures raced, failed to be queued, died or were made again.            *)
THEOREM CorroborationIsDistinctHolds == CaptureSpec => []CorroborationIsDistinct
<1>1. CitesInv => CorroborationIsDistinct
  <2> SUFFICES ASSUME CitesInv, NEW c \in Candidates PROVE citations[c] <= Cardinality(Stored)
    BY DEF CorroborationIsDistinct, Stored, Identity
  <2>1. IsFiniteSet(Stored) /\ cites[c] \subseteq Stored /\ citations[c] = Cardinality(cites[c])
    BY StoredFinite DEF CitesInv
  <2> QED BY <2>1, FS_Subset, FS_CardinalityType
<1> QED BY <1>1, CaptureHolds, PTL

(* What was captured is in both queues, or on its way there, or its latest   *)
(* capture failed and said nothing.                                          *)
THEOREM NothingForgottenHolds == CaptureSpec => []NothingForgotten
BY CaptureHolds, PTL

-----------------------------------------------------------------------------
(* What is counted in natural numbers and happens at all happens for the     *)
(* first time; the inductions below are over the first failure.              *)
LEMMA LeastOne ==
    ASSUME NEW T, T \subseteq Nat, T # {}
    PROVE  \E m \in T : \A n \in T : m <= n
<1>1. PICK m \in T : \A n \in T : <<n, m>> \notin OpToRel(<, Nat)
  <2>1. IsWellFoundedOn(OpToRel(<, Nat), Nat)
    BY NatLessThanWellFounded
  <2> QED BY <2>1, WFMin, Zenon
<1>2. \A n \in T : ~(n < m)
  BY <1>1 DEF OpToRel
<1>3. ASSUME NEW n \in T PROVE m <= n
  <2>1. n \in Nat /\ m \in Nat
    OBVIOUS
  <2> QED BY <1>2, <2>1
<1> QED BY <1>3

(* The partial sums that the loop of bundle_cosine runs through exist: the *)
(* first length for which they did not would be one more than one for      *)
(* which they do.                                                          *)
PartialSums(N, t, g) ==
    /\ g \in [0 .. N -> Int] /\ g[0] = 0
    /\ \A i \in 1 .. N : g[i] = g[i - 1] + t[i]

LEMMA SumsExist ==
    ASSUME NEW N \in Nat, NEW t \in [1 .. N -> Int]
    PROVE  \E g : PartialSums(N, t, g)
<1> DEFINE T == {n \in 0 .. N : ~ \E g : PartialSums(n, t, g)}
<1>0. N \in 0 .. N
  OBVIOUS
<1>1. SUFFICES ASSUME T # {} PROVE FALSE
  BY <1>0
<1>2. PICK m \in T : \A n \in T : m <= n
  <2>1. T \subseteq Nat
    OBVIOUS
  <2> HIDE DEF T
  <2> QED BY <1>1, <2>1, LeastOne
<1>3. m # 0
  <2>1. PartialSums(0, t, [i \in 0 .. 0 |-> 0])
    BY DEF PartialSums
  <2> QED BY <2>1
<1>4. m \in 1 .. N /\ m - 1 \in 0 .. N /\ m - 1 \notin T
  BY <1>2, <1>3
<1>5. PICK g : PartialSums(m - 1, t, g)
  BY <1>4
<1> DEFINE h == [i \in 0 .. m |-> IF i = m THEN g[m - 1] + t[m] ELSE g[i]]
<1>6. PartialSums(m, t, h)
  <2>1. \A i \in 0 .. m : i = m \/ i \in 0 .. m - 1
    BY <1>4
  <2>2. g[m - 1] \in Int /\ t[m] \in Int /\ \A i \in 0 .. m - 1 : g[i] \in Int
    BY <1>4, <1>5 DEF PartialSums
  <2>3. h \in [0 .. m -> Int]
    BY <2>1, <2>2
  <2>4. ASSUME NEW i \in 1 .. m PROVE h[i] = h[i - 1] + t[i]
    <3>1. i \in 0 .. m /\ i - 1 \in 0 .. m /\ i - 1 # m /\ (i = m \/ i \in 1 .. m - 1)
      BY <1>4
    <3>2. h[i - 1] = g[i - 1]
      BY <3>1
    <3>3. CASE i = m
      BY <3>1, <3>2, <3>3
    <3>4. CASE i # m
      BY <1>5, <3>1, <3>2, <3>4 DEF PartialSums
    <3> QED BY <3>3, <3>4
  <2>5. h[0] = 0
    BY <1>4, <1>5 DEF PartialSums
  <2> QED BY <2>3, <2>4, <2>5 DEF PartialSums
<1> QED BY <1>6

LEMMA DotIsSum ==
    ASSUME NEW u \in Seq(Int), NEW v \in Seq(Int), Len(u) = Len(v)
    PROVE  \E g : /\ PartialSums(Len(u), [i \in 1 .. Len(u) |-> u[i] * v[i]], g)
                  /\ Dot(u, v) = g[Len(u)]
<1> DEFINE N == Len(u)
           t == [i \in 1 .. N |-> u[i] * v[i]]
           Sums(f) == [n \in 0 .. N |-> IF n = 0 THEN 0 ELSE f[n - 1] + u[n] * v[n]]
           f == CHOOSE f : f = Sums(f)
<1>1. N \in Nat /\ t \in [1 .. N -> Int]
  OBVIOUS
<1>2. PICK g : PartialSums(N, t, g)
  BY <1>1, SumsExist
<1>3. g = Sums(g)
  <2>1. g \in [0 .. N -> Int] /\ g[0] = 0
    BY <1>2 DEF PartialSums
  <2>2. ASSUME NEW n \in 0 .. N PROVE g[n] = IF n = 0 THEN 0 ELSE g[n - 1] + u[n] * v[n]
    <3>1. n = 0 \/ n \in 1 .. N
      BY <1>1
    <3> QED BY <1>2, <2>1, <3>1 DEF PartialSums
  <2> QED BY <2>1, <2>2
<1>4. f = Sums(f)
  BY <1>3
<1>5. Dot(u, v) = f[N]
  BY DEF Dot
<1>6. \A n \in 0 .. N : f[n] = IF n = 0 THEN 0 ELSE f[n - 1] + u[n] * v[n]
  BY <1>4
<1> HIDE DEF f, Sums
<1> DEFINE T == {n \in 0 .. N : f[n] # g[n]}
<1>7. T = {}
  <2> SUFFICES ASSUME T # {} PROVE FALSE
    OBVIOUS
  <2>1. PICK m \in T : \A n \in T : m <= n
    <3>1. T \subseteq Nat
      BY <1>1
    <3> HIDE DEF T
    <3> QED BY <3>1, LeastOne
  <2>2. m # 0
    BY <1>1, <1>2, <1>6 DEF PartialSums
  <2>3. m \in 1 .. N /\ m \in 0 .. N /\ m - 1 \in 0 .. N /\ m - 1 \notin T
    BY <1>1, <2>1, <2>2
  <2>4. f[m - 1] = g[m - 1]
    BY <2>3
  <2>5. g[m] = g[m - 1] + u[m] * v[m]
    BY <1>2, <2>3 DEF PartialSums
  <2>6. f[m] = f[m - 1] + u[m] * v[m]
    BY <1>6, <2>2, <2>3
  <2> QED BY <2>1, <2>4, <2>5, <2>6
<1>8. f[N] = g[N]
  BY <1>1, <1>7
<1> QED BY <1>2, <1>5, <1>8

LEMMA DotInteger ==
    ASSUME NEW u \in Seq(Int), NEW v \in Seq(Int), Len(u) = Len(v)
    PROVE  Dot(u, v) \in Int
BY DotIsSum DEF PartialSums

LEMMA SquareNatural ==
    ASSUME NEW v \in Seq(Int) PROVE Dot(v, v) \in Nat
<1> DEFINE N == Len(v)
           t == [i \in 1 .. N |-> v[i] * v[i]]
<1>1. PICK g : PartialSums(N, t, g) /\ Dot(v, v) = g[N]
  BY DotIsSum
<1>2. \A i \in 1 .. N : t[i] \in Int /\ t[i] >= 0
  <2> TAKE i \in 1 .. N
  <2>1. v[i] \in Int
    OBVIOUS
  <2>2. v[i] * v[i] \in Int /\ v[i] * v[i] >= 0
    BY <2>1
  <2> QED BY <2>2
<1> HIDE DEF t
<1> DEFINE T == {n \in 0 .. N : ~(g[n] >= 0)}
<1>3. T = {}
  <2> SUFFICES ASSUME T # {} PROVE FALSE
    OBVIOUS
  <2>1. PICK m \in T : \A n \in T : m <= n
    <3>1. T \subseteq Nat
      OBVIOUS
    <3> HIDE DEF T
    <3> QED BY <3>1, LeastOne
  <2>2. m # 0
    BY <1>1 DEF PartialSums
  <2>3. m \in 1 .. N /\ m \in 0 .. N /\ m - 1 \in 0 .. N /\ m - 1 \notin T
    BY <2>1, <2>2
  <2>4. g[m - 1] >= 0 /\ g[m - 1] \in Int
    BY <1>1, <2>3 DEF PartialSums
  <2>5. g[m] = g[m - 1] + t[m] /\ t[m] \in Int /\ t[m] >= 0
    BY <1>1, <1>2, <2>3 DEF PartialSums
  <2> QED BY <2>1, <2>4, <2>5
<1>4. N \in 0 .. N
  OBVIOUS
<1>5. g[N] \in Int /\ g[N] >= 0
  BY <1>1, <1>3, <1>4 DEF PartialSums
<1> QED BY <1>1, <1>5

Fractions == Int \X (Nat \ {0})

LEMMA BelowIsWeakOrder ==
    ASSUME NEW s \in Fractions, NEW t \in Fractions, NEW r \in Fractions
    PROVE  /\ ~Below(s, s)
           /\ ~(Below(s, t) /\ Below(t, s))
           /\ ~Below(s, t) /\ ~Below(t, r) => ~Below(s, r)
<1> DEFINE a == s[1] b == s[2] c == t[1] d == t[2] e == r[1] f == r[2]
<1>1. /\ a \in Int /\ c \in Int /\ e \in Int
      /\ b \in Nat \ {0} /\ d \in Nat \ {0} /\ f \in Nat \ {0}
  BY DEF Fractions
<1> HIDE DEF a, b, c, d, e, f
<1>2. ASSUME a * d >= c * b, c * f >= e * d
      PROVE  a * f >= e * b
  <2>1. (a * d) * f >= (c * b) * f
    BY <1>1, <1>2
  <2>2. (c * f) * b >= (e * d) * b
    BY <1>1, <1>2
  <2>3. (a * f) * d >= (e * b) * d
    BY <1>1, <2>1, <2>2
  <2> QED BY <1>1, <2>3
<1>3. ~(a * b < a * b) /\ ~(a * d < c * b /\ c * b < a * d)
  BY <1>1
<1>4. /\ Below(s, s) <=> a * b < a * b
      /\ Below(s, t) <=> a * d < c * b
      /\ Below(t, s) <=> c * b < a * d
      /\ Below(t, r) <=> c * f < e * d
      /\ Below(s, r) <=> a * f < e * b
  BY DEF Below, a, b, c, d, e, f
<1>5. /\ a * d \in Int /\ c * b \in Int /\ c * f \in Int /\ e * d \in Int
      /\ a * f \in Int /\ e * b \in Int
  BY <1>1
<1> QED BY <1>2, <1>3, <1>4, <1>5

(* A total preorder on S: the order that a comparator for qsort has to induce. *)
Preorder(R, S) ==
    /\ \A a, b \in S : <<a, b>> \in R \/ <<b, a>> \in R
    /\ \A a, b, c \in S : <<a, b>> \in R /\ <<b, c>> \in R => <<a, c>> \in R

InOrder(R, s) == \A i, j \in DOMAIN s : i < j => <<s[i], s[j]>> \in R

LEMMA BestExists ==
    ASSUME NEW S, IsFiniteSet(S), S # {}, NEW R, Preorder(R, S)
    PROVE  \E b \in S : \A a \in S : <<b, a>> \in R
<1> DEFINE Best(U) == \E b \in U : \A a \in U : <<b, a>> \in R
           T == {n \in Nat : n # 0 /\ \E U \in SUBSET S : Cardinality(U) = n /\ ~Best(U)}
<1>1. Cardinality(S) \in Nat /\ Cardinality(S) # 0
  BY FS_CardinalityType, FS_EmptySet
<1> SUFFICES ASSUME T # {} PROVE FALSE
  BY <1>1
<1>2. PICK m \in T : \A n \in T : m <= n
  <2>1. T \subseteq Nat
    OBVIOUS
  <2> HIDE DEF T
  <2> QED BY <2>1, LeastOne
<1>3. PICK U \in SUBSET S : Cardinality(U) = m /\ ~Best(U)
  BY <1>2
<1>4. m \in Nat /\ m # 0 /\ IsFiniteSet(U)
  BY <1>2, FS_Subset
<1>5. PICK a \in U : TRUE
  BY <1>3, <1>4, FS_EmptySet
<1> DEFINE V == U \ {a}
<1>6. Cardinality(V) = m - 1 /\ IsFiniteSet(V) /\ V \in SUBSET S
  BY <1>3, <1>4, <1>5, FS_RemoveElement
<1>7. <<a, a>> \in R /\ a \in S
  BY <1>3, <1>5 DEF Preorder
<1>8. m # 1
  <2> SUFFICES ASSUME m = 1 PROVE FALSE
    OBVIOUS
  <2>1. V = {}
    BY <1>6, FS_EmptySet
  <2> QED BY <1>3, <1>5, <1>7, <2>1
<1>9. Best(V)
  <2>1. m - 1 \in Nat /\ m - 1 # 0 /\ m - 1 \notin T
    BY <1>2, <1>4, <1>8
  <2> QED BY <1>6, <2>1
<1>10. PICK b \in V : \A c \in V : <<b, c>> \in R
  BY <1>9
<1>11. b \in S /\ U \subseteq S
  BY <1>3, <1>10
<1>12. CASE <<b, a>> \in R
  BY <1>3, <1>5, <1>10, <1>12
<1>13. CASE <<a, b>> \in R
  <2>1. ASSUME NEW c \in U PROVE <<a, c>> \in R
    <3>1. CASE c = a
      BY <1>7, <3>1
    <3>2. CASE c # a
      <4>1. <<b, c>> \in R /\ c \in S
        BY <1>10, <1>11, <3>2
      <4> QED BY <1>7, <1>11, <1>13, <4>1 DEF Preorder
    <3> QED BY <3>1, <3>2
  <2> QED BY <1>3, <1>5, <2>1
<1> QED BY <1>7, <1>11, <1>12, <1>13 DEF Preorder

LEMMA OrderExists ==
    ASSUME NEW S, IsFiniteSet(S), NEW R, Preorder(R, S)
    PROVE  \E s \in SetToSeqs(S) : InOrder(R, s)
<1> DEFINE Sorted(U) == \E s \in SetToSeqs(U) : InOrder(R, s)
           T == {n \in Nat : \E U \in SUBSET S : Cardinality(U) = n /\ ~Sorted(U)}
<1>1. Cardinality(S) \in Nat
  BY FS_CardinalityType
<1> SUFFICES ASSUME T # {} PROVE FALSE
  BY <1>1
<1>2. PICK m \in T : \A n \in T : m <= n
  <2>1. T \subseteq Nat
    OBVIOUS
  <2> HIDE DEF T
  <2> QED BY <2>1, LeastOne
<1>3. PICK U \in SUBSET S : Cardinality(U) = m /\ ~Sorted(U)
  BY <1>2
<1>4. m \in Nat /\ IsFiniteSet(U)
  BY <1>2, <1>3, FS_Subset
<1>5. m # 0
  <2> SUFFICES ASSUME m = 0 PROVE FALSE
    OBVIOUS
  <2>1. U = {}
    BY <1>3, <1>4, FS_EmptySet
  <2>2. [i \in 1 .. 0 |-> 0] \in SetToSeqs({})
    <3>1. Cardinality({}) = 0
      BY FS_EmptySet
    <3> QED BY <3>1 DEF SetToSeqs
  <2>3. InOrder(R, [i \in 1 .. 0 |-> 0])
    BY DEF InOrder
  <2> QED BY <1>3, <2>1, <2>2, <2>3
<1>6. PICK b \in U : \A a \in U : <<b, a>> \in R
  <2>1. U # {} /\ Preorder(R, U)
    BY <1>3, <1>5, FS_EmptySet DEF Preorder
  <2> QED BY <1>4, <2>1, BestExists
<1> DEFINE V == U \ {b}
<1>7. Cardinality(V) = m - 1 /\ IsFiniteSet(V) /\ V \in SUBSET S
  BY <1>3, <1>4, <1>6, FS_RemoveElement
<1>8. PICK s \in SetToSeqs(V) : InOrder(R, s)
  <2>1. m - 1 \in Nat /\ m - 1 \notin T
    BY <1>2, <1>4, <1>5
  <2> QED BY <1>7, <2>1
<1>9. /\ s \in [1 .. m - 1 -> V]
      /\ \A i, j \in 1 .. m - 1 : i # j => s[i] # s[j]
  BY <1>7 DEF SetToSeqs
<1> DEFINE q == [i \in 1 .. m |-> IF i = 1 THEN b ELSE s[i - 1]]
<1>10. \A i \in 1 .. m : i # 1 => i - 1 \in 1 .. m - 1 /\ q[i] = s[i - 1] /\ s[i - 1] \in V
  <2> TAKE i \in 1 .. m
  <2>1. i # 1 => i - 1 \in 1 .. m - 1
    BY <1>4
  <2> QED BY <1>9, <2>1
<1>11. 1 \in 1 .. m /\ q[1] = b
  BY <1>4, <1>5
<1>12. q \in SetToSeqs(U)
  <2>1. q \in [1 .. m -> U]
    BY <1>6, <1>10
  <2>2. ASSUME NEW i \in 1 .. m, NEW j \in 1 .. m, i # j PROVE q[i] # q[j]
    <3>1. CASE i = 1 \/ j = 1
      BY <1>10, <1>11, <2>2, <3>1
    <3>2. CASE i # 1 /\ j # 1
      <4>1. i - 1 \in 1 .. m - 1 /\ j - 1 \in 1 .. m - 1 /\ i - 1 # j - 1
        BY <1>10, <2>2, <3>2
      <4> QED BY <1>9, <1>10, <3>2, <4>1
    <3> QED BY <3>1, <3>2
  <2> HIDE DEF q
  <2> QED BY <1>3, <2>1, <2>2 DEF SetToSeqs
<1>13. InOrder(R, q)
  <2> SUFFICES ASSUME NEW i \in 1 .. m, NEW j \in 1 .. m, i < j
               PROVE  <<q[i], q[j]>> \in R
    BY DEF InOrder
  <2>1. j # 1 /\ q[j] \in V
    BY <1>10
  <2>2. CASE i = 1
    BY <1>6, <1>11, <2>1, <2>2
  <2>3. CASE i # 1
    <3>1. i - 1 \in 1 .. m - 1 /\ j - 1 \in 1 .. m - 1 /\ i - 1 < j - 1
      BY <1>10, <2>1, <2>3
    <3>2. DOMAIN s = 1 .. m - 1
      BY <1>9
    <3>3. <<s[i - 1], s[j - 1]>> \in R
      BY <1>8, <3>1, <3>2 DEF InOrder
    <3> QED BY <1>10, <2>1, <2>3, <3>3
  <2> QED BY <2>2, <2>3
<1> QED BY <1>3, <1>12, <1>13

LEMMA CosineFraction ==
    ASSUME NEW query \in Queries, NEW a \in Artifacts, Comparable(query, a)
    PROVE  bundle_cosine(query, VectorOf[a]) \in Fractions
<1> DEFINE v == VectorOf[a]
<1>1. query \in Seq(Int) /\ v \in Seq(Int) /\ Len(query) = Len(v)
  BY BundleAssumption DEF Comparable
<1>2. Dot(query, v) \in Int /\ Dot(v, v) \in Nat
  BY <1>1, DotInteger, SquareNatural
<1> HIDE DEF v
<1>3. CASE Dot(v, v) = 0
  BY <1>3 DEF bundle_cosine, Fractions, v
<1>4. CASE Dot(v, v) # 0
  <2> DEFINE dot == Dot(query, v)
             n == IF dot < 0 THEN 0 - dot * dot ELSE dot * dot
  <2>1. n \in Int
    BY <1>2
  <2>2. bundle_cosine(query, v) = <<n, Dot(v, v)>>
    BY <1>4 DEF bundle_cosine
  <2> QED BY <1>2, <1>4, <2>1, <2>2 DEF Fractions, v
<1> QED BY <1>3, <1>4

LEMMA ScanFacts ==
    ASSUME NEW scan \in Scans
    PROVE  ToSet(scan) \subseteq Artifacts /\ IsFiniteSet(ToSet(scan))
<1>1. IsFiniteSet(Artifacts)
  <2> DEFINE f == [r \in Reports |-> Identity(r)]
  <2>1. f \in Surjection(Reports, Artifacts)
    BY DEF Surjection, Artifacts
  <2> QED BY <2>1, ReportsAssumption, FS_Surjection
<1>2. PICK S \in SUBSET Embedded : scan \in SetToSeqs(S)
  BY DEF Scans, kSubset
<1>3. ToSet(scan) \subseteq S
  BY <1>2 DEF SetToSeqs, ToSet
<1> QED BY <1>1, <1>2, <1>3, FS_Subset DEF Embedded

(* The scores of what is comparable can be sorted. *)
LEMMA RankedExists ==
    ASSUME NEW query \in Queries, NEW scan \in Scans
    PROVE  Ranked(query, scan) # {}
<1> DEFINE scored == {a \in ToSet(scan) : Comparable(query, a)}
           score(a) == bundle_cosine(query, VectorOf[a])
           R == {p \in scored \X scored : ~Below(score(p[1]), score(p[2]))}
<1>1. IsFiniteSet(scored)
  BY ScanFacts, FS_Subset
<1>2. \A a \in scored : score(a) \in Fractions
  BY ScanFacts, CosineFraction
<1>3. \A a, b \in scored : <<a, b>> \in R <=> ~Below(score(a), score(b))
  OBVIOUS
<1> HIDE DEF scored, score, R
<1>4. Preorder(R, scored)
  <2>1. \A a, b \in scored : <<a, b>> \in R \/ <<b, a>> \in R
    BY <1>2, <1>3, BelowIsWeakOrder
  <2>2. ASSUME NEW a \in scored, NEW b \in scored, NEW c \in scored,
               <<a, b>> \in R, <<b, c>> \in R
        PROVE  <<a, c>> \in R
    BY <1>2, <1>3, <2>2, BelowIsWeakOrder
  <2> QED BY <2>1, <2>2 DEF Preorder
<1>5. PICK s \in SetToSeqs(scored) : InOrder(R, s)
  BY <1>1, <1>4, OrderExists
<1>6. \A i \in DOMAIN s : s[i] \in scored
  BY <1>5 DEF SetToSeqs
<1>7. \A i, j \in DOMAIN s : i < j => ~Below(score(s[i]), score(s[j]))
  BY <1>3, <1>5, <1>6 DEF InOrder
<1> QED BY <1>5, <1>7 DEF Ranked, scored, score

LEMMA TakeIs ==
    ASSUME NEW k \in Int, NEW n \in Nat
    PROVE  (IF n < Clamped(k) THEN n ELSE Clamped(k)) = Min({Max({k, 1}), LEARNING_BUNDLE_MAX, n})
<1> DEFINE M == LEARNING_BUNDLE_MAX
           high == IF k < 1 THEN 1 ELSE k
           low == IF n < Clamped(k) THEN n ELSE Clamped(k)
<1>1. M \in Nat \ {0}
  BY BundleAssumption
<1>2. Max({k, 1}) = high
  <2>1. high \in {k, 1} /\ \A y \in {k, 1} : high >= y
    OBVIOUS
  <2>2. \A x \in {k, 1} : (\A y \in {k, 1} : x >= y) => x = high
    OBVIOUS
  <2> HIDE DEF high
  <2> QED BY <2>1, <2>2 DEF Max
<1>3. Min({high, M, n}) = low
  <2>1. low \in {high, M, n} /\ \A y \in {high, M, n} : low =< y
    BY <1>1 DEF Clamped
  <2>2. \A x \in {high, M, n} : (\A y \in {high, M, n} : x =< y) => x = low
    BY <1>1 DEF Clamped
  <2> HIDE DEF high, low, M
  <2> QED BY <2>1, <2>2 DEF Min
<1> QED BY <1>2, <1>3

(* For every query, every bound and every scan, the bundle is the best. *)
LEMMA NearestHolds ==
    ASSUME NEW query \in Queries, NEW k \in Int, NEW scan \in Scans
    PROVE  NearestOf(query, k, scan)
<1> DEFINE fit == {a \in ToSet(scan) : Len(VectorOf[a]) = Len(query)}
           score(a) == bundle_cosine(query, VectorOf[a])
           n == Cardinality(fit)
           take == IF n < Clamped(k) THEN n ELSE Clamped(k)
<1>1. IsFiniteSet(fit) /\ n \in Nat
  BY ScanFacts, FS_Subset, FS_CardinalityType
<1>2. Clamped(k) \in Nat /\ take \in Nat /\ take <= n
  BY <1>1, BundleAssumption DEF Clamped
<1>3. take = Min({Max({k, 1}), LEARNING_BUNDLE_MAX, n})
  BY <1>1, TakeIs
<1>4. {a \in ToSet(scan) : Comparable(query, a)} = fit
  BY DEF Comparable
<1>5. ASSUME NEW s \in Ranked(query, scan)
      PROVE  /\ s \in [1 .. n -> fit] /\ Len(s) = n
             /\ \A i, j \in 1 .. n : i # j => s[i] # s[j]
             /\ \A i, j \in 1 .. n : i < j => ~Below(score(s[i]), score(s[j]))
  <2>1. s \in SetToSeqs(fit)
    BY <1>4, <1>5 DEF Ranked
  <2>2. /\ s \in [1 .. n -> fit]
        /\ \A i, j \in 1 .. n : i # j => s[i] # s[j]
    BY <2>1 DEF SetToSeqs
  <2>3. Len(s) = n
    BY <1>1, <2>2
  <2>4. \A i, j \in 1 .. n : i < j => ~Below(score(s[i]), score(s[j]))
    BY <1>5, <2>2 DEF Ranked
  <2> QED BY <2>2, <2>3, <2>4
<1> HIDE DEF fit, n, take, score
<1>6. ASSUME NEW s \in Ranked(query, scan), \A a \in fit : \E i \in 1 .. n : s[i] = a,
             NEW b, b.items = SubSeq(s, 1, take), b.count = take
      PROVE  /\ b.count = Min({Max({k, 1}), LEARNING_BUNDLE_MAX, n})
             /\ ToSet(b.items) \subseteq fit /\ Cardinality(ToSet(b.items)) = b.count
             /\ \A i, j \in 1 .. b.count : i < j => ~Below(score(b.items[i]), score(b.items[j]))
             /\ \A a \in fit \ ToSet(b.items), c \in ToSet(b.items) : ~Below(score(c), score(a))
  <2>1. b.items = [i \in 1 .. take |-> s[i]]
    BY <1>1, <1>2, <1>5, <1>6
  <2>2. \A i \in 1 .. take : i \in 1 .. n /\ b.items[i] = s[i]
    BY <1>1, <1>2, <2>1
  <2>3. ToSet(b.items) = {s[i] : i \in 1 .. take}
    BY <2>1 DEF ToSet
  <2>4. ToSet(b.items) \subseteq fit
    BY <1>5, <2>2, <2>3
  <2>5. Cardinality(ToSet(b.items)) = take
    <3>1. b.items \in [1 .. take -> ToSet(b.items)]
      BY <2>1, <2>3
    <3>2. \A i, j \in 1 .. take : b.items[i] = b.items[j] => i = j
      BY <1>5, <2>2
    <3>3. \A a \in ToSet(b.items) : \E i \in 1 .. take : b.items[i] = a
      BY <2>2, <2>3
    <3>4. ExistsBijection(1 .. take, ToSet(b.items))
      BY <3>1, <3>2, <3>3
         DEF ExistsBijection, Bijection, Injection, Surjection, IsInjective
    <3>5. IsFiniteSet(1 .. take) /\ Cardinality(1 .. take) = take
      BY <1>2, FS_Interval
    <3> QED BY <3>4, <3>5, FS_Bijection
  <2>6. \A i, j \in 1 .. take : i < j => ~Below(score(b.items[i]), score(b.items[j]))
    BY <1>5, <2>2
  <2>7. ASSUME NEW a \in fit \ ToSet(b.items), NEW c \in ToSet(b.items)
        PROVE  ~Below(score(c), score(a))
    <3>1. PICK i \in 1 .. n : s[i] = a
      BY <1>6
    <3>2. PICK j \in 1 .. take : s[j] = c
      BY <2>3
    <3>3. i \notin 1 .. take
      BY <2>3, <2>7, <3>1
    <3>4. j \in 1 .. n /\ j < i
      BY <1>1, <1>2, <3>2, <3>3
    <3> QED BY <1>5, <3>1, <3>2, <3>4
  <2> QED BY <1>3, <1>6, <2>4, <2>5, <2>6, <2>7
<1>7. ASSUME NEW s \in Ranked(query, scan), NEW a \in fit
      PROVE  \E i \in 1 .. n : s[i] = a
  <2>1. s \in Injection(1 .. n, fit)
    <3>1. s \in [1 .. n -> fit] /\ \A i, j \in 1 .. n : s[i] = s[j] => i = j
      BY <1>5
    <3> QED BY <3>1 DEF Injection, IsInjective
  <2>2. IsFiniteSet(1 .. n) /\ Cardinality(1 .. n) = Cardinality(fit)
    BY <1>1, FS_Interval DEF n
  <2>3. s \in Surjection(1 .. n, fit)
    BY <1>1, <2>1, <2>2, FS_Injection
  <2> QED BY <2>3 DEF Surjection
<1>8. Ranked(query, scan) # {}
  BY RankedExists
<1>9. ASSUME NEW s \in Ranked(query, scan)
      PROVE  (IF Len(s) < Clamped(k) THEN Len(s) ELSE Clamped(k)) = take
  BY <1>5 DEF take
<1>10. learning_bundle_build(query, k, scan) # {}
  <2> DEFINE bundle(s) ==
               LET m == IF Len(s) < Clamped(k) THEN Len(s) ELSE Clamped(k)
                   items == SubSeq(s, 1, m)
               IN  [items |-> items, count |-> m, scanned |-> Len(scan),
                    distinct_kinds |-> Cardinality({items[i][1] : i \in 1 .. m})]
  <2>1. learning_bundle_build(query, k, scan) = {bundle(s) : s \in Ranked(query, scan)}
    BY DEF learning_bundle_build
  <2> HIDE DEF bundle
  <2> QED BY <1>8, <2>1
<1>11. ASSUME NEW b \in learning_bundle_build(query, k, scan)
       PROVE  \E s \in Ranked(query, scan) : b.items = SubSeq(s, 1, take) /\ b.count = take
  <2> DEFINE most(s) == IF Len(s) < Clamped(k) THEN Len(s) ELSE Clamped(k)
  <2>1. PICK s \in Ranked(query, scan) :
               b = [items |-> SubSeq(s, 1, most(s)), count |-> most(s), scanned |-> Len(scan),
                    distinct_kinds |->
                        Cardinality({SubSeq(s, 1, most(s))[i][1] : i \in 1 .. most(s)})]
    BY DEF learning_bundle_build
  <2>2. b.items = SubSeq(s, 1, most(s)) /\ b.count = most(s)
    BY <2>1
  <2>3. most(s) = take
    BY <1>9
  <2> QED BY <2>2, <2>3
<1>12. ASSUME NEW b \in learning_bundle_build(query, k, scan)
       PROVE  /\ b.count = Min({Max({k, 1}), LEARNING_BUNDLE_MAX, n})
              /\ ToSet(b.items) \subseteq fit /\ Cardinality(ToSet(b.items)) = b.count
              /\ \A i, j \in 1 .. b.count : i < j => ~Below(score(b.items[i]), score(b.items[j]))
              /\ \A a \in fit \ ToSet(b.items), c \in ToSet(b.items) : ~Below(score(c), score(a))
  BY <1>6, <1>7, <1>11
<1> QED BY <1>10, <1>12 DEF NearestOf, fit, n, score

(* Whatever was captured and embedded, learning_bundle_build has an answer to *)
(* every query, and it is the nearest of what it scanned: the comparator that *)
(* it gives to qsort is a weak order, the array is never overrun, and what is *)
(* left out is no nearer than what is in.                                     *)
THEOREM BundleIsBestHolds == CaptureSpec => []BundleIsBest
<1>1. BundleIsBest
  <2>1. \A k \in -1 .. LEARNING_BUNDLE_MAX + 1 : k \in Int
    BY BundleAssumption
  <2> QED BY <2>1, NearestHolds DEF BundleIsBest
<1> QED BY <1>1, PTL
=============================================================================
