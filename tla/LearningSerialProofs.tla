------------------------- MODULE LearningSerialProofs -------------------------
(***************************************************************************)
(* What the router guarantees beyond LearningRouterProofs when one caller  *)
(* at a time is inside it, for any signals and any number of rows: every   *)
(* row a call is about to write is still pending when it is written, so no *)
(* row is settled twice, applied twice or queued twice, and the result of  *)
(* a call is the truth about the store.  The theorems hold under every     *)
(* fault: what a fault may change is part of what they state.              *)
(***************************************************************************)
EXTENDS LearningSignalsProofs

OneCaller == \A c, d \in Callers : c = d

-----------------------------------------------------------------------------
(* The strengthening of SettledForGood: a caller that is about to write a    *)
(* row has found it pending, and with nobody else to settle it, it still is. *)
Deciding == {"bump", "cap", "cap_archive", "apply", "mark", "reject"}

PendingInv == \A c \in Callers : pc[c] \in Deciding => proposals[pid[c]].state = "pending"

(* What a step does to a row: nothing, insert it, or settle or corroborate a *)
(* pending one; and it is committed by nothing but the mark.                 *)
RowInserted(i) == proposals[i].state = "absent" /\ proposals'[i].state = "pending"

RowMoved(i) ==
    /\ proposals[i].state = "pending"
    /\ proposals'[i].sink = proposals[i].sink
    /\ proposals'[i].key = proposals[i].key
    /\ proposals'[i].mem = proposals[i].mem
    /\ \/ proposals'[i].state \in {"pending", "archived"}
       \/ /\ proposals'[i].state = "committed"
          /\ \E c \in Callers : MarkCommitted(c) /\ i = pid[c]

RowStep(i) == proposals'[i] = proposals[i] \/ RowInserted(i) \/ RowMoved(i)

LEMMA SweepRowStep ==
    ASSUME TypeOK, ArchiveExpired
    PROVE  \A i \in Ids : /\ RowStep(i)
                          /\ proposals'[i] = Swept(i)
                          /\ proposals'[i].state = "pending" => proposals[i].state = "pending"
<1> SUFFICES ASSUME NEW i \in Ids
             PROVE  /\ RowStep(i) /\ proposals'[i] = Swept(i)
                    /\ proposals'[i].state = "pending" => proposals[i].state = "pending"
  OBVIOUS
<1>1. proposals[i] \in Row /\ proposals'[i] = Swept(i)
  BY DEF TypeOK, ArchiveExpired
<1> QED BY <1>1 DEF Swept, Archived, Row, RowStep, RowMoved

LEMMA UpdateRowStep ==
    ASSUME TypeOK, NEW i \in Ids, proposals[i].state = "pending", NEW row, UpdateRow(i, row),
           row.sink = proposals[i].sink, row.key = proposals[i].key,
           row.mem = proposals[i].mem,
           \/ row.state \in {"pending", "archived"}
           \/ row.state = "committed" /\ \E c \in Callers : MarkCommitted(c) /\ i = pid[c]
    PROVE  \A j \in Ids : RowStep(j)
<1>1. proposals' = proposals \/ proposals' = [proposals EXCEPT ![i] = row]
  BY Zenon DEF UpdateRow
<1> QED BY <1>1 DEF TypeOK, RowStep, RowMoved

LEMMA FreshRowStep ==
    ASSUME TypeOK, NEW i \in Ids, FreshId(i), NEW row, row.state = "pending",
           proposals' = [proposals EXCEPT ![i] = row]
    PROVE  /\ RowInserted(i)
           /\ proposals'[i] = row
           /\ \A j \in Ids : j # i => proposals'[j] = proposals[j]
BY DEF FreshId, RowInserted, TypeOK

LEMMA MineRowStep ==
    ASSUME TypeOK, MineArtifact
    PROVE  \A i \in Ids : \/ /\ proposals'[i] = proposals[i]
                             /\ evidence'[i] = evidence[i]
                          \/ /\ RowInserted(i)
                             /\ proposals'[i].sink = "artifact"
                             /\ evidence'[i].applies = 0 /\ evidence'[i].unmarked = 0
<1>1. PICK i \in Ids, a \in MinedActions : MineArtifact!1!(i, a)
  BY Zenon DEF MineArtifact
<1> DEFINE row == NewRow("artifact", "", 0, a)
<1>2. row.state = "pending" /\ row.sink = "artifact"
      /\ NoEvidence.applies = 0 /\ NoEvidence.unmarked = 0
  BY DEF NewRow, NoEvidence
<1>3. /\ FreshId(i) /\ proposals' = [proposals EXCEPT ![i] = row]
      /\ evidence' = [evidence EXCEPT ![i] = NoEvidence]
  BY <1>1
<1> HIDE DEF row
<1>4. /\ RowInserted(i) /\ proposals'[i] = row
      /\ \A j \in Ids : j # i => proposals'[j] = proposals[j]
  BY <1>2, <1>3, FreshRowStep
<1>5. evidence'[i] = NoEvidence /\ \A j \in Ids : j # i => evidence'[j] = evidence[j]
  BY <1>3 DEF TypeOK
<1> QED BY <1>2, <1>4, <1>5

LEMMA InsertRowStep ==
    ASSUME TypeOK, NEW c \in Callers, Insert(c)
    PROVE  \/ UNCHANGED <<proposals, evidence>>
           \/ \E i \in Ids :
                /\ RowInserted(i)
                /\ proposals'[i].sink = Head(reqs[c]).sink
                /\ proposals'[i].key = Head(reqs[c]).key
                /\ proposals'[i].mem = Head(reqs[c]).mem
                /\ evidence'[i].applies = 0 /\ evidence'[i].unmarked = 0
                /\ pid[c] < 0 => evidence'[i].unseen
                /\ \A j \in Ids : j # i =>
                        proposals'[j] = proposals[j] /\ evidence'[j] = evidence[j]
<1>1. CASE UNCHANGED <<proposals, evidence>>
  BY <1>1
<1>2. CASE ~UNCHANGED <<proposals, evidence>>
  <2> DEFINE r == Head(reqs[c])
             row == NewRow(r.sink, r.key, r.mem, r.action)
             e == [NoEvidence EXCEPT !.signals = {sig[c]}, !.agree = {sig[c]}, !.high = r.high,
                                     !.unseen = pid[c] < 0]
  <2>1. PICK i \in Ids : /\ FreshId(i)
                         /\ proposals' = [proposals EXCEPT ![i] = row]
                         /\ evidence' = [evidence EXCEPT ![i] = e]
    BY <1>2, Zenon DEF Insert
  <2> HIDE DEF r
  <2>2. /\ row.state = "pending" /\ row.sink = r.sink /\ row.key = r.key /\ row.mem = r.mem
        /\ e.applies = 0 /\ e.unmarked = 0 /\ (pid[c] < 0 => e.unseen)
    BY DEF NewRow, NoEvidence
  <2> HIDE DEF row, e
  <2>3. /\ RowInserted(i) /\ proposals'[i] = row
        /\ \A j \in Ids : j # i => proposals'[j] = proposals[j]
    BY <2>1, <2>2, FreshRowStep
  <2>4. evidence'[i] = e /\ \A j \in Ids : j # i => evidence'[j] = evidence[j]
    BY <2>1 DEF TypeOK
  <2> QED BY <2>2, <2>3, <2>4 DEF r
<1> QED BY <1>1, <1>2

(* The rows that the by-id updates write. *)
LEMMA WrittenRows ==
    ASSUME TypeOK, NEW i \in Ids
    PROVE  LET row == proposals[i]
               bumped == [row EXCEPT !.corr = @ + 1]
               marked == [row EXCEPT !.state = "committed", !.committedAt = clock]
           IN  /\ bumped.sink = row.sink /\ bumped.key = row.key /\ bumped.mem = row.mem
               /\ bumped.state = row.state
               /\ marked.sink = row.sink /\ marked.key = row.key /\ marked.mem = row.mem
               /\ marked.state = "committed"
               /\ \A reason : LET archived == Archived(row, reason) IN
                    /\ archived.sink = row.sink /\ archived.key = row.key
                    /\ archived.mem = row.mem /\ archived.state = "archived"
<1>1. proposals[i] \in Row
  BY DEF TypeOK
<1> QED BY <1>1 DEF Row, Archived

LEMMA SerialRows ==
    ASSUME TypeOK, PendingInv, [Next]_vars
    PROVE  \A i \in Ids : RowStep(i)
<1>1. CASE UNCHANGED proposals
  BY <1>1 DEF RowStep
<1>2. CASE ArchiveExpired
  BY <1>2, SweepRowStep
<1>3. ASSUME NEW c \in Callers, Bump(c) PROVE \A i \in Ids : RowStep(i)
  <2>1. pid[c] \in Ids /\ proposals[pid[c]].state = "pending"
    BY <1>3 DEF Bump, TypeOK, Holding, Pc, PendingInv, Deciding
  <2> DEFINE row == [proposals[pid[c]] EXCEPT !.corr = @ + 1]
  <2>2. /\ row.sink = proposals[pid[c]].sink /\ row.key = proposals[pid[c]].key
        /\ row.mem = proposals[pid[c]].mem /\ row.state = "pending"
    BY <2>1, WrittenRows
  <2>3. UpdateRow(pid[c], row)
    BY <1>3, Zenon DEF Bump
  <2> HIDE DEF row
  <2> QED BY <2>1, <2>2, <2>3, UpdateRowStep
<1>4. ASSUME NEW c \in Callers, CapArchive(c) \/ RejectArchive(c)
      PROVE  \A i \in Ids : RowStep(i)
  <2>1. pid[c] \in Ids /\ proposals[pid[c]].state = "pending"
    BY <1>4 DEF CapArchive, RejectArchive, TypeOK, Holding, Pc, PendingInv, Deciding
  <2>2. PICK reason : UpdateRow(pid[c], Archived(proposals[pid[c]], reason))
    BY <1>4, Zenon DEF CapArchive, RejectArchive
  <2> DEFINE row == Archived(proposals[pid[c]], reason)
  <2>3. /\ row.sink = proposals[pid[c]].sink /\ row.key = proposals[pid[c]].key
        /\ row.mem = proposals[pid[c]].mem /\ row.state = "archived"
    BY <2>1, WrittenRows
  <2>4. UpdateRow(pid[c], row)
    BY <2>2
  <2> HIDE DEF row
  <2> QED BY <2>1, <2>3, <2>4, UpdateRowStep
<1>5. ASSUME NEW c \in Callers, MarkCommitted(c) PROVE \A i \in Ids : RowStep(i)
  <2>1. pid[c] \in Ids /\ proposals[pid[c]].state = "pending"
    BY <1>5 DEF MarkCommitted, TypeOK, Holding, Pc, PendingInv, Deciding
  <2> DEFINE row == [proposals[pid[c]] EXCEPT !.state = "committed", !.committedAt = clock]
  <2>2. /\ row.sink = proposals[pid[c]].sink /\ row.key = proposals[pid[c]].key
        /\ row.mem = proposals[pid[c]].mem /\ row.state = "committed"
    BY <2>1, WrittenRows
  <2>3. UpdateRow(pid[c], row)
    BY <1>5, Zenon DEF MarkCommitted
  <2> HIDE DEF row
  <2> QED BY <1>5, <2>1, <2>2, <2>3, UpdateRowStep
<1>6. ASSUME NEW c \in Callers, Insert(c) PROVE \A i \in Ids : RowStep(i)
  BY <1>6, InsertRowStep DEF RowStep
<1>7. CASE MineArtifact
  BY <1>7, MineRowStep DEF RowStep
<1>8. ASSUME NEW c \in Callers, Call(c) PROVE ArchiveExpired
  BY <1>8, Zenon DEF Call, RecordSignal, RecordInput, AcceptProposal, RejectProposal, ListProposals
<1>9. ASSUME NEW c \in Callers, Step(c) PROVE \A i \in Ids : RowStep(i)
  <2>1. CASE Recheck(c) \/ Get(c) \/ Final(c)
    BY <1>2, <2>1, Zenon DEF Recheck, Get, Final
  <2>2. CASE Find(c) \/ CheckCap(c) \/ ApplySink(c)
    BY <1>1, <2>2 DEF Find, CheckCap, ApplySink, store
  <2> QED BY <1>3, <1>4, <1>5, <1>6, <1>9, <2>1, <2>2, Zenon DEF Step
<1>10. ASSUME Tick \/ UNCHANGED vars \/ \E c \in Callers : Crash(c) PROVE UNCHANGED proposals
  BY <1>10 DEF Tick, vars, Crash, store
<1> QED BY <1>1, <1>2, <1>7, <1>8, <1>9, <1>10, Zenon DEF Next

(* With one caller inside, every frame but its own is empty. *)
LEMMA Alone ==
    ASSUME OneCaller, NEW c \in Callers
    PROVE  \A d \in Callers : d = c
BY DEF OneCaller

LEMMA PendingStep ==
    ASSUME TypeOK, OneCaller, PendingInv, [Next]_vars
    PROVE  PendingInv'
<1> SUFFICES ASSUME NEW c \in Callers, pc'[c] \in Deciding
             PROVE  proposals'[pid'[c]].state = "pending"
  BY DEF PendingInv
<1>0. /\ \A d \in Callers : d = c
      /\ pc[c] \in Deciding => pid[c] \in Ids /\ proposals[pid[c]].state = "pending"
  BY Alone DEF PendingInv, TypeOK, Deciding, Holding, Pc
<1>1. CASE pc' = pc /\ pid' = pid /\ \A i \in Ids : RowInserted(i) \/ proposals'[i] = proposals[i]
  BY <1>0, <1>1 DEF RowInserted
<1>2. CASE Call(c)
  <2>1. CASE RecordSignal(c) \/ ListProposals(c) \/ AcceptProposal(c)
    <3>1. pc'[c] \in {"idle", "find", "get"}
      BY <2>1 DEF RecordSignal, RecordInput, ListProposals, AcceptProposal, Goto, calls, TypeOK
    <3> QED BY <3>1 DEF Deciding
  <2>2. CASE RejectProposal(c)
    <3>1. PICK i \in Ids :
            /\ ArchiveExpired
            /\ Goto(c, IF Swept(i).state = "pending" THEN "reject" ELSE "final")
            /\ pid' = [pid EXCEPT ![c] = i]
      BY <2>2, Zenon DEF RejectProposal
    <3>2. pid'[c] = i /\ Swept(i).state = "pending"
      BY <3>1 DEF Goto, TypeOK, Deciding
    <3> QED BY <3>1, <3>2, SweepRowStep
  <2> QED BY <1>2, <2>1, <2>2 DEF Call
<1>3. CASE Find(c)
  <2>1. pc'[c] = "bump" /\ pid'[c] \in FindPending(Head(reqs[c])) /\ proposals' = proposals
    BY <1>3 DEF Find, Found, Goto, TypeOK, Deciding, store
  <2> QED BY <2>1 DEF FindPending
<1>4. CASE Get(c)
  <2>1. pc[c] \in Holding /\ pid[c] \in Ids
    BY <1>4 DEF Get, TypeOK, Holding, Pc
  <2>2. CASE NextRequest(c)
    BY <2>2 DEF NextRequest, TypeOK, Deciding
  <2>3. CASE Swept(pid[c]).state = "pending" /\ Settle(c, "cap")
    BY <1>4, <2>1, <2>3, SweepRowStep DEF Get, Settle
  <2> QED BY <1>4, <2>2, <2>3, Zenon DEF Get
<1>5. CASE CheckCap(c) \/ ApplySink(c)
  <2>1. pc[c] \in Deciding /\ proposals' = proposals
    BY <1>5 DEF CheckCap, ApplySink, store, Deciding
  <2>2. CASE pid' = pid
    BY <1>0, <2>1, <2>2
  <2>3. CASE NextRequest(c)
    BY <2>3 DEF NextRequest, TypeOK, Deciding
  <2> QED BY <1>5, <2>2, <2>3, Zenon DEF CheckCap, ApplySink, Settle
<1>6. CASE Bump(c) \/ Recheck(c) \/ Insert(c) \/ CapArchive(c) \/ MarkCommitted(c)
             \/ RejectArchive(c) \/ Final(c) \/ Crash(c)
  <2>1. pc'[c] \in {"recheck", "get", "final", "idle", "find"}
    BY <1>6 DEF Bump, Recheck, Insert, CapArchive, MarkCommitted, RejectArchive, Final, Crash,
                Settle, Goto, NextRequest, TypeOK
  <2> QED BY <2>1 DEF Deciding
<1>7. CASE MineArtifact
  <2>1. pc' = pc /\ pid' = pid
    BY <1>7 DEF MineArtifact, calls
  <2>2. \A i \in Ids : RowInserted(i) \/ proposals'[i] = proposals[i]
    BY <1>7, MineRowStep
  <2> QED BY <1>1, <2>1, <2>2
<1>8. CASE Tick \/ UNCHANGED vars
  BY <1>1, <1>8 DEF Tick, vars, store, calls
<1>9. ASSUME NEW d \in Callers, Call(d) \/ Step(d) \/ Crash(d)
      PROVE  Call(c) \/ Step(c) \/ Crash(c)
  BY <1>0, <1>9, Zenon
<1> QED BY <1>2, <1>3, <1>4, <1>5, <1>6, <1>7, <1>8, <1>9, Zenon DEF Next, Step

LEMMA PendingHolds ==
    ASSUME OneCaller
    PROVE  Spec => []PendingInv
<1>1. Init => PendingInv
  BY DEF Init, PendingInv, Deciding
<1> QED BY <1>1, PendingStep, TypeCorrect, PTL DEF Spec

(* With one caller a settled proposal stays as it was settled, whatever is   *)
(* lost, fails or crashes: only a pending row is ever written.               *)
THEOREM SettledForGoodHolds ==
    ASSUME OneCaller
    PROVE  Spec => SettledForGood
<1>1. TypeOK /\ PendingInv /\ [Next]_vars =>
        [\A i \in Ids : proposals[i].state \in {"committed", "archived"} =>
            /\ proposals'[i].state = proposals[i].state
            /\ proposals'[i].reason = proposals[i].reason
            /\ proposals'[i].committedAt = proposals[i].committedAt]_vars
  <2> SUFFICES ASSUME TypeOK, PendingInv, [Next]_vars, NEW i \in Ids,
                      proposals[i].state \in {"committed", "archived"}
               PROVE  proposals'[i] = proposals[i]
    OBVIOUS
  <2> QED BY SerialRows DEF RowStep, RowInserted, RowMoved
<1> QED BY <1>1, TypeCorrect, PendingHolds, PTL DEF Spec, SettledForGood

-----------------------------------------------------------------------------
(* Applied exactly once: of the applications whose mark was not lost, the one *)
(* a row can have is on its way to the mark or has been marked.              *)
Marking(i) == \E c \in Callers : pc[c] = "mark" /\ pid[c] = i

AppliesInv ==
    \A i \in Ids :
        evidence[i].applies = evidence[i].unmarked
            + IF proposals[i].state = "committed" \/ Marking(i) THEN 1 ELSE 0

(* What the other steps do: nothing to the account of a row. *)
Balanced(i) ==
    evidence'[i].applies + evidence[i].unmarked = evidence[i].applies + evidence'[i].unmarked

LEMMA AppliesTypes ==
    ASSUME TypeOK
    PROVE  \A i \in Ids : evidence[i].applies \in Nat /\ evidence[i].unmarked \in Nat
<1>1. \A i \in Ids : evidence[i] \in Evidence
  BY DEF TypeOK
<1> QED BY <1>1 DEF Evidence

LEMMA AppliesKept ==
    ASSUME TypeOK, TypeOK', PendingInv, AppliesInv, [Next]_vars,
           \A c \in Callers : ~MarkCommitted(c),
           \A i \in Ids : Balanced(i),
           \A i \in Ids : Marking(i)' <=> Marking(i)
    PROVE  AppliesInv'
<1> SUFFICES ASSUME NEW i \in Ids
             PROVE  evidence'[i].applies = evidence'[i].unmarked
                        + IF proposals'[i].state = "committed" \/ Marking(i)' THEN 1 ELSE 0
  BY DEF AppliesInv
<1>1. proposals'[i].state = "committed" <=> proposals[i].state = "committed"
  BY SerialRows DEF RowStep, RowInserted, RowMoved
<1>2. /\ evidence[i].applies \in Nat /\ evidence[i].unmarked \in Nat
      /\ evidence'[i].applies \in Nat /\ evidence'[i].unmarked \in Nat
  <2>1. evidence[i] \in Evidence /\ evidence'[i] \in Evidence
    BY DEF TypeOK
  <2> QED BY <2>1 DEF Evidence
<1> QED BY <1>1, <1>2 DEF AppliesInv, Balanced

(* No effect of a row that is not there is unaccounted for. *)
LEMMA AppliesAbsent ==
    ASSUME TypeOK, PendingInv, AppliesInv, NEW i \in Ids, proposals[i].state = "absent",
           evidence'[i].applies = 0, evidence'[i].unmarked = 0
    PROVE  Balanced(i)
BY AppliesTypes DEF AppliesInv, PendingInv, Deciding, Marking, Balanced

LEMMA AppliesApplySink ==
    ASSUME TypeOK, OneCaller, PendingInv, AppliesInv, [Next]_vars, NEW c \in Callers, ApplySink(c)
    PROVE  AppliesInv'
<1>0. \A d \in Callers : d = c
  BY Alone
<1>1. /\ pc[c] = "apply" /\ pid[c] \in Ids /\ proposals[pid[c]].state = "pending"
      /\ proposals' = proposals
  BY DEF ApplySink, TypeOK, Holding, Pc, PendingInv, Deciding
<1>2. \A i \in Ids : ~Marking(i)
  BY <1>0, <1>1 DEF Marking
<1>3. CASE NextRequest(c) /\ UNCHANGED evidence
  <2>1. \A i \in Ids : ~Marking(i)'
    BY <1>0, <1>3 DEF NextRequest, TypeOK, Marking
  <2> QED BY <1>1, <1>2, <1>3, <2>1 DEF AppliesInv
<1>4. CASE /\ evidence' = [evidence EXCEPT ![pid[c]].applies = @ + 1]
           /\ Settle(c, "mark")
  <2>1. pid' = pid /\ pc'[c] = "mark"
    BY <1>4 DEF Settle, Goto, TypeOK
  <2>2. \A i \in Ids : Marking(i)' <=> i = pid[c]
    BY <1>0, <2>1 DEF Marking
  <2>3. evidence'[pid[c]].applies = evidence[pid[c]].applies + 1
        /\ evidence'[pid[c]].unmarked = evidence[pid[c]].unmarked
        /\ \A i \in Ids : i # pid[c] => evidence'[i] = evidence[i]
    <3>1. evidence \in [Ids -> Evidence] /\ evidence[pid[c]] \in Evidence
      BY <1>1 DEF TypeOK
    <3> QED BY <1>1, <1>4, <3>1 DEF Evidence
  <2>4. evidence[pid[c]].applies = evidence[pid[c]].unmarked
    BY <1>1, <1>2, AppliesTypes DEF AppliesInv
  <2> QED BY <1>1, <1>2, <2>2, <2>3, <2>4, AppliesTypes DEF AppliesInv
<1> QED BY <1>3, <1>4, Zenon DEF ApplySink

(* The mark is written, or lost with its write. *)
LEMMA AppliesMarkCommitted ==
    ASSUME TypeOK, OneCaller, PendingInv, AppliesInv, NEW c \in Callers, MarkCommitted(c)
    PROVE  AppliesInv'
<1>0. \A d \in Callers : d = c
  BY Alone
<1> DEFINE row == [proposals[pid[c]] EXCEPT !.state = "committed", !.committedAt = clock]
<1>1. pc[c] = "mark" /\ pid[c] \in Ids /\ proposals[pid[c]].state = "pending"
  BY DEF MarkCommitted, TypeOK, Holding, Pc, PendingInv, Deciding
<1>2. row.state = "committed"
  BY <1>1, WrittenRows
<1>3. UpdateRow(pid[c], row)
  BY Zenon DEF MarkCommitted
<1> HIDE DEF row
<1>4. \A i \in Ids : /\ Marking(i) <=> i = pid[c]
                     /\ ~Marking(i)'
  BY <1>0, <1>1 DEF Marking, MarkCommitted, Settle, Goto, TypeOK
<1>5. CASE proposals' = [proposals EXCEPT ![pid[c]] = row] /\ evidence' = evidence
  <2>1. \A i \in Ids : proposals'[i] = IF i = pid[c] THEN row ELSE proposals[i]
    BY <1>1, <1>5 DEF TypeOK
  <2> QED BY <1>1, <1>2, <1>4, <1>5, <2>1 DEF AppliesInv
<1>6. CASE proposals' = proposals /\ LoseMark(pid[c])
  <2>1. /\ evidence'[pid[c]].applies = evidence[pid[c]].applies
        /\ evidence'[pid[c]].unmarked = evidence[pid[c]].unmarked + 1
        /\ \A i \in Ids : i # pid[c] => evidence'[i] = evidence[i]
    <3>1. StoreOK /\ evidence[pid[c]] \in Evidence
      BY <1>1 DEF TypeOK, StoreOK
    <3> QED BY <1>1, <1>6, <3>1, LoseMarkType DEF Evidence
  <2> QED BY <1>1, <1>4, <1>6, <2>1, AppliesTypes DEF AppliesInv
<1>7. faults \in Nat
  BY BoundsAssumption DEF TypeOK
<1>8. \/ proposals' = [proposals EXCEPT ![pid[c]] = row] /\ faults' = faults
      \/ proposals' = proposals /\ faults' = faults + 1
  BY <1>1, <1>3 DEF UpdateRow, Fault
<1> QED BY <1>5, <1>6, <1>7, <1>8 DEF MarkCommitted

(* The caller dies, and if it was at the mark, the mark with it. *)
LEMMA AppliesCrash ==
    ASSUME TypeOK, OneCaller, PendingInv, AppliesInv, NEW c \in Callers, Crash(c)
    PROVE  AppliesInv'
<1>0. \A d \in Callers : d = c
  BY Alone
<1>1. proposals' = proposals /\ \A i \in Ids : ~Marking(i)'
  BY <1>0 DEF Crash, Marking, TypeOK
<1>2. CASE pc[c] = "mark"
  <2>1. pid[c] \in Ids /\ proposals[pid[c]].state = "pending" /\ LoseMark(pid[c])
    BY <1>2 DEF Crash, TypeOK, Holding, Pc, PendingInv, Deciding
  <2>2. \A i \in Ids : Marking(i) <=> i = pid[c]
    BY <1>0, <1>2 DEF Marking
  <2>3. /\ evidence'[pid[c]].applies = evidence[pid[c]].applies
        /\ evidence'[pid[c]].unmarked = evidence[pid[c]].unmarked + 1
        /\ \A i \in Ids : i # pid[c] => evidence'[i] = evidence[i]
    <3>1. StoreOK /\ evidence[pid[c]] \in Evidence
      BY <2>1 DEF TypeOK, StoreOK
    <3> QED BY <2>1, <3>1, LoseMarkType DEF Evidence
  <2> QED BY <1>1, <2>1, <2>2, <2>3, AppliesTypes DEF AppliesInv
<1>3. CASE pc[c] # "mark"
  <2>1. evidence' = evidence /\ \A i \in Ids : ~Marking(i)
    BY <1>0, <1>3 DEF Crash, Marking
  <2> QED BY <1>1, <2>1 DEF AppliesInv
<1> QED BY <1>2, <1>3

LEMMA AppliesStep ==
    ASSUME TypeOK, TypeOK', OneCaller, PendingInv, AppliesInv, [Next]_vars
    PROVE  AppliesInv'
<1>0. \A i \in Ids : evidence[i].applies \in Nat /\ evidence[i].unmarked \in Nat
  BY AppliesTypes
<1>1. ASSUME NEW c \in Callers, Call(c) PROVE AppliesInv'
  <2>0. \A d \in Callers : d = c
    BY Alone
  <2>1. pc[c] = "idle" /\ pc'[c] # "mark"
    BY <1>1 DEF Call, RecordSignal, RecordInput, AcceptProposal, RejectProposal, ListProposals,
                Goto, calls, TypeOK
  <2>2. ASSUME NEW i \in Ids PROVE Balanced(i)
    <3>1. evidence[i] \in Evidence /\ evidence \in [Ids -> Evidence]
      BY DEF TypeOK
    <3>2. \/ evidence' = evidence
          \/ \E j \in Ids : evidence' = [evidence EXCEPT ![j].accepted = TRUE]
      BY <1>1, Zenon DEF Call, RecordSignal, RecordInput, AcceptProposal, RejectProposal,
                         ListProposals
    <3>3. ASSUME NEW j \in Ids, evidence' = [evidence EXCEPT ![j].accepted = TRUE]
          PROVE  Balanced(i)
      BY <1>0, <3>1, <3>3 DEF Evidence, Balanced
    <3> QED BY <3>2, <3>3 DEF Balanced
  <2>3. \A d \in Callers : ~MarkCommitted(d)
    BY <2>0, <2>1 DEF MarkCommitted
  <2>4. \A i \in Ids : Marking(i)' <=> Marking(i)
    BY <2>0, <2>1 DEF Marking
  <2> QED BY <2>2, <2>3, <2>4, AppliesKept
<1>2. ASSUME NEW c \in Callers, Step(c), ~ApplySink(c), ~MarkCommitted(c) PROVE AppliesInv'
  <2>0. \A d \in Callers : d = c
    BY Alone
  <2>1. pc[c] # "mark" /\ pc'[c] # "mark"
    BY <1>2 DEF Step, Find, Found, Bump, Recheck, Insert, Get, CheckCap, CapArchive, RejectArchive, Final,
                Settle, Goto, NextRequest, TypeOK
  <2>2. ASSUME NEW i \in Ids PROVE Balanced(i)
    <3>1. evidence[i] \in Evidence /\ evidence \in [Ids -> Evidence]
      BY DEF TypeOK
    <3>2. CASE Insert(c)
      <4>1. \/ evidence'[i] = evidence[i]
            \/ RowInserted(i) /\ evidence'[i].applies = 0 /\ evidence'[i].unmarked = 0
        BY <3>2, InsertRowStep, Zenon
      <4>2. CASE evidence'[i] = evidence[i]
        BY <4>2 DEF Balanced
      <4>3. CASE RowInserted(i) /\ evidence'[i].applies = 0 /\ evidence'[i].unmarked = 0
        BY <4>3, AppliesAbsent DEF RowInserted
      <4> QED BY <4>1, <4>2, <4>3
    <3>3. CASE Bump(c)
      BY <3>1, <3>3 DEF Bump, Evidence, Balanced
    <3>4. CASE CheckCap(c)
      <4>1. pid[c] \in Ids /\ StoreOK
        BY <3>4 DEF CheckCap, TypeOK, Holding, Pc, StoreOK
      <4>2. ASSUME NEW failed \in BOOLEAN,
                   evidence' = [evidence EXCEPT ![pid[c]].uncounted = failed]
            PROVE  Balanced(i)
        BY <3>1, <4>1, <4>2, CountType DEF Evidence, Balanced
      <4>3. CASE evidence' = evidence
        BY <4>3 DEF Balanced
      <4> QED BY <3>4, <4>2, <4>3 DEF CheckCap
    <3>5. CASE ~Insert(c) /\ ~Bump(c) /\ ~CheckCap(c)
      <4>1. evidence' = evidence
        BY <1>2, <3>5, Zenon DEF Step, Find, Recheck, Get, CapArchive, RejectArchive,
                                 Final, store
      <4> QED BY <4>1 DEF Balanced
    <3> QED BY <3>2, <3>3, <3>4, <3>5
  <2>3. \A d \in Callers : ~MarkCommitted(d)
    BY <1>2, <2>0
  <2>4. \A i \in Ids : Marking(i)' <=> Marking(i)
    BY <2>0, <2>1 DEF Marking
  <2> QED BY <2>2, <2>3, <2>4, AppliesKept
<1>3. CASE MineArtifact \/ Tick \/ UNCHANGED vars
  <2>1. pc' = pc /\ pid' = pid
    BY <1>3 DEF MineArtifact, Tick, vars, calls
  <2>2. \A i \in Ids : Marking(i)' <=> Marking(i)
    BY <2>1 DEF Marking
  <2>3. \A d \in Callers : ~MarkCommitted(d)
    BY <2>1 DEF MarkCommitted, Settle, Goto, TypeOK
  <2>4. ASSUME NEW i \in Ids PROVE Balanced(i)
    <3>1. CASE MineArtifact
      <4>1. CASE evidence'[i] = evidence[i]
        BY <4>1 DEF Balanced
      <4>2. CASE RowInserted(i) /\ evidence'[i].applies = 0 /\ evidence'[i].unmarked = 0
        BY <4>2, AppliesAbsent DEF RowInserted
      <4> QED BY <3>1, <4>1, <4>2, MineRowStep
    <3>2. CASE Tick \/ UNCHANGED vars
      BY <3>2 DEF Tick, vars, store, Balanced
    <3> QED BY <1>3, <3>1, <3>2
  <2> QED BY <2>2, <2>3, <2>4, AppliesKept
<1> QED BY <1>1, <1>2, <1>3, AppliesApplySink, AppliesMarkCommitted, AppliesCrash DEF Next

(* With one caller a committed proposal was applied exactly once and any     *)
(* other never, but once more for each mark that a crash or a lost write     *)
(* took, whatever reads, counts, inserts and sinks fail.                     *)
THEOREM AppliedExactlyOnceHolds ==
    ASSUME OneCaller
    PROVE  Spec => []AppliedExactlyOnce
<1>1. Init => AppliesInv
  <2> SUFFICES ASSUME Init, NEW i \in Ids PROVE evidence[i].applies = 0 /\ ~Marking(i)
                                                /\ evidence[i].unmarked = 0
                                                /\ proposals[i].state = "absent"
    BY DEF AppliesInv
  <2>1. NoEvidence.applies = 0 /\ NoEvidence.unmarked = 0 /\ NoRow.state = "absent"
    BY DEF NoEvidence, NoRow
  <2>2. evidence[i] = NoEvidence /\ proposals[i] = NoRow /\ \A c \in Callers : pc[c] = "idle"
    BY DEF Init
  <2> HIDE DEF NoEvidence, NoRow
  <2> QED BY <2>1, <2>2 DEF Marking
<1>2. AppliesInv => AppliedExactlyOnce
  BY DEF AppliesInv, AppliedExactlyOnce, Marking
<1> QED BY <1>1, <1>2, AppliesStep, PendingHolds, TypeCorrect, PTL DEF Spec

-----------------------------------------------------------------------------
(* One pending proposal per target: between a lookup that found none and the *)
(* insert, the one other writer, kb_mining, has another sink.                *)
FoundNone ==
    \A c \in Callers : pc[c] = "insert" /\ pid[c] >= 0 => FindPending(Head(reqs[c])) = {}

LEMMA HeadNotArtifact ==
    ASSUME TypeOK, GateInv, NEW c \in Callers, pc[c] \in Routing
    PROVE  Head(reqs[c]).sink # "artifact"
<1>1. reqs[c] \in Seq(Request) /\ reqs[c] # <<>>
  BY DEF TypeOK
<1>2. 1 \in 1..Len(reqs[c]) /\ Head(reqs[c]) = reqs[c][1]
  BY <1>1
<1> QED BY <1>2 DEF GateInv, RequestsOK

(* Only an insert of the router adds a row that kb_mining did not. *)
LEMMA InsertedByInsert ==
    ASSUME TypeOK, PendingInv, [Next]_vars,
           NEW i \in Ids, RowInserted(i), proposals'[i].sink # "artifact"
    PROVE  \E c \in Callers : Insert(c) /\ ~UNCHANGED <<proposals, evidence>>
<1>1. proposals' # proposals /\ ~ArchiveExpired /\ ~MineArtifact
  <2>1. proposals' # proposals
    BY  DEF RowInserted
  <2>2. ~MineArtifact
    BY MineRowStep DEF RowInserted
  <2>3. ~ArchiveExpired
    BY SweepRowStep DEF RowInserted
  <2> QED BY <2>1, <2>2, <2>3
<1>2. ASSUME NEW c \in Callers,
             Bump(c) \/ CapArchive(c) \/ MarkCommitted(c) \/ RejectArchive(c)
      PROVE  FALSE
  <2>1. pid[c] \in Ids /\ proposals[pid[c]].state = "pending"
    BY <1>2 DEF Bump, CapArchive, MarkCommitted, RejectArchive, TypeOK, Holding, Pc,
                PendingInv, Deciding
  <2>2. i # pid[c]
    BY <2>1 DEF RowInserted
  <2>3. \A row : UpdateRow(pid[c], row) => proposals'[i] = proposals[i]
    BY <2>1, <2>2 DEF UpdateRow, TypeOK
  <2>4. \E row : UpdateRow(pid[c], row)
    BY <1>2, Zenon DEF Bump, CapArchive, MarkCommitted, RejectArchive
  <2> QED BY <2>3, <2>4 DEF RowInserted
<1>3. ASSUME NEW c \in Callers, Call(c) PROVE FALSE
  BY <1>1, <1>3, Zenon DEF Call, RecordSignal, RecordInput, AcceptProposal, RejectProposal,
                           ListProposals
<1>4. ASSUME NEW c \in Callers, Find(c) \/ CheckCap(c) \/ ApplySink(c) \/ Crash(c) PROVE FALSE
  BY <1>1, <1>4 DEF Find, CheckCap, ApplySink, Crash, store
<1>5. ASSUME NEW c \in Callers, Recheck(c) \/ Get(c) \/ Final(c) PROVE FALSE
  BY <1>1, <1>5, Zenon DEF Recheck, Get, Final
<1>6. ~(Tick \/ UNCHANGED vars)
  BY <1>1 DEF Tick, vars, store
<1>7. PICK c \in Callers : Insert(c)
  BY <1>1, <1>2, <1>3, <1>4, <1>5, <1>6, Zenon DEF Next, Step
<1> QED BY <1>1, <1>7

(* Whether its lookup failed is noted of a row when it is inserted, for good. *)
LEMMA UnseenKept ==
    ASSUME TypeOK, [Next]_vars, NEW i \in Ids, proposals[i].state # "absent"
    PROVE  evidence'[i].unseen = evidence[i].unseen
<1>0. evidence[i] \in Evidence /\ evidence \in [Ids -> Evidence] /\ StoreOK
  BY DEF TypeOK, StoreOK
<1>1. CASE evidence' = evidence
  BY <1>1
<1>2. ASSUME NEW j \in Ids, evidence' = [evidence EXCEPT ![j].accepted = TRUE]
      PROVE  evidence'[i].unseen = evidence[i].unseen
  BY <1>0, <1>2 DEF Evidence
<1>3. ASSUME NEW j \in Ids, LoseMark(j) PROVE evidence'[i].unseen = evidence[i].unseen
  BY <1>0, <1>3, LoseMarkType DEF Evidence
<1>4. ASSUME NEW c \in Callers, Call(c) PROVE evidence'[i].unseen = evidence[i].unseen
  BY <1>1, <1>2, <1>4, Zenon DEF Call, RecordSignal, RecordInput, AcceptProposal, RejectProposal,
                                ListProposals
<1>5. ASSUME NEW c \in Callers, Bump(c) \/ ApplySink(c) \/ CheckCap(c) \/ MarkCommitted(c)
      PROVE  evidence'[i].unseen = evidence[i].unseen
  <2>1. pid[c] \in Ids
    BY <1>5 DEF Bump, ApplySink, CheckCap, MarkCommitted, TypeOK, Holding, Pc
  <2>2. CASE Bump(c)
    BY <1>0, <2>1, <2>2 DEF Bump, Evidence
  <2>3. CASE ApplySink(c)
    BY <1>0, <2>1, <2>3 DEF ApplySink, Evidence
  <2>4. CASE CheckCap(c)
    <3>1. ASSUME NEW failed \in BOOLEAN,
                 evidence' = [evidence EXCEPT ![pid[c]].uncounted = failed]
          PROVE  evidence'[i].unseen = evidence[i].unseen
      BY <1>0, <2>1, <3>1, CountType DEF Evidence
    <3> QED BY <1>1, <2>4, <3>1 DEF CheckCap
  <2>5. CASE MarkCommitted(c)
    BY <1>1, <1>3, <2>1, <2>5 DEF MarkCommitted
  <2> QED BY <1>5, <2>2, <2>3, <2>4, <2>5
<1>6. ASSUME NEW c \in Callers, Insert(c) PROVE evidence'[i].unseen = evidence[i].unseen
  BY <1>6, InsertRowStep DEF RowInserted
<1>7. CASE MineArtifact
  BY <1>7, MineRowStep DEF RowInserted
<1>8. ASSUME NEW c \in Callers, Crash(c) PROVE evidence'[i].unseen = evidence[i].unseen
  <2>1. pc[c] = "mark" => pid[c] \in Ids
    BY DEF TypeOK, Holding, Pc
  <2> QED BY <1>1, <1>3, <1>8, <2>1 DEF Crash
<1>9. ASSUME NEW c \in Callers,
             \/ Find(c) \/ Recheck(c) \/ Get(c) \/ CapArchive(c) \/ RejectArchive(c) \/ Final(c)
      PROVE  evidence' = evidence
  BY <1>9 DEF Find, Recheck, Get, CapArchive, RejectArchive, Final, store
<1>10. CASE Tick \/ UNCHANGED vars
  BY <1>10 DEF Tick, vars, store
<1> QED BY <1>1, <1>4, <1>5, <1>6, <1>7, <1>8, <1>9, <1>10, Zenon DEF Next, Step

LEMMA OnePendingStep ==
    ASSUME TypeOK, GateInv, PendingInv, FoundNone, OnePendingPerTarget, [Next]_vars
    PROVE  OnePendingPerTarget'
<1> DEFINE Stays(i) == /\ proposals[i].state = "pending"
                       /\ proposals'[i].sink = proposals[i].sink
                       /\ proposals'[i].key = proposals[i].key
                       /\ proposals'[i].mem = proposals[i].mem
<1>1. \A i \in Ids : proposals'[i].state = "pending" => RowInserted(i) \/ Stays(i)
  BY SerialRows DEF RowStep, RowMoved
<1>u. \A i \in Ids : Stays(i) => evidence'[i].unseen = evidence[i].unseen
  BY UnseenKept
<1>2. CASE \A i \in Ids : RowInserted(i) => proposals'[i].sink = "artifact"
  BY <1>1, <1>2, <1>u DEF OnePendingPerTarget, SameTarget
<1>3. ASSUME NEW c \in Callers, Insert(c), ~UNCHANGED <<proposals, evidence>>
      PROVE  OnePendingPerTarget'
  <2>1. PICK i \in Ids :
                /\ RowInserted(i)
                /\ proposals'[i].sink = Head(reqs[c]).sink
                /\ proposals'[i].key = Head(reqs[c]).key
                /\ proposals'[i].mem = Head(reqs[c]).mem
                /\ pid[c] < 0 => evidence'[i].unseen
                /\ \A j \in Ids : j # i => proposals'[j] = proposals[j]
                                         /\ evidence'[j] = evidence[j]
    BY <1>3, InsertRowStep
  <2>2. pid[c] \in Int
    BY DEF TypeOK
  <2>3. CASE pid[c] < 0
    BY <2>1, <2>3 DEF OnePendingPerTarget, SameTarget
  <2>4. CASE pid[c] >= 0
    <3>1. \A j \in Ids : proposals[j].state = "pending" =>
            ~(/\ proposals[j].sink = Head(reqs[c]).sink
              /\ proposals[j].key = Head(reqs[c]).key
              /\ proposals[j].mem = Head(reqs[c]).mem)
      BY <1>3, <2>4 DEF Insert, FoundNone, FindPending
    <3> QED BY <2>1, <3>1 DEF OnePendingPerTarget, SameTarget
  <2> QED BY <2>2, <2>3, <2>4
<1> QED BY <1>2, <1>3, InsertedByInsert

LEMMA FoundNoneStep ==
    ASSUME TypeOK, GateInv, PendingInv, FoundNone, [Next]_vars, OneCaller
    PROVE  FoundNone'
<1> SUFFICES ASSUME NEW c \in Callers, pc'[c] = "insert", pid'[c] >= 0
             PROVE  FindPending(Head(reqs[c]))' = {}
  BY DEF FoundNone
<1>0. \A d \in Callers : d = c
  BY Alone
<1>1. CASE Find(c)
  <2>1. FindPending(Head(reqs[c])) = {} /\ proposals' = proposals /\ reqs' = reqs
    <3>1. ~Found(c, -1) /\ \A i \in Ids : ~Found(c, i)
      BY DEF Found, Goto, TypeOK, Ids
    <3> QED BY <1>1, <3>1 DEF Find, FindPending, store
  <2> QED BY <2>1 DEF FindPending
<1>2. CASE MineArtifact \/ Tick \/ UNCHANGED vars
  <2>1. pc' = pc /\ reqs' = reqs /\ pid' = pid
    BY <1>2 DEF MineArtifact, Tick, vars, calls
  <2>2. FindPending(Head(reqs[c])) = {} /\ Head(reqs[c]).sink # "artifact"
    BY <2>1, HeadNotArtifact DEF FoundNone, Routing
  <2>3. \A i \in Ids : proposals'[i] = proposals[i] \/ proposals'[i].sink = "artifact"
    <3>1. CASE MineArtifact
      BY <3>1, MineRowStep
    <3>2. CASE Tick \/ UNCHANGED vars
      BY <3>2 DEF Tick, vars, store
    <3> QED BY <1>2, <3>1, <3>2
  <2> QED BY <2>1, <2>2, <2>3 DEF FindPending
<1>3. ASSUME Call(c) \/ Bump(c) \/ Recheck(c) \/ Insert(c) \/ Get(c) \/ CheckCap(c)
               \/ CapArchive(c) \/ ApplySink(c) \/ MarkCommitted(c) \/ RejectArchive(c)
               \/ Final(c) \/ Crash(c)
      PROVE  FALSE
  <2>1. CASE Call(c)
    BY <2>1 DEF Call, RecordSignal, RecordInput, AcceptProposal, RejectProposal, ListProposals,
                Goto, calls, TypeOK
  <2>2. CASE Crash(c)
    BY <2>2 DEF Crash, TypeOK
  <2>3. CASE Bump(c) \/ Recheck(c) \/ Insert(c) \/ Get(c) \/ CheckCap(c) \/ CapArchive(c)
    BY <2>3 DEF Bump, Recheck, Insert, Get, CheckCap, CapArchive, Settle, Goto, NextRequest, TypeOK
  <2>4. CASE ApplySink(c) \/ MarkCommitted(c) \/ RejectArchive(c) \/ Final(c)
    BY <2>4 DEF ApplySink, MarkCommitted, RejectArchive, Final, Settle, Goto, NextRequest, TypeOK
  <2> QED BY <1>3, <2>1, <2>2, <2>3, <2>4
<1>4. ASSUME NEW d \in Callers, Call(d) \/ Step(d) \/ Crash(d)
      PROVE  Call(c) \/ Step(c) \/ Crash(c)
  BY <1>0, <1>4, Zenon
<1> QED BY <1>1, <1>2, <1>3, <1>4, Zenon DEF Next, Step

(* With one caller two pending proposals have the same target only if the    *)
(* lookup of one of them failed, whatever else is lost, fails or crashes,    *)
(* and whatever kb_mining inserts meanwhile.                                 *)
THEOREM OnePendingPerTargetHolds ==
    ASSUME OneCaller
    PROVE  Spec => []OnePendingPerTarget
<1>1. Init => FoundNone /\ OnePendingPerTarget
  <2> SUFFICES ASSUME Init
               PROVE  /\ \A c \in Callers : pc[c] = "idle"
                      /\ \A i \in Ids : proposals[i].state = "absent"
    BY DEF FoundNone, OnePendingPerTarget, SameTarget
  <2>1. NoRow.state = "absent"
    BY DEF NoRow
  <2> HIDE DEF NoRow
  <2> QED BY <2>1 DEF Init
<1>2. Spec => []GateInv
  BY GateInit, GateStep, TypeCorrect, PTL DEF Spec
<1> QED
  BY <1>1, <1>2, FoundNoneStep, OnePendingStep, PendingHolds, TypeCorrect, PTL DEF Spec

-----------------------------------------------------------------------------
(* The result of a call follows the row it is working on: it names every row *)
(* it works on, and what is committed and not told is about to be read.      *)
Confirming(c, i) == pc[c] = "final" /\ reqs[c] # <<>> /\ pid[c] = i

ResultOK(c) ==
    /\ pc[c] = "idle" => reqs[c] = <<>>
    /\ reqs[c] = <<>> /\ pc[c] # "idle" => told[c].proposals = {}
    /\ reqs[c] # <<>> /\ pc[c] \in Holding \ {"bump"} => pid[c] \in told[c].proposals
    /\ \A i \in told[c].committed :
            i \in told[c].proposals /\ proposals[i].state = "committed"
    /\ faults = 0 =>
            \A i \in told[c].proposals :
                proposals[i].state = "committed" =>
                    i \in told[c].committed \/ Confirming(c, i)

ResultInv ==
    /\ told \in [Callers -> [proposals : SUBSET Ids, committed : SUBSET Ids]]
    /\ \A c \in Callers : ResultOK(c)

(* A committed row stays committed, and only the mark adds one. *)
LEMMA CommittedRows ==
    ASSUME TypeOK, PendingInv, [Next]_vars, NEW i \in Ids
    PROVE  /\ proposals[i].state = "committed" => proposals'[i].state = "committed"
           /\ proposals'[i].state = "committed" =>
                \/ proposals[i].state = "committed"
                \/ \E c \in Callers : MarkCommitted(c) /\ i = pid[c]
BY SerialRows DEF RowStep, RowInserted, RowMoved

(* Faults never get fewer. *)
LEMMA FaultsGrow ==
    ASSUME TypeOK, [Next]_vars
    PROVE  faults \in Nat /\ faults' \in Nat /\ faults' >= faults
<1> DEFINE Enlarged == faults' = faults \/ faults' = faults + 1
<1>1. ASSUME NEW c \in Callers, Call(c) PROVE Enlarged
  BY <1>1 DEF Call, RecordSignal, RecordInput, AcceptProposal, RejectProposal, ListProposals, Fault
<1>2. ASSUME NEW c \in Callers, Find(c) \/ Recheck(c) \/ Insert(c) \/ Get(c) \/ Final(c)
      PROVE  Enlarged
  BY <1>2 DEF Find, Recheck, Insert, Get, Final, Fault
<1>3. ASSUME NEW c \in Callers,
             Bump(c) \/ CapArchive(c) \/ RejectArchive(c) \/ MarkCommitted(c)
      PROVE  Enlarged
  <2>1. \E i, row : UpdateRow(i, row)
    BY <1>3, Zenon DEF Bump, CapArchive, RejectArchive, MarkCommitted
  <2> QED BY <2>1 DEF UpdateRow, Fault
<1>4. ASSUME NEW c \in Callers, CheckCap(c) \/ ApplySink(c) \/ Crash(c) PROVE Enlarged
  BY <1>4 DEF CheckCap, ApplySink, Crash, Fault
<1>5. Enlarged
  BY <1>1, <1>2, <1>3, <1>4 DEF Next, Step, MineArtifact, Tick, vars
<1>6. faults \in Nat
  BY BoundsAssumption DEF TypeOK
<1> QED BY <1>5, <1>6

(* How a step of a call moves on. *)
LEMMA StepFrame ==
    ASSUME TypeOK, NEW c \in Callers, Step(c)
    PROVE  \/ /\ pc[c] \in Holding /\ pid' = pid /\ reqs' = reqs
              /\ pc'[c] \in Holding \ {"bump"}
           \/ /\ pc'[c] = "find" /\ reqs'[c] # <<>>
           \/ /\ pc'[c] = "idle" /\ reqs'[c] = <<>>
           \/ /\ pc'[c] \in {"bump", "insert"} /\ reqs'[c] # <<>>
           \/ /\ pc'[c] = "get" /\ pc[c] = "insert" /\ reqs' = reqs /\ reqs[c] # <<>>
              /\ pid'[c] \in Ids
              /\ proposals'[pid'[c]] # proposals[pid'[c]]
<1>1. CASE NextRequest(c)
  <2>1. reqs[c] \in Seq(Request)
    BY DEF TypeOK
  <2>2. /\ Len(reqs[c]) > 1 => reqs'[c] # <<>> /\ pc'[c] = "find"
        /\ ~(Len(reqs[c]) > 1) => reqs'[c] = <<>> /\ pc'[c] = "idle"
    <3>1. ASSUME NEW q \in Seq(Request)
          PROVE  /\ Len(q) > 1 => q # <<>> /\ Tail(q) # <<>>
                 /\ q # <<>> /\ ~(Len(q) > 1) => Tail(q) = <<>>
      <4>1. CASE q # <<>>
        <5>1. Tail(q) \in Seq(Request) /\ Len(Tail(q)) = Len(q) - 1 /\ Len(q) \in Nat \ {0}
          BY <4>1
        <5>2. Tail(q) = <<>> <=> Len(Tail(q)) = 0
          BY <5>1, EmptySeq
        <5> QED BY <4>1, <5>1, <5>2
      <4>2. CASE q = <<>>
        BY <4>2
      <4> QED BY <4>1, <4>2
    <3>2. /\ reqs'[c] = IF reqs[c] = <<>> THEN <<>> ELSE Tail(reqs[c])
          /\ pc'[c] = IF Len(reqs[c]) > 1 THEN "find" ELSE "idle"
      BY <1>1 DEF NextRequest, TypeOK
    <3> QED BY <2>1, <3>1, <3>2
  <2> QED BY <2>2
<1>2. CASE Find(c)
  <2>1. reqs[c] # <<>> /\ reqs' = reqs /\ pc'[c] \in {"bump", "insert"}
    BY <1>2 DEF Find, Found, Goto, TypeOK, Routing
  <2> QED BY <2>1
<1>3. CASE Insert(c) /\ ~NextRequest(c)
  <2> DEFINE r == Head(reqs[c])
             row == NewRow(r.sink, r.key, r.mem, r.action)
  <2>1. PICK i \in Ids : /\ FreshId(i)
                         /\ proposals' = [proposals EXCEPT ![i] = row]
                         /\ Goto(c, "get") /\ pid' = [pid EXCEPT ![c] = i]
                         /\ UNCHANGED <<reqs, sig>>
    BY <1>3, Zenon DEF Insert
  <2>2. row.state = "pending"
    BY DEF NewRow
  <2> HIDE DEF row
  <2>3. RowInserted(i) /\ proposals'[i] # proposals[i]
    BY <2>1, <2>2, FreshRowStep DEF RowInserted
  <2>4. pid'[c] = i /\ pc'[c] = "get" /\ reqs' = reqs
    BY <2>1 DEF Goto, TypeOK
  <2>5. pc[c] = "insert" /\ reqs[c] # <<>>
    BY <1>3 DEF Insert, TypeOK, Routing
  <2> QED BY <2>3, <2>4, <2>5
<1>4. CASE ~NextRequest(c) /\ ~Find(c) /\ ~Insert(c)
  <2>1. pc[c] \in Holding
    BY <1>4 DEF Step, Bump, Recheck, Get, CheckCap, CapArchive, ApplySink, MarkCommitted,
                RejectArchive, Final, Holding, Pc
  <2>2. \E label \in Holding \ {"bump"} : Settle(c, label)
    <3>1. {"recheck", "get", "cap", "cap_archive", "apply", "mark", "final"}
                \subseteq Holding \ {"bump"}
      BY DEF Holding, Pc
    <3>2. CASE Bump(c) \/ Recheck(c) \/ Get(c) \/ CheckCap(c)
      BY <1>4, <3>1, <3>2 DEF Bump, Recheck, Get, CheckCap
    <3>3. CASE CapArchive(c) \/ ApplySink(c) \/ MarkCommitted(c) \/ RejectArchive(c) \/ Final(c)
      BY <1>4, <3>1, <3>3 DEF CapArchive, ApplySink, MarkCommitted, RejectArchive, Final
    <3> QED BY <1>4, <3>2, <3>3, Zenon DEF Step
  <2> QED BY <2>1, <2>2 DEF Settle, Goto, TypeOK
<1> QED BY <1>1, <1>2, <1>3, <1>4

LEMMA ResultDispatch ==
    ASSUME TypeOK, TypeOK', OneCaller, PendingInv, ResultInv, [Next]_vars, NEW c \in Callers,
           Dispatch(c)
    PROVE  ResultInv'
<1>0. \A d \in Callers : d = c
  BY Alone
<1>1. /\ told'[c].proposals = told[c].proposals \cup Queued(c)
      /\ told'[c].committed = told[c].committed \cup Committed(c)
      /\ told' \in [Callers -> [proposals : SUBSET Ids, committed : SUBSET Ids]]
  <2>1. told \in [Callers -> [proposals : SUBSET Ids, committed : SUBSET Ids]]
    BY DEF ResultInv
  <2>2. Queued(c) \subseteq Ids /\ Committed(c) \subseteq Ids
    BY DEF Queued, Committed
  <2> QED BY <2>1, <2>2 DEF Dispatch
<1>2. ResultOK(c) /\ Step(c)
  BY DEF ResultInv, Dispatch
<1>3. \A i \in Queued(c) : pc[c] \in Routing /\ proposals[i].state # "committed"
  <2>1. CASE pc[c] = "bump"
    BY <2>1 DEF Queued, PendingInv, Deciding, Routing
  <2>2. CASE pc[c] = "insert"
    <3>1. Insert(c)
      BY <1>2, <2>2 DEF Step, Find, Bump, Recheck, Get, CheckCap, CapArchive, ApplySink,
                        MarkCommitted, RejectArchive, Final
    <3> QED BY <2>2, <3>1, InsertRowStep DEF Queued, RowInserted, Routing
  <2> QED BY <2>1, <2>2 DEF Queued
<1>4. pc'[c] = "idle" => reqs'[c] = <<>>
  BY <1>2, StepFrame DEF Holding
<1>5. reqs'[c] = <<>> /\ pc'[c] # "idle" => told'[c].proposals = {}
  <2> SUFFICES ASSUME reqs'[c] = <<>>, pc'[c] # "idle" PROVE told'[c].proposals = {}
    OBVIOUS
  <2>1. pc[c] \in Holding /\ reqs[c] = <<>>
    BY <1>2, StepFrame
  <2>2. pc[c] \notin Routing /\ pc[c] # "idle"
    BY <2>1 DEF TypeOK, Holding
  <2> QED BY <1>1, <1>2, <1>3, <2>1, <2>2 DEF ResultOK
<1>6. reqs'[c] # <<>> /\ pc'[c] \in Holding \ {"bump"} => pid'[c] \in told'[c].proposals
  <2> SUFFICES ASSUME reqs'[c] # <<>>, pc'[c] \in Holding \ {"bump"}
               PROVE  pid'[c] \in told'[c].proposals
    OBVIOUS
  <2>1. CASE pc[c] \in Holding /\ pid' = pid /\ reqs' = reqs
    <3>1. pid[c] \in Ids
      BY <2>1 DEF TypeOK
    <3>2. pc[c] = "bump" => pid[c] \in Queued(c)
      BY <3>1 DEF Queued
    <3> QED BY <1>1, <1>2, <2>1, <3>2 DEF ResultOK
  <2>2. CASE /\ pc[c] = "insert" /\ pid'[c] \in Ids
             /\ proposals'[pid'[c]] # proposals[pid'[c]]
    BY <1>1, <2>2 DEF Queued
  <2> QED BY <1>2, <2>1, <2>2, StepFrame DEF Holding
<1>7. ASSUME NEW i \in told'[c].committed
      PROVE  i \in told'[c].proposals /\ proposals'[i].state = "committed"
  <2>1. CASE i \in told[c].committed
    <3>1. i \in told[c].proposals /\ i \in Ids /\ proposals[i].state = "committed"
      BY <1>2, <2>1 DEF ResultOK, ResultInv
    <3> QED BY <1>1, <3>1, CommittedRows
  <2>2. CASE i \in Committed(c)
    <3>1. /\ i = pid[c] /\ reqs[c] # <<>> /\ pc[c] \in {"get", "final"}
          /\ proposals'[i].state = "committed"
      BY <2>2 DEF Committed
    <3>2. pid[c] \in told[c].proposals
      BY <1>2, <3>1 DEF ResultOK, Holding, Pc
    <3> QED BY <1>1, <3>1, <3>2
  <2> QED BY <1>1, <2>1, <2>2
<1>8. ASSUME faults' = 0, NEW i \in told'[c].proposals, proposals'[i].state = "committed"
      PROVE  i \in told'[c].committed \/ (pc'[c] = "final" /\ reqs'[c] # <<>> /\ pid'[c] = i)
  <2>0. faults = 0 /\ i \in Ids
    <3>1. faults = 0
      BY <1>8, FaultsGrow
    <3> QED BY <1>1, <1>8, <3>1
  <2>1. CASE proposals[i].state = "committed"
    <3>1. i \in told[c].proposals
      BY <1>1, <1>3, <2>1
    <3>2. CASE i \in told[c].committed
      BY <1>1, <3>2
    <3>3. CASE Confirming(c, i)
      BY <1>1, <1>8, <2>0, <3>3 DEF Confirming, Committed
    <3> QED BY <1>2, <2>0, <2>1, <3>1, <3>2, <3>3 DEF ResultOK
  <2>2. CASE MarkCommitted(c) /\ i = pid[c]
    <3>1. pc[c] = "mark" /\ pc'[c] = "final" /\ pid' = pid /\ reqs' = reqs
      BY <2>2 DEF MarkCommitted, Settle, Goto, TypeOK
    <3>2. Queued(c) = {}
      BY <3>1 DEF Queued
    <3>3. reqs[c] # <<>>
      BY <1>1, <1>2, <3>1, <3>2 DEF ResultOK
    <3> QED BY <2>2, <3>1, <3>3
  <2> QED BY <1>0, <1>8, <2>0, <2>1, <2>2, CommittedRows
<1>9. ResultOK(c)'
  BY <1>4, <1>5, <1>6, <1>7, <1>8 DEF ResultOK, Confirming
<1> QED BY <1>0, <1>1, <1>9 DEF ResultInv

(* A call that begins or ends tells nothing yet, or nothing more. *)
LEMMA ResultCleared ==
    ASSUME TypeOK, OneCaller, ResultInv, NEW c \in Callers, Clear(c),
           reqs'[c] = <<>> \/ pc'[c] = "find"
    PROVE  ResultInv'
<1>0. \A d \in Callers : d = c
  BY Alone
<1>1. told'[c].proposals = {} /\ told'[c].committed = {}
  BY DEF Clear, Nothing, ResultInv
<1>2. told' \in [Callers -> [proposals : SUBSET Ids, committed : SUBSET Ids]]
  BY DEF Clear, Nothing, ResultInv
<1>3. ResultOK(c)'
  <2>1. pc'[c] = "idle" => reqs'[c] = <<>>
    OBVIOUS
  <2>2. reqs'[c] # <<>> => pc'[c] \notin Holding \ {"bump"}
    BY DEF Holding
  <2> QED BY <1>1, <2>1, <2>2 DEF ResultOK
<1> QED BY <1>0, <1>2, <1>3 DEF ResultInv

LEMMA ResultKept ==
    ASSUME TypeOK, PendingInv, ResultInv, [Next]_vars,
           pc' = pc, reqs' = reqs, pid' = pid, faults' = faults, told' = told
    PROVE  ResultInv'
<1>1. \A c \in Callers : ~MarkCommitted(c)
  BY DEF MarkCommitted, Settle, Goto, TypeOK
<1>2. \A i \in Ids : proposals'[i].state = "committed" <=> proposals[i].state = "committed"
  BY <1>1, CommittedRows
<1>3. \A c \in Callers : told[c].proposals \subseteq Ids /\ told[c].committed \subseteq Ids
  BY DEF ResultInv
<1>4. ASSUME NEW c \in Callers PROVE ResultOK(c)'
  <2>1. ResultOK(c)
    BY DEF ResultInv
  <2> QED BY <1>2, <1>3, <2>1 DEF ResultOK, Confirming
<1> QED BY <1>4 DEF ResultInv

LEMMA ResultStep ==
    ASSUME TypeOK, TypeOK', OneCaller, PendingInv, ResultInv, [SignalNext]_signalVars,
           [Next]_vars
    PROVE  ResultInv'
<1>1. ASSUME NEW c \in Callers, Record(c) PROVE ResultInv'
  <2>1. pc[c] = "idle" /\ reqs[c] = <<>> /\ Clear(c)
    BY <1>1 DEF Record, ResultInv, ResultOK
  <2>2. PICK in \in Inputs : RecordInput(c, in) \/ UNCHANGED vars
    BY <1>1, Zenon DEF Record
  <2>3. reqs' = reqs \/ pc'[c] = "find"
    BY <2>2 DEF RecordInput, vars, Goto, TypeOK
  <2> QED BY <2>1, <2>3, ResultCleared
<1>2. ASSUME NEW c \in Callers, OtherCall(c) PROVE ResultInv'
  <2>1. Clear(c)
    BY <1>2 DEF OtherCall
  <2>2. CASE Crash(c)
    BY <2>1, <2>2, ResultCleared DEF Crash, TypeOK
  <2>3. CASE AcceptProposal(c) \/ RejectProposal(c) \/ ListProposals(c)
    <3>1. pc[c] = "idle" /\ reqs' = reqs
      BY <2>3 DEF AcceptProposal, RejectProposal, ListProposals, calls
    <3>2. reqs'[c] = <<>>
      BY <3>1 DEF ResultInv, ResultOK
    <3> QED BY <2>1, <3>2, ResultCleared
  <2> QED BY <1>2, <2>2, <2>3 DEF OtherCall
<1>3. CASE (MineArtifact \/ Tick) /\ UNCHANGED <<told, heard>>
  BY <1>3, ResultKept DEF MineArtifact, Tick, calls
<1>4. CASE UNCHANGED signalVars
  BY <1>4, ResultKept DEF signalVars, vars
<1> QED BY <1>1, <1>2, <1>3, <1>4, ResultDispatch DEF SignalNext

(* With one caller the result of a call is the truth about the store: it     *)
(* claims no commit that did not happen, whatever fails or crashes, and when *)
(* nothing does it tells every commit of what it queued.                     *)
THEOREM ResultMatchesStoreHolds ==
    ASSUME OneCaller
    PROVE  SignalSpec => []ResultMatchesStore
<1>1. SignalInit => ResultInv
  <2> SUFFICES ASSUME SignalInit PROVE ResultInv
    OBVIOUS
  <2>1. \A c \in Callers : pc[c] = "idle" /\ reqs[c] = <<>>
    BY DEF SignalInit, Init
  <2>2. told = [c \in Callers |-> [proposals |-> {}, committed |-> {}]]
    BY DEF SignalInit, Nothing
  <2> QED BY <2>1, <2>2 DEF ResultInv, ResultOK, Holding
<1>2. ResultInv => ResultMatchesStore
  <2> SUFFICES ASSUME ResultInv, NEW c \in Callers
               PROVE  LET settled == {i \in told[c].proposals : proposals[i].state = "committed"}
                      IN  /\ told[c].committed \subseteq settled
                          /\ pc[c] = "idle" /\ faults = 0 => told[c].committed = settled
    BY DEF ResultMatchesStore
  <2>1. ResultOK(c)
    BY DEF ResultInv
  <2> QED BY <2>1 DEF ResultOK, Confirming
<1>3. [SignalNext]_signalVars => [Next]_vars
  BY SignalStepIsStep
<1> QED BY <1>1, <1>2, <1>3, ResultStep, SignalsImplementRouter, PendingHolds, TypeCorrect, PTL
            DEF SignalSpec, Spec
=============================================================================
