------------------------- MODULE LearningRouterProofs -------------------------
(***************************************************************************)
(* What LearningRouter guarantees for every instance of its constants, any *)
(* number of callers, any interleaving of their DB2 calls, any crash and   *)
(* any lost write: its types, that no action reaches a sink without its    *)
(* evidence, that no row says committed without its action having been     *)
(* applied, and the weekly cap.                                            *)
(***************************************************************************)
EXTENDS LearningRouter, SequenceTheorems, FiniteSetTheorems, TLAPS

LEMMA ActionType ==
    ASSUME NEW v \in {"success", "failure", "supersede", "artifact"} \cup RuleReasons \cup Text,
           NEW a \in Text, NEW t \in Text, NEW cites \in BOOLEAN, NEW parses \in BOOLEAN
    PROVE  [verb |-> v, about |-> a, text |-> t, cites |-> cites, parses |-> parses]
                \in Action
BY Zenon DEF Action

LEMMA AtMostOneType ==
    ASSUME NEW s \in Sinks, NEW k \in Text, NEW m \in Int, NEW a \in Action,
           NEW h \in BOOLEAN
    PROVE  <<[sink |-> s, key |-> k, mem |-> m, action |-> a, high |-> h]>> \in Seq(Request)
<1>1. [sink |-> s, key |-> k, mem |-> m, action |-> a, high |-> h] \in Request
  BY Zenon DEF Request
<1> QED BY <1>1

LEMMA ActionsType ==
    ASSUME NEW in \in Input
    PROVE  /\ learning_make_reranker_action(in) \in Action
           /\ learning_make_supersede_action(in) \in Action
           /\ CorrectionRule(in) \in Action
           /\ StatedRule(in) \in Action
           /\ learning_make_workflow_action(in) \in Action
<1> /\ "" \in Text /\ in.key \in Text /\ in.mem \in Int
    /\ in.text \in Text /\ in.title \in Text /\ in.desc \in Text
    /\ in.project \in Text /\ in.wtype \in Text
  BY InputsAssumption DEF Input
<1>1. learning_make_reranker_action(in) \in Action
  <2> DEFINE v == IF in.type = "thumb_up" THEN "success" ELSE "failure"
             cites == in.mem > 0 \/ in.refs \in {"ids", "overlong"}
             parses == in.mem > 0 \/ in.refs # "overlong"
  <2>1. v \in {"success", "failure"}
    OBVIOUS
  <2>2. cites \in BOOLEAN /\ parses \in BOOLEAN
    BY Zenon
  <2> HIDE DEF v, cites, parses
  <2>3. [verb |-> v, about |-> "", text |-> "", cites |-> cites, parses |-> parses] \in Action
    BY <2>1, <2>2, ActionType, Zenon
  <2> QED BY <2>3, Zenon DEF learning_make_reranker_action, v, cites, parses
<1>2. learning_make_supersede_action(in) \in Action
  <2> DEFINE parses == in.text \notin Oversized
  <2>1. parses \in BOOLEAN
    BY Zenon
  <2> HIDE DEF parses
  <2>3. [verb |-> "supersede", about |-> "", text |-> in.text, cites |-> TRUE,
         parses |-> parses] \in Action
    BY <2>1, ActionType, Zenon
  <2> QED BY <2>3, Zenon DEF learning_make_supersede_action, parses
<1>6. ASSUME NEW a \in Text, NEW t \in Text, NEW r \in RuleReasons
      PROVE  learning_make_rule_action(a, t, r) \in Action
  <2> DEFINE parses == t \notin Oversized
  <2>1. parses \in BOOLEAN /\ FALSE \in BOOLEAN
    BY Zenon
  <2> HIDE DEF parses
  <2>2. [verb |-> r, about |-> a, text |-> t, cites |-> FALSE, parses |-> parses] \in Action
    BY <2>1, ActionType, Zenon
  <2> QED BY <2>2, Zenon DEF learning_make_rule_action, parses
<1>3. CorrectionRule(in) \in Action
  <2>1. /\ CorrectionReason \in RuleReasons
        /\ (IF in.key # "" THEN in.key ELSE in.title) \in Text
    BY DEF RuleReasons
  <2> QED BY <1>6, <2>1, Zenon DEF CorrectionRule
<1>4. StatedRule(in) \in Action
  <2>1. /\ (IF in.desc # "" THEN in.desc ELSE in.title) \in Text
        /\ (IF in.type = "mark_rule" THEN "Explicit rule capture"
                                     ELSE "Explicit user preference") \in RuleReasons
    BY DEF RuleReasons
  <2> QED BY <1>6, <2>1, Zenon DEF StatedRule
<1>5. learning_make_workflow_action(in) \in Action
  BY ActionType DEF learning_make_workflow_action
<1> QED BY <1>1, <1>2, <1>3, <1>4, <1>5

(* The requests record_signal makes of a signal are well-formed. *)
LEMMA PartsType ==
    ASSUME NEW f \in Input
    PROVE  /\ RerankerRequests(f) \in Seq(Request)
           /\ SupersedeRequests(f) \in Seq(Request)
           /\ RuleRequests(f) \in Seq(Request)
           /\ WorkflowRequests(f) \in Seq(Request)
<1>2. /\ f.key \in Text /\ f.mem \in Int /\ f.project \in Text /\ FALSE \in BOOLEAN
      /\ <<>> \in Seq(Request) /\ Sinks = {"reranker", "supersede", "rule", "workflow", "artifact"}
  BY DEF Input, Sinks
<1>3. RerankerRequests(f) \in Seq(Request)
  BY <1>2, ActionsType, AtMostOneType, Zenon DEF RerankerRequests
<1>4. SupersedeRequests(f) \in Seq(Request)
  BY <1>2, ActionsType, AtMostOneType, Zenon DEF SupersedeRequests
<1>5. RuleRequests(f) \in Seq(Request)
  <2> DEFINE h == f.type # "correction" /\ (f.high \/ f.type = "mark_rule")
             a == IF f.type = "correction" THEN CorrectionRule(f) ELSE StatedRule(f)
  <2>1. h \in BOOLEAN
    BY Zenon
  <2>2. a \in Action
    BY ActionsType, Zenon
  <2> HIDE DEF h, a
  <2>3. <<[sink |-> "rule", key |-> f.key, mem |-> f.mem, action |-> a, high |-> h]>>
            \in Seq(Request)
    BY <1>2, <2>1, <2>2, AtMostOneType, Zenon
  <2> QED BY <1>2, <2>3, Zenon DEF RuleRequests, h, a
<1>6. WorkflowRequests(f) \in Seq(Request)
  <2>1. 0 \in Int
    OBVIOUS
  <2> QED BY <1>2, <2>1, ActionsType, AtMostOneType, Zenon DEF WorkflowRequests
<1> QED BY <1>3, <1>4, <1>5, <1>6

LEMMA RequestsType ==
    ASSUME NEW in \in Inputs
    PROVE  Requests(learning_fill_target_key(in)) \in Seq(Request)
<1> DEFINE f == learning_fill_target_key(in)
<1>1. f \in Input
  BY InputsAssumption DEF learning_fill_target_key, Input
<1> HIDE DEF f
<1>2. /\ RerankerRequests(f) \in Seq(Request)
      /\ SupersedeRequests(f) \in Seq(Request)
      /\ RuleRequests(f) \in Seq(Request)
      /\ WorkflowRequests(f) \in Seq(Request)
  BY <1>1, PartsType
<1>3. \A s, t \in Seq(Request) : s \o t \in Seq(Request)
  BY ConcatProperties
<1>7. Requests(f) \in Seq(Request)
  BY <1>2, <1>3, Zenon DEF Requests
<1> QED BY <1>7 DEF f

-----------------------------------------------------------------------------
(* Types of the pieces that several actions share. *)

LEMMA ConfigType ==
    /\ learning_proposal_ttl_days \in Nat \ {0}
    /\ learning_max_commits_per_week \in Nat \ {0}
BY ConfigAssumption DEF learning_proposal_ttl_days, learning_max_commits_per_week

LEMMA ArchivedType ==
    ASSUME NEW row \in Row, NEW reason \in {"", "expired", "weekly_cap", "rejected"}
    PROVE  Archived(row, reason) \in Row
<1>1. "archived" \in {"absent", "pending", "committed", "archived"}
  OBVIOUS
<1> QED BY <1>1, Zenon DEF Archived, Row

LEMMA SweepType ==
    ASSUME proposals \in [Ids -> Row], ArchiveExpired
    PROVE  proposals' \in [Ids -> Row]
<1>1. \A i \in Ids : Archived(proposals[i], "expired") \in Row
  BY ArchivedType
<1>2. \A i \in Ids : Swept(i) \in Row
  BY <1>1 DEF Swept
<1> QED BY <1>2, Zenon DEF ArchiveExpired

LEMMA UpdateType ==
    ASSUME proposals \in [Ids -> Row], faults \in 0..MaxFaults,
           NEW i \in Ids, NEW row \in Row, UpdateRow(i, row)
    PROVE  proposals' \in [Ids -> Row] /\ faults' \in 0..MaxFaults
BY BoundsAssumption DEF UpdateRow, Fault

LEMMA Zero == 0 \in Int /\ 0 \in Nat
OBVIOUS

LEMMA RowType ==
    ASSUME NEW s \in Sinks, NEW k \in Text, NEW m \in Int, NEW a \in Action,
           NEW st \in {"absent", "pending", "committed", "archived"}, NEW n \in Nat,
           NEW e \in Int, NEW t \in Nat, NEW r \in {"", "expired", "weekly_cap", "rejected"}
    PROVE  [sink |-> s, key |-> k, mem |-> m, action |-> a, state |-> st, corr |-> n,
            expires |-> e, committedAt |-> t, reason |-> r] \in Row
BY Zenon DEF Row

LEMMA RowCorrType ==
    ASSUME NEW row \in Row, NEW n \in Nat
    PROVE  [row EXCEPT !.corr = n] \in Row
BY DEF Row

LEMMA NewRowType ==
    ASSUME NEW s \in Sinks, NEW k \in Text, NEW m \in Int, NEW a \in Action,
           clock \in 0..MaxClock
    PROVE  NewRow(s, k, m, a) \in Row
BY BoundsAssumption, ConfigType, InsertedAssumption DEF NewRow, Row

(* The part of TypeOK that is about the callers' frames. *)
FramesOK ==
    /\ pc \in [Callers -> Pc]
    /\ reqs \in [Callers -> Seq(Request)]
    /\ sig \in [Callers -> 0..MaxSignals]
    /\ pid \in [Callers -> -1..MaxProposals]
    /\ \A c \in Callers :
        /\ pc[c] \in Routing => reqs[c] # <<>>
        /\ reqs[c] # <<>> => sig[c] \in 1..signals
        /\ pc[c] \in Holding => pid[c] \in Ids

LEMMA NextRequestType ==
    ASSUME FramesOK, NEW c \in Callers, NextRequest(c), signals' = signals
    PROVE  FramesOK'
<1>1. \A s \in Seq(Request) : s # <<>> =>
        /\ Tail(s) \in Seq(Request)
        /\ (Tail(s) # <<>>) <=> Len(s) > 1
  OBVIOUS
<1>2. <<>> \in Seq(Request) /\ Len(<<>>) = 0
  OBVIOUS
<1> QED
  BY <1>1, <1>2, BoundsAssumption DEF FramesOK, NextRequest, Pc, Routing, Holding, Ids

LEMMA SettleType ==
    ASSUME FramesOK, NEW c \in Callers, NEW label \in Pc, Settle(c, label),
           signals' = signals, label \in Routing => pc[c] \in Routing, pc[c] \in Holding
    PROVE  FramesOK'
BY DEF FramesOK, Settle, Goto, Pc, Routing, Holding

(* The part of TypeOK that is about the store, the clock and the faults. *)
StoreOK ==
    /\ proposals \in [Ids -> Row]
    /\ evidence \in [Ids -> Evidence]
    /\ signals \in 0..MaxSignals
    /\ clock \in 0..MaxClock
    /\ faults \in 0..MaxFaults

(* The history of a row that the router inserts. *)
LEMMA NewEvidenceType ==
    ASSUME NEW s \in SignalIds, NEW high \in BOOLEAN, NEW unseen \in BOOLEAN
    PROVE  LET e == [NoEvidence EXCEPT !.signals = {s}, !.agree = {s}, !.high = high,
                                       !.unseen = unseen]
           IN  /\ e \in Evidence
               /\ e.signals = {s} /\ e.high = high /\ e.unseen = unseen
               /\ e.applies = 0 /\ e.unmarked = 0
BY DEF NoEvidence, Evidence

(* The history of a row, after the steps that only note what failed. *)
LEMMA CountType ==
    ASSUME StoreOK, NEW i \in Ids, NEW failed \in BOOLEAN,
           evidence' = [evidence EXCEPT ![i].uncounted = failed]
    PROVE  /\ evidence' \in [Ids -> Evidence]
           /\ evidence'[i] = [evidence[i] EXCEPT !.uncounted = failed]
           /\ \A j \in Ids : j # i => evidence'[j] = evidence[j]
<1>1. evidence[i] \in Evidence /\ evidence \in [Ids -> Evidence]
  BY DEF StoreOK
<1>2. [evidence[i] EXCEPT !.uncounted = failed] \in Evidence
  BY <1>1 DEF Evidence
<1>3. evidence' = [evidence EXCEPT ![i] = [evidence[i] EXCEPT !.uncounted = failed]]
  BY <1>1, Zenon
<1> QED BY <1>1, <1>2, <1>3

LEMMA LoseMarkType ==
    ASSUME StoreOK, NEW i \in Ids, LoseMark(i)
    PROVE  /\ evidence' \in [Ids -> Evidence]
           /\ evidence'[i] = [evidence[i] EXCEPT !.unmarked = @ + 1]
           /\ \A j \in Ids : j # i => evidence'[j] = evidence[j]
<1>1. evidence[i] \in Evidence /\ evidence \in [Ids -> Evidence]
  BY DEF StoreOK
<1>2. [evidence[i] EXCEPT !.unmarked = @ + 1] \in Evidence
  <2>1. evidence[i].unmarked \in Nat
    BY <1>1 DEF Evidence
  <2>2. evidence[i].unmarked + 1 \in Nat
    BY <2>1
  <2> QED BY <1>1, <2>2 DEF Evidence
<1>3. evidence' = [evidence EXCEPT ![i] = [evidence[i] EXCEPT !.unmarked = @ + 1]]
  BY <1>1, Zenon DEF LoseMark
<1> QED BY <1>1, <1>2, <1>3

LEMMA TypeParts == TypeOK <=> StoreOK /\ FramesOK
BY DEF TypeOK, StoreOK, FramesOK

LEMMA TypeInit == Init => TypeOK
<1> SUFFICES ASSUME Init PROVE TypeOK
  OBVIOUS
<1>1. NoRow \in Row
  <2>1. NoRow.action \in Action
    BY InputsAssumption, ActionType DEF NoRow
  <2>2. "rule" \in Sinks /\ "" \in Text
    BY InputsAssumption, Zenon DEF Sinks
  <2> QED BY <2>1, <2>2, Zero, RowType, Zenon DEF NoRow
<1>2. NoEvidence \in Evidence
  BY DEF NoEvidence, Evidence
<1> QED
  BY <1>1, <1>2, BoundsAssumption
  DEF Init, TypeOK, Pc, Routing, Holding

LEMMA TypeStep == TypeOK /\ [Next]_vars => TypeOK'
<1> SUFFICES ASSUME TypeOK, [Next]_vars PROVE StoreOK' /\ FramesOK'
  BY TypeParts DEF TypeOK, StoreOK, FramesOK
<1> USE TypeParts
<1>1. ASSUME NEW c \in Callers, RecordSignal(c) PROVE StoreOK' /\ FramesOK'
  <2> PICK in \in Inputs : RecordInput(c, in)
    BY <1>1 DEF RecordSignal
  <2>1. StoreOK'
    BY <1>1, SweepType, BoundsAssumption DEF StoreOK, RecordInput, Fault
  <2>2. FramesOK'
    <3> DEFINE queue == Requests(learning_fill_target_key(in))
    <3>1. queue \in Seq(Request)
      BY RequestsType
    <3> HIDE DEF queue
    <3>2. CASE /\ queue # <<>> /\ signals < MaxSignals /\ signals' = signals + 1
               /\ reqs' = [reqs EXCEPT ![c] = queue]
               /\ sig' = [sig EXCEPT ![c] = signals + 1] /\ Goto(c, "find")
      BY <1>1, <3>1, <3>2, BoundsAssumption
      DEF RecordInput, StoreOK, FramesOK, Goto, Pc, Routing, Holding
    <3>3. CASE UNCHANGED <<sig, reqs, pc>> /\ signals' \in {signals, signals + 1}
      BY <1>1, <3>3, BoundsAssumption
      DEF RecordInput, StoreOK, FramesOK, Routing, Holding
    <3> QED BY <3>2, <3>3 DEF queue, RecordInput
  <2> QED BY <2>1, <2>2
<1>2. ASSUME NEW c \in Callers, Find(c) PROVE StoreOK' /\ FramesOK'
  <2>1. StoreOK'
    BY <1>2, BoundsAssumption DEF Find, store, StoreOK, Fault
  <2>2. ASSUME NEW result \in {0, -1}, Found(c, result) PROVE FramesOK'
    <3>1. Goto(c, "insert") /\ pid' = [pid EXCEPT ![c] = result] /\ result \in -1..MaxProposals
      BY <2>2, BoundsAssumption DEF Found
    <3> QED BY <1>2, <2>1, <3>1 DEF Find, store, FramesOK, Goto, Pc, Routing, Holding
  <2>3. ASSUME NEW i \in Ids, Found(c, i) PROVE FramesOK'
    <3>1. Goto(c, "bump") /\ pid' = [pid EXCEPT ![c] = i] /\ i \in -1..MaxProposals
      BY <2>3, BoundsAssumption DEF Found, Ids
    <3> QED BY <1>2, <2>1, <3>1 DEF Find, store, FramesOK, Goto, Pc, Routing, Holding, Ids
  <2> QED BY <1>2, <2>1, <2>2, <2>3 DEF Find, FindPending
<1>3. ASSUME NEW c \in Callers, Bump(c) PROVE StoreOK' /\ FramesOK'
  <2>a. pc[c] \in Routing /\ pc[c] \in Holding
    BY <1>3 DEF Bump, Routing, Holding, Pc
  <2>b. pid[c] \in Ids /\ sig[c] \in 1..signals /\ signals \in 0..MaxSignals
    BY <2>a DEF FramesOK, StoreOK
  <2>0. pid[c] \in Ids /\ sig[c] \in SignalIds
    BY <2>b, BoundsAssumption DEF SignalIds
  <2>1. [proposals[pid[c]] EXCEPT !.corr = @ + 1] \in Row
    <3>1. proposals[pid[c]] \in Row
      BY <2>0 DEF StoreOK
    <3>a. proposals[pid[c]].corr \in Nat
      BY <3>1 DEF Row
    <3>2. proposals[pid[c]].corr + 1 \in Nat
      BY <3>a
    <3> QED BY <3>1, <3>2, RowCorrType, Zenon
  <2>2. proposals' \in [Ids -> Row] /\ faults' \in 0..MaxFaults
    BY <1>3, <2>0, <2>1, UpdateType DEF Bump, StoreOK
  <2>3. evidence' \in [Ids -> Evidence]
    BY <1>3, <2>0 DEF Bump, StoreOK, Evidence
  <2>4. FramesOK'
    BY <1>3, SettleType DEF Bump, Pc, Routing, Holding
  <2> QED BY <1>3, <2>2, <2>3, <2>4 DEF Bump, StoreOK
<1>4. ASSUME NEW c \in Callers, Recheck(c) PROVE StoreOK' /\ FramesOK'
  <2>1. StoreOK'
    BY <1>4, SweepType, BoundsAssumption DEF StoreOK, Recheck, Fault
  <2>2. FramesOK'
    BY <1>4, SettleType, NextRequestType DEF Recheck, Pc, Routing, Holding
  <2> QED BY <2>1, <2>2
<1>5. ASSUME NEW c \in Callers, Insert(c) PROVE StoreOK' /\ FramesOK'
  <2> DEFINE r == Head(reqs[c])
  <2>1. r \in Request /\ sig[c] \in SignalIds
    BY <1>5 DEF Insert, StoreOK, FramesOK, Routing, SignalIds
  <2>2. /\ NewRow(r.sink, r.key, r.mem, r.action) \in Row
        /\ [NoEvidence EXCEPT !.signals = {sig[c]}, !.agree = {sig[c]}, !.high = r.high,
                              !.unseen = pid[c] < 0] \in Evidence
    <3>1. r.high \in BOOLEAN /\ (pid[c] < 0) \in BOOLEAN
      BY <2>1 DEF Request
    <3>2. [NoEvidence EXCEPT !.signals = {sig[c]}, !.agree = {sig[c]}, !.high = r.high,
                             !.unseen = pid[c] < 0] \in Evidence
      BY <2>1, <3>1, NewEvidenceType, Zenon
    <3> QED BY <2>1, <3>2, NewRowType DEF Request, StoreOK
  <2> HIDE DEF r
  <2>3. CASE NextRequest(c) /\ (faults' = faults \/ Fault("failed_insert"))
             /\ UNCHANGED <<proposals, evidence>>
    BY <1>5, <2>3, NextRequestType, BoundsAssumption DEF Insert, StoreOK, Fault
  <2>4. CASE \E i \in Ids :
            /\ proposals' = [proposals EXCEPT ![i] = NewRow(r.sink, r.key, r.mem, r.action)]
            /\ evidence' = [evidence EXCEPT ![i] =
                    [NoEvidence EXCEPT !.signals = {sig[c]}, !.agree = {sig[c]},
                                       !.high = r.high, !.unseen = pid[c] < 0]]
            /\ \/ NextRequest(c)
               \/ /\ Goto(c, "get") /\ pid' = [pid EXCEPT ![c] = i]
                  /\ UNCHANGED <<reqs, sig>>
            /\ UNCHANGED faults
    <3> PICK i \in Ids : <2>4!1!(i)
      BY <2>4
    <3>1. StoreOK'
      BY <1>5, <2>2 DEF Insert, StoreOK
    <3>2. FramesOK'
      <4>1. CASE NextRequest(c)
        BY <1>5, <4>1, NextRequestType DEF Insert
      <4>2. CASE Goto(c, "get") /\ pid' = [pid EXCEPT ![c] = i] /\ UNCHANGED <<reqs, sig>>
        BY <1>5, <4>2 DEF Insert, Goto, FramesOK, Pc, Routing, Holding, Ids
      <4> QED BY <4>1, <4>2
    <3> QED BY <3>1, <3>2
  <2> QED BY <1>5, <2>3, <2>4 DEF Insert, r
<1>6. ASSUME NEW c \in Callers, Get(c) PROVE StoreOK' /\ FramesOK'
  <2>1. StoreOK'
    BY <1>6, SweepType, BoundsAssumption DEF StoreOK, Get, Fault
  <2>2. FramesOK'
    BY <1>6, SettleType, NextRequestType DEF Get, Pc, Routing, Holding
  <2> QED BY <2>1, <2>2
<1>7. ASSUME NEW c \in Callers, CheckCap(c) PROVE StoreOK' /\ FramesOK'
  <2>1. PICK label \in {"cap_archive", "apply"} : Settle(c, label)
    BY <1>7 DEF CheckCap
  <2>2. StoreOK'
    <3>1. pid[c] \in Ids
      BY <1>7 DEF CheckCap, FramesOK, Holding, Pc
    <3>2. evidence' \in [Ids -> Evidence]
      <4>1. CASE evidence' = evidence
        BY <4>1 DEF StoreOK
      <4>2. CASE \E failed \in BOOLEAN :
                    evidence' = [evidence EXCEPT ![pid[c]].uncounted = failed]
        BY <3>1, <4>2, CountType
      <4> QED BY <1>7, <4>1, <4>2 DEF CheckCap
    <3> QED BY <1>7, <3>2, BoundsAssumption DEF CheckCap, StoreOK, Fault
  <2> QED BY <1>7, <2>1, <2>2, SettleType DEF CheckCap, Pc, Routing, Holding
<1>8. ASSUME NEW c \in Callers, NEW reason \in {"weekly_cap", "rejected"},
             pc[c] \in {"cap_archive", "reject"},
             UpdateRow(pid[c], Archived(proposals[pid[c]], reason)),
             Settle(c, "final"), UNCHANGED <<evidence, signals, clock>>
      PROVE  StoreOK' /\ FramesOK'
  <2>0. pid[c] \in Ids
    BY <1>8 DEF FramesOK, Holding, Pc
  <2>1. Archived(proposals[pid[c]], reason) \in Row
    BY <2>0, ArchivedType DEF StoreOK
  <2>2. StoreOK'
    BY <1>8, <2>0, <2>1, UpdateType DEF StoreOK
  <2>3. FramesOK'
    BY <1>8, SettleType DEF Pc, Routing, Holding
  <2> QED BY <2>2, <2>3
<1>9. ASSUME NEW c \in Callers, ApplySink(c) PROVE StoreOK' /\ FramesOK'
  <2>0. pid[c] \in Ids
    BY <1>9 DEF ApplySink, FramesOK, Holding, Pc
  <2>1. StoreOK'
    BY <1>9, <2>0, BoundsAssumption DEF ApplySink, StoreOK, Evidence, Fault
  <2>2. FramesOK'
    BY <1>9, SettleType, NextRequestType DEF ApplySink, Pc, Routing, Holding
  <2> QED BY <2>1, <2>2
<1>10. ASSUME NEW c \in Callers, MarkCommitted(c) PROVE StoreOK' /\ FramesOK'
  <2>0. pid[c] \in Ids
    BY <1>10 DEF MarkCommitted, FramesOK, Holding, Pc
  <2>1. [proposals[pid[c]] EXCEPT !.state = "committed", !.committedAt = clock] \in Row
    <3>1. proposals[pid[c]] \in Row /\ clock \in Nat
      BY <2>0, BoundsAssumption DEF StoreOK
    <3> QED BY <3>1 DEF Row
  <2>2. evidence' \in [Ids -> Evidence]
    BY <1>10, <2>0, LoseMarkType DEF MarkCommitted, StoreOK
  <2> QED BY <1>10, <2>0, <2>1, <2>2, UpdateType, SettleType
          DEF MarkCommitted, StoreOK, Pc, Routing, Holding
<1>11. ASSUME NEW c \in Callers, Final(c) PROVE StoreOK' /\ FramesOK'
  <2>1. StoreOK'
    BY <1>11, SweepType, BoundsAssumption DEF Final, StoreOK, Fault
  <2> QED BY <1>11, <2>1, NextRequestType DEF Final
<1>12. ASSUME NEW c \in Callers, AcceptProposal(c) PROVE StoreOK' /\ FramesOK'
  <2>1. StoreOK'
    <3> PICK i \in Ids : evidence' = [evidence EXCEPT ![i].accepted = TRUE]
      BY <1>12 DEF AcceptProposal
    <3>1. evidence[i] \in Evidence
      BY DEF StoreOK
    <3>2. [evidence[i] EXCEPT !.accepted = TRUE] \in Evidence
      BY <3>1 DEF Evidence
    <3>3. evidence' = [evidence EXCEPT ![i] = [evidence[i] EXCEPT !.accepted = TRUE]]
      BY Zenon DEF StoreOK
    <3>4. evidence' \in [Ids -> Evidence]
      BY <3>2, <3>3 DEF StoreOK
    <3> QED BY <1>12, <3>4, SweepType DEF AcceptProposal, StoreOK
  <2>2. FramesOK'
    BY <1>12 DEF AcceptProposal, Goto, FramesOK, Pc, Routing, Holding, Ids
  <2> QED BY <2>1, <2>2
<1>13. ASSUME NEW c \in Callers, RejectProposal(c) PROVE StoreOK' /\ FramesOK'
  <2>1. StoreOK'
    BY <1>13, SweepType DEF RejectProposal, StoreOK
  <2>2. FramesOK'
    BY <1>13 DEF RejectProposal, Goto, FramesOK, Pc, Routing, Holding, Ids
  <2> QED BY <2>1, <2>2
<1>14. ASSUME NEW c \in Callers, ListProposals(c) PROVE StoreOK' /\ FramesOK'
  BY <1>14, SweepType DEF ListProposals, calls, StoreOK, FramesOK
<1>15. ASSUME NEW c \in Callers, Crash(c) PROVE StoreOK' /\ FramesOK'
  <2>1. pc[c] = "mark" => pid[c] \in Ids
    BY DEF FramesOK, Holding, Pc
  <2>2. evidence' \in [Ids -> Evidence]
    BY <1>15, <2>1, LoseMarkType DEF Crash, StoreOK
  <2> QED BY <1>15, <2>2, BoundsAssumption
          DEF Crash, Fault, StoreOK, FramesOK, Pc, Routing, Holding
<1>16. CASE MineArtifact
  <2> PICK i \in Ids, a \in MinedActions : MineArtifact!1!(i, a)
    BY <1>16 DEF MineArtifact
  <2>1. NewRow("artifact", "", 0, a) \in Row /\ NoEvidence \in Evidence
    <3>1. "artifact" \in Sinks /\ "" \in Text /\ a \in Action
      BY InputsAssumption, Zenon DEF Sinks
    <3>2. clock \in 0..MaxClock
      BY Zenon DEF StoreOK
    <3>3. NoEvidence \in Evidence
      BY DEF NoEvidence, Evidence
    <3> QED BY Zero, <3>1, <3>2, <3>3, NewRowType, Zenon
  <2> QED BY <1>16, <2>1 DEF MineArtifact, calls, StoreOK, FramesOK
<1>17. CASE Tick
  BY <1>17, BoundsAssumption DEF Tick, store, calls, StoreOK, FramesOK
<1>18. CASE UNCHANGED vars
  BY <1>18 DEF vars, StoreOK, FramesOK
<1>19. ASSUME NEW c \in Callers, CapArchive(c) PROVE StoreOK' /\ FramesOK'
  BY <1>8, <1>19 DEF CapArchive
<1>20. ASSUME NEW c \in Callers, RejectArchive(c) PROVE StoreOK' /\ FramesOK'
  BY <1>8, <1>20 DEF RejectArchive
<1> QED
  BY <1>1, <1>2, <1>3, <1>4, <1>5, <1>6, <1>7, <1>9, <1>10, <1>11, <1>12, <1>13,
     <1>14, <1>15, <1>16, <1>17, <1>18, <1>19, <1>20
  DEF Next, Call, Step

(* Type correctness, and with it that every read of a request, a signal or a *)
(* proposal in the router is of one that exists.                             *)
THEOREM TypeCorrect == Spec => []TypeOK
BY TypeInit, TypeStep, PTL DEF Spec

-----------------------------------------------------------------------------
(* The requests of one signal go to different sinks. *)

WellRouted(s, S) ==
    \A n \in 1..Len(s) :
        /\ s[n].sink \in S
        /\ s[n].sink # "artifact"
        /\ s[n].high => s[n].sink = "rule" /\ s[n].action.verb # CorrectionReason
        /\ \A m \in 1..Len(s) : m # n => s[m].sink # s[n].sink

LEMMA ConcatWellRouted ==
    ASSUME NEW s \in Seq(Request), NEW t \in Seq(Request), NEW S, NEW T,
           WellRouted(s, S), WellRouted(t, T), S \cap T = {}
    PROVE  WellRouted(s \o t, S \cup T)
<1> DEFINE u == s \o t
<1>1. /\ Len(u) = Len(s) + Len(t) /\ Len(s) \in Nat /\ Len(t) \in Nat
      /\ \A n \in 1..Len(s) : u[n] = s[n]
      /\ \A n \in Len(s)+1..Len(s)+Len(t) : u[n] = t[n - Len(s)]
  BY ConcatProperties
<1> HIDE DEF u
<1>2. ASSUME NEW n \in 1..Len(u)
      PROVE  \/ n \in 1..Len(s) /\ u[n] = s[n]
             \/ n - Len(s) \in 1..Len(t) /\ u[n] = t[n - Len(s)]
  BY <1>1
<1>3. ASSUME NEW n \in 1..Len(u)
      PROVE  /\ u[n].sink \in S \cup T
             /\ u[n].sink # "artifact"
             /\ u[n].high => u[n].sink = "rule" /\ u[n].action.verb # CorrectionReason
  BY <1>2 DEF WellRouted
<1>4. ASSUME NEW n \in 1..Len(u), NEW m \in 1..Len(u), m # n
      PROVE  u[m].sink # u[n].sink
  <2>1. CASE u[n] = s[n] /\ u[m] = s[m] /\ n \in 1..Len(s) /\ m \in 1..Len(s)
    BY <1>4, <2>1 DEF WellRouted
  <2>2. CASE /\ u[n] = t[n - Len(s)] /\ n - Len(s) \in 1..Len(t)
             /\ u[m] = t[m - Len(s)] /\ m - Len(s) \in 1..Len(t)
    <3>1. n - Len(s) # m - Len(s)
      BY <1>1, <1>4
    <3> QED BY <2>2, <3>1 DEF WellRouted
  <2>3. CASE u[n] = s[n] /\ n \in 1..Len(s) /\ u[m] = t[m - Len(s)] /\ m - Len(s) \in 1..Len(t)
    BY <2>3 DEF WellRouted
  <2>4. CASE u[m] = s[m] /\ m \in 1..Len(s) /\ u[n] = t[n - Len(s)] /\ n - Len(s) \in 1..Len(t)
    BY <2>4 DEF WellRouted
  <2> QED BY <1>2, <2>1, <2>2, <2>3, <2>4
<1>5. WellRouted(u, S \cup T)
  BY <1>3, <1>4 DEF WellRouted
<1> QED BY <1>5 DEF u

LEMMA OneWellRouted ==
    ASSUME NEW s, NEW k, NEW m, NEW a, NEW h, s # "artifact",
           h => s = "rule" /\ a.verb # CorrectionReason
    PROVE  /\ WellRouted(<<[sink |-> s, key |-> k, mem |-> m, action |-> a, high |-> h]>>, {s})
           /\ WellRouted(<<>>, {s})
BY DEF WellRouted

LEMMA RequestsWellRouted ==
    ASSUME NEW in \in Inputs
    PROVE  WellRouted(Requests(learning_fill_target_key(in)), Sinks)
<1> DEFINE f == learning_fill_target_key(in)
<1>1. f \in Input
  BY InputsAssumption DEF learning_fill_target_key, Input
<1> HIDE DEF f
<1>2. WellRouted(RerankerRequests(f), {"reranker"})
  <2>1. ~FALSE /\ "reranker" # "artifact"
    OBVIOUS
  <2> QED BY <2>1, OneWellRouted, Zenon DEF RerankerRequests
<1>3. WellRouted(SupersedeRequests(f), {"supersede"})
  <2>1. ~FALSE /\ "supersede" # "artifact"
    OBVIOUS
  <2> QED BY <2>1, OneWellRouted, Zenon DEF SupersedeRequests
<1>4. WellRouted(RuleRequests(f), {"rule"})
  <2>1. StatedRule(f).verb # CorrectionReason
    BY DEF StatedRule, learning_make_rule_action, CorrectionReason
  <2> DEFINE h == f.type # "correction" /\ (f.high \/ f.type = "mark_rule")
             a == IF f.type = "correction" THEN CorrectionRule(f) ELSE StatedRule(f)
  <2>2. h => a.verb # CorrectionReason
    BY <2>1
  <2>3. "rule" # "artifact"
    OBVIOUS
  <2> HIDE DEF h, a
  <2>4. /\ WellRouted(<<[sink |-> "rule", key |-> f.key, mem |-> f.mem, action |-> a,
                         high |-> h]>>, {"rule"})
        /\ WellRouted(<<>>, {"rule"})
    BY <2>2, <2>3, OneWellRouted, Zenon
  <2> QED BY <2>4, Zenon DEF RuleRequests, h, a
<1>5. WellRouted(WorkflowRequests(f), {"workflow"})
  <2>1. ~FALSE /\ "workflow" # "artifact"
    OBVIOUS
  <2> QED BY <2>1, OneWellRouted, Zenon DEF WorkflowRequests
<1>6. /\ RerankerRequests(f) \in Seq(Request)
      /\ SupersedeRequests(f) \in Seq(Request)
      /\ RuleRequests(f) \in Seq(Request)
      /\ WorkflowRequests(f) \in Seq(Request)
  BY <1>1, PartsType
<1> DEFINE two == RerankerRequests(f) \o SupersedeRequests(f)
           three == two \o RuleRequests(f)
<1>7. two \in Seq(Request) /\ WellRouted(two, {"reranker", "supersede"})
  <2>1. {"reranker"} \cap {"supersede"} = {} /\ {"reranker"} \cup {"supersede"} = {"reranker", "supersede"}
    OBVIOUS
  <2>2. WellRouted(two, {"reranker"} \cup {"supersede"})
    BY <1>2, <1>3, <1>6, <2>1, ConcatWellRouted, Zenon
  <2>3. two \in Seq(Request)
    BY <1>2, <1>6, ConcatProperties
  <2> QED BY <2>1, <2>2, <2>3, Zenon
<1> HIDE DEF two
<1>8. three \in Seq(Request) /\ WellRouted(three, {"reranker", "supersede", "rule"})
  <2>1. {"reranker", "supersede"} \cap {"rule"} = {} /\ {"reranker", "supersede"} \cup {"rule"} = {"reranker", "supersede", "rule"}
    OBVIOUS
  <2>2. WellRouted(three, {"reranker", "supersede"} \cup {"rule"})
    BY <1>7, <1>4, <1>6, <2>1, ConcatWellRouted, Zenon
  <2>3. three \in Seq(Request)
    BY <1>7, <1>6, ConcatProperties
  <2> QED BY <2>1, <2>2, <2>3, Zenon
<1> HIDE DEF three
<1>9. WellRouted(three \o WorkflowRequests(f), {"reranker", "supersede", "rule", "workflow"})
  <2>1. WellRouted(three \o WorkflowRequests(f),
                   {"reranker", "supersede", "rule"} \cup {"workflow"})
    <3>1. {"reranker", "supersede", "rule"} \cap {"workflow"} = {}
      OBVIOUS
    <3> QED BY <1>5, <1>6, <1>8, <3>1, ConcatWellRouted, Zenon
  <2>2. {"reranker", "supersede", "rule"} \cup {"workflow"}
            = {"reranker", "supersede", "rule", "workflow"}
    OBVIOUS
  <2> QED BY <2>1, <2>2, Zenon
<1> QED BY <1>9 DEF Requests, two, three, f, WellRouted, Sinks

-----------------------------------------------------------------------------
(* The gate.  The inductive invariant is GateInv of LearningRouter. *)

(* What every step does to the store: rows and their evidence only grow. *)
Grows ==
    \A i \in Ids : proposals[i].state # "absent" =>
        /\ proposals'[i].state # "absent"
        /\ proposals'[i].sink = proposals[i].sink
        /\ proposals'[i].action = proposals[i].action
        /\ evidence[i].signals \subseteq evidence'[i].signals
        /\ evidence[i].accepted => evidence'[i].accepted
        /\ evidence[i].high => evidence'[i].high
        /\ evidence[i].applies > 0 => evidence'[i].applies > 0

(* What backs a row is kept: at most what failed for it is noted. *)
EvidenceKept(i) ==
    /\ evidence'[i].signals = evidence[i].signals
    /\ evidence'[i].high = evidence[i].high
    /\ evidence'[i].accepted = evidence[i].accepted
    /\ evidence'[i].applies = evidence[i].applies

(* What most steps do to it: they archive some rows. *)
Quiet ==
    /\ \A i \in Ids : EvidenceKept(i)
    /\ \A i \in Ids :
        /\ proposals'[i].sink = proposals[i].sink
        /\ proposals'[i].action = proposals[i].action
        /\ proposals'[i].corr = proposals[i].corr
        /\ \/ proposals'[i].state = proposals[i].state
           \/ proposals[i].state # "absent" /\ proposals'[i].state = "archived"

(* A step of c leaves the other frames alone, and gives no row a signal other *)
(* than the one c is routing.                                                 *)
FramesKept(c) ==
    \A d \in Callers \ {c} :
        pc'[d] = pc[d] /\ reqs'[d] = reqs[d] /\ sig'[d] = sig[d] /\ pid'[d] = pid[d]

SignalsAdded(c) ==
    \A i \in Ids : \A s \in evidence'[i].signals :
        s \in evidence[i].signals \/ (reqs[c] # <<>> /\ s = sig[c])

CallerOK(c) == RequestsOK(c) /\ Unspent(c) /\ HoldingOK(c)

LEMMA CountKeeps ==
    ASSUME TypeOK, NEW i \in Ids, NEW failed \in BOOLEAN,
           evidence' = [evidence EXCEPT ![i].uncounted = failed]
    PROVE  \A j \in Ids : EvidenceKept(j)
<1>1. evidence[i] \in Evidence /\ StoreOK
  BY DEF TypeOK, StoreOK
<1> QED BY <1>1, CountType DEF EvidenceKept, Evidence

LEMMA LoseMarkKeeps ==
    ASSUME TypeOK, NEW i \in Ids, LoseMark(i)
    PROVE  \A j \in Ids : EvidenceKept(j)
<1>1. evidence[i] \in Evidence /\ StoreOK
  BY DEF TypeOK, StoreOK
<1> QED BY <1>1, LoseMarkType DEF EvidenceKept, Evidence

LEMMA BackedStable ==
    ASSUME Grows, NEW i \in Ids, proposals[i].state # "absent", Backed(i)
    PROVE  Backed(i)'
BY DEF Grows, Backed

LEMMA QuietGrows ==
    ASSUME Quiet
    PROVE  Grows /\ (\A c \in Callers : SignalsAdded(c))
BY DEF Quiet, EvidenceKept, Grows, SignalsAdded

LEMMA QuietRows ==
    ASSUME TypeOK, Quiet, \A i \in Ids : RowOK(i), signals' >= signals, signals' \in Nat
    PROVE  \A i \in Ids : RowOK(i)'
<1> SUFFICES ASSUME NEW i \in Ids PROVE RowOK(i)'
  OBVIOUS
<1>1. RowOK(i)
  OBVIOUS
<1>2. /\ EvidenceKept(i) /\ proposals'[i].sink = proposals[i].sink
      /\ proposals'[i].action = proposals[i].action /\ proposals'[i].corr = proposals[i].corr
      /\ \/ proposals'[i].state = proposals[i].state
         \/ proposals[i].state # "absent" /\ proposals'[i].state = "archived"
  BY DEF Quiet
<1>3. Backed(i)' <=> Backed(i)
  BY <1>2 DEF Backed, EvidenceKept
<1>4. 1..signals \subseteq 1..signals'
  BY DEF TypeOK
<1> QED BY <1>1, <1>2, <1>3, <1>4 DEF RowOK, EvidenceKept

LEMMA SweepRows ==
    ASSUME proposals \in [Ids -> Row], ArchiveExpired
    PROVE  \A i \in Ids :
            /\ proposals'[i].sink = proposals[i].sink
            /\ proposals'[i].action = proposals[i].action
            /\ proposals'[i].corr = proposals[i].corr
            /\ \/ proposals'[i].state = proposals[i].state
               \/ proposals[i].state # "absent" /\ proposals'[i].state = "archived"
BY DEF ArchiveExpired, Swept, Archived, Row

LEMMA SweepQuiet ==
    ASSUME proposals \in [Ids -> Row], ArchiveExpired, evidence' = evidence
    PROVE  Quiet
BY SweepRows DEF Quiet, EvidenceKept

(* The callers that do not move keep their part of the invariant. *)
LEMMA OthersOK ==
    ASSUME TypeOK, GateInv, NEW c \in Callers, FramesKept(c), Grows, SignalsAdded(c),
           NEW d \in Callers, d # c
    PROVE  CallerOK(d)'
<1> USE DEF GateInv
<1>1. pc'[d] = pc[d] /\ reqs'[d] = reqs[d] /\ sig'[d] = sig[d] /\ pid'[d] = pid[d]
  BY DEF FramesKept
<1>2. RequestsOK(d)'
  BY <1>1 DEF RequestsOK
<1>3. Unspent(d)'
  <2> SUFFICES ASSUME NEW n \in 1..Len(reqs[d]), NEW i \in Ids,
                      n > 1 \/ pc[d] \in {"find", "bump", "insert"},
                      proposals'[i].sink = reqs[d][n].sink,
                      sig[d] \in evidence'[i].signals
               PROVE  FALSE
    BY <1>1 DEF Unspent
  <2>1. reqs[d] # <<>>
    BY DEF TypeOK
  <2>2. sig[d] \in evidence[i].signals
    BY <2>1 DEF SignalsAdded, DistinctSignals
  <2>3. proposals'[i].sink = proposals[i].sink
    BY <2>2 DEF RowOK, Grows
  <2> QED BY <2>2, <2>3 DEF Unspent
<1>4. HoldingOK(d)'
  <2>1. pc[d] \in Holding => pid[d] \in Ids /\ proposals[pid[d]].state # "absent"
    BY DEF TypeOK, HoldingOK
  <2>2. {"bump", "get", "cap", "apply", "mark"} \subseteq Holding
    BY DEF Holding, Pc
  <2>3. pc[d] \in Holding => /\ proposals'[pid[d]].state # "absent"
                             /\ proposals'[pid[d]].sink = proposals[pid[d]].sink
                             /\ evidence[pid[d]].applies > 0 => evidence'[pid[d]].applies > 0
    BY <2>1 DEF Grows
  <2>4. pc[d] \in {"get", "cap", "apply", "mark"} => Backed(pid[d])'
    <3> SUFFICES ASSUME pc[d] \in {"get", "cap", "apply", "mark"} PROVE Backed(pid[d])'
      OBVIOUS
    <3>1. Backed(pid[d]) /\ pid[d] \in Ids /\ proposals[pid[d]].state # "absent"
      BY <2>1, <2>2 DEF HoldingOK
    <3>2. \A i \in Ids : proposals[i].state # "absent" /\ Backed(i) =>
            Backed(i)'
      BY BackedStable
    <3> QED BY <1>1, <3>1, <3>2 DEF Backed
  <2> QED BY <1>1, <2>2, <2>3, <2>4 DEF HoldingOK, Backed
<1> QED BY <1>2, <1>3, <1>4 DEF CallerOK

(* A step of c gives the signal it routes only to rows of its current sink. *)
AtHead(c) ==
    \A i \in Ids : \A s \in evidence'[i].signals :
        \/ s \in evidence[i].signals
        \/ reqs[c] # <<>> /\ s = sig[c] /\ proposals'[i].sink = reqs[c][1].sink

LEMMA QuietAtHead ==
    ASSUME Quiet, NEW c \in Callers PROVE Grows /\ AtHead(c)
BY QuietGrows DEF Quiet, EvidenceKept, AtHead

(* So the requests that c has not come to yet remain unspent. *)
LEMMA LaterUnspent ==
    ASSUME TypeOK, GateInv, NEW c \in Callers, Grows, AtHead(c),
           NEW n \in 1..Len(reqs[c]), n > 1, NEW i \in Ids,
           proposals'[i].sink = reqs[c][n].sink
    PROVE  sig[c] \notin evidence'[i].signals
<1> USE DEF GateInv
<1>1. SUFFICES ASSUME sig[c] \in evidence'[i].signals PROVE FALSE
  OBVIOUS
<1>2. 1 \in 1..Len(reqs[c]) /\ n # 1
  BY DEF TypeOK
<1>3. reqs[c][n].sink # reqs[c][1].sink
  BY <1>2 DEF RequestsOK
<1>4. sig[c] \in evidence[i].signals
  BY <1>1, <1>3 DEF AtHead
<1>5. proposals'[i].sink = proposals[i].sink
  BY <1>4 DEF RowOK, Grows
<1> QED BY <1>4, <1>5 DEF Unspent

LEMMA NextRequestGate ==
    ASSUME TypeOK, GateInv, NEW c \in Callers, NextRequest(c), Grows, AtHead(c)
    PROVE  FramesKept(c) /\ CallerOK(c)' /\ DistinctSignals'
<1> USE DEF GateInv
<1>1. FramesKept(c)
  BY DEF NextRequest, FramesKept, TypeOK
<1>2. CASE reqs[c] = <<>>
  <2>1. reqs'[c] = <<>> /\ pc'[c] = "idle"
    BY <1>2 DEF NextRequest, TypeOK
  <2>2. CallerOK(c)'
    BY <2>1 DEF CallerOK, RequestsOK, Unspent, HoldingOK, Holding, Pc
  <2>3. DistinctSignals'
    BY <1>1, <2>1 DEF DistinctSignals, FramesKept
  <2> QED BY <1>1, <2>2, <2>3
<1>3. CASE reqs[c] # <<>>
  <2>1. /\ reqs'[c] = Tail(reqs[c]) /\ reqs[c] \in Seq(Request)
        /\ pc'[c] = IF Len(reqs[c]) > 1 THEN "find" ELSE "idle"
        /\ sig'[c] = IF Len(reqs[c]) > 1 THEN sig[c] ELSE 0
    BY <1>3 DEF NextRequest, TypeOK
  <2>2. /\ Len(reqs'[c]) = Len(reqs[c]) - 1 /\ Len(reqs[c]) \in Nat
        /\ \A n \in 1..Len(reqs'[c]) :
              n + 1 \in 1..Len(reqs[c]) /\ n + 1 > 1 /\ reqs'[c][n] = reqs[c][n + 1]
    BY <1>3, <2>1
  <2>3. RequestsOK(c)'
    <3> SUFFICES ASSUME NEW n \in 1..Len(reqs'[c])
                 PROVE  /\ reqs'[c][n].sink # "artifact"
                        /\ reqs'[c][n].high => /\ reqs'[c][n].sink = "rule"
                                               /\ reqs'[c][n].action.verb # CorrectionReason
                        /\ \A m \in 1..Len(reqs'[c]) :
                                m # n => reqs'[c][m].sink # reqs'[c][n].sink
      BY DEF RequestsOK
    <3>1. /\ n + 1 \in 1..Len(reqs[c]) /\ reqs'[c][n] = reqs[c][n + 1]
          /\ reqs[c][n + 1].sink # "artifact"
          /\ reqs[c][n + 1].high => /\ reqs[c][n + 1].sink = "rule"
                                    /\ reqs[c][n + 1].action.verb # CorrectionReason
      BY <2>2 DEF RequestsOK
    <3>2. ASSUME NEW m \in 1..Len(reqs'[c]), m # n
          PROVE  reqs'[c][m].sink # reqs'[c][n].sink
      <4>1. /\ m + 1 \in 1..Len(reqs[c]) /\ reqs'[c][m] = reqs[c][m + 1]
            /\ m + 1 # n + 1
        BY <2>2, <3>2
      <4> QED BY <3>1, <4>1 DEF RequestsOK
    <3> QED BY <3>1, <3>2
  <2>4. Unspent(c)'
    <3> SUFFICES ASSUME NEW n \in 1..Len(reqs'[c]), NEW i \in Ids,
                        proposals'[i].sink = reqs'[c][n].sink
                 PROVE  sig'[c] \notin evidence'[i].signals
      BY DEF Unspent
    <3>1. Len(reqs[c]) > 1
      BY <2>2
    <3>2. sig[c] \notin evidence'[i].signals
      BY <2>2, LaterUnspent
    <3> QED BY <2>1, <3>1, <3>2
  <2>5. HoldingOK(c)'
    BY <2>1 DEF HoldingOK, Holding, Pc
  <2>6. DistinctSignals'
    <3>1. reqs'[c] # <<>> => sig'[c] = sig[c]
      BY <2>1, <2>2
    <3> QED BY <1>1, <1>3, <3>1 DEF DistinctSignals, FramesKept
  <2> QED BY <1>1, <2>3, <2>4, <2>5, <2>6 DEF CallerOK
<1> QED BY <1>2, <1>3

LEMMA SettleGate ==
    ASSUME TypeOK, GateInv, NEW c \in Callers, NEW label \in Holding \ {"bump"},
           pc[c] \in Holding, Settle(c, label), Grows, AtHead(c),
           label \in {"get", "cap", "apply", "mark"} => Backed(pid[c])',
           label = "mark" => evidence'[pid[c]].applies > 0
    PROVE  FramesKept(c) /\ CallerOK(c)' /\ DistinctSignals'
<1> USE DEF GateInv
<1>1. /\ pc'[c] = label /\ reqs' = reqs /\ sig' = sig /\ pid' = pid
      /\ pid[c] \in Ids /\ proposals[pid[c]].state # "absent"
  BY DEF Settle, Goto, TypeOK, HoldingOK
<1>2. FramesKept(c)
  BY DEF Settle, Goto, FramesKept, TypeOK
<1>3. RequestsOK(c)' /\ DistinctSignals'
  BY <1>1 DEF RequestsOK, DistinctSignals
<1>4. Unspent(c)'
  <2>1. label \notin {"find", "bump", "insert"}
    BY DEF Holding, Pc
  <2> QED BY <1>1, <2>1, LaterUnspent DEF Unspent
<1>5. HoldingOK(c)'
  <2>1. proposals'[pid[c]].state # "absent"
    BY <1>1 DEF Grows
  <2> QED BY <1>1, <2>1 DEF HoldingOK, Backed
<1> QED BY <1>2, <1>3, <1>4, <1>5 DEF CallerOK

LEMMA Assemble ==
    ASSUME TypeOK, GateInv, NEW c \in Callers, FramesKept(c), Grows, AtHead(c),
           CallerOK(c)', DistinctSignals', \A i \in Ids : RowOK(i)'
    PROVE  GateInv'
<1>1. SignalsAdded(c)
  BY DEF AtHead, SignalsAdded
<1>2. \A d \in Callers : d # c => CallerOK(d)'
  BY <1>1, OthersOK
<1>3. \A d \in Callers : CallerOK(d)'
  BY <1>2
<1> QED BY <1>3 DEF GateInv, CallerOK

(* Steps that only sweep, or archive a row. *)
LEMMA QuietStep ==
    ASSUME TypeOK, GateInv, NEW c \in Callers, Quiet, FramesKept(c), CallerOK(c)',
           DistinctSignals', signals' >= signals, signals' \in Nat
    PROVE  GateInv'
<1>1. \A i \in Ids : RowOK(i)'
  BY QuietRows DEF GateInv
<1>2. Grows /\ AtHead(c)
  BY QuietAtHead
<1> QED BY <1>1, <1>2, Assemble

LEMMA QuietNextRequest ==
    ASSUME TypeOK, GateInv, NEW c \in Callers, Quiet, NextRequest(c), signals' = signals
    PROVE  GateInv'
<1>1. Grows /\ AtHead(c)
  BY QuietAtHead
<1>2. signals' >= signals /\ signals' \in Nat
  BY BoundsAssumption DEF TypeOK
<1> QED BY <1>1, <1>2, NextRequestGate, QuietStep

LEMMA QuietSettle ==
    ASSUME TypeOK, GateInv, NEW c \in Callers, Quiet, NEW label \in Holding \ {"bump"},
           pc[c] \in Holding, Settle(c, label), signals' = signals,
           label \in {"get", "cap", "apply"} => Backed(pid[c]), label # "mark"
    PROVE  GateInv'
<1>1. Grows /\ AtHead(c)
  BY QuietAtHead
<1>2. signals' >= signals /\ signals' \in Nat
  BY BoundsAssumption DEF TypeOK
<1>3. pid[c] \in Ids /\ proposals[pid[c]].state # "absent" /\ pid' = pid
  BY DEF TypeOK, GateInv, HoldingOK, Settle
<1>4. ASSUME Backed(pid[c]) PROVE Backed(pid[c])'
  <2>1. \A i \in Ids : proposals[i].state # "absent" /\ Backed(i) => Backed(i)'
    BY <1>1, BackedStable
  <2> QED BY <1>3, <1>4, <2>1 DEF Backed
<1>5. FramesKept(c) /\ CallerOK(c)' /\ DistinctSignals'
  BY <1>1, <1>4, SettleGate
<1> QED BY <1>2, <1>5, QuietStep

LEMMA UpdateQuiet ==
    ASSUME TypeOK, GateInv, NEW c \in Callers, pc[c] \in Holding,
           NEW reason, UpdateRow(pid[c], Archived(proposals[pid[c]], reason)),
           evidence' = evidence
    PROVE  Quiet
<1>1. pid[c] \in Ids /\ proposals[pid[c]].state # "absent" /\ proposals \in [Ids -> Row]
  BY DEF TypeOK, GateInv, HoldingOK
<1> DEFINE row == Archived(proposals[pid[c]], reason)
<1>2. /\ row.sink = proposals[pid[c]].sink /\ row.action = proposals[pid[c]].action
      /\ row.corr = proposals[pid[c]].corr /\ row.state = "archived"
  <2>1. proposals[pid[c]] \in Row
    BY <1>1
  <2> QED BY <2>1 DEF Archived, Row
<1> HIDE DEF row
<1>3. proposals' = [proposals EXCEPT ![pid[c]] = row] \/ proposals' = proposals
  BY Zenon DEF UpdateRow, row
<1> QED BY <1>1, <1>2, <1>3 DEF Quiet, EvidenceKept

LEMMA GateInit == Init => GateInv
<1> SUFFICES ASSUME Init PROVE GateInv
  OBVIOUS
<1>1. \A i \in Ids : RowOK(i)
  <2>1. /\ NoRow.state = "absent" /\ NoRow.corr = 0 /\ NoRow.sink = "rule"
        /\ NoEvidence.signals = {} /\ NoEvidence.applies = 0
    BY DEF NoRow, NoEvidence
  <2>2. \A i \in Ids : proposals[i] = NoRow /\ evidence[i] = NoEvidence
    BY DEF Init
  <2> QED BY <2>1, <2>2 DEF RowOK
<1>2. \A c \in Callers : RequestsOK(c) /\ Unspent(c) /\ HoldingOK(c)
  BY DEF Init, RequestsOK, Unspent, HoldingOK, Holding, Pc
<1>3. DistinctSignals
  BY DEF Init, DistinctSignals
<1> QED BY <1>1, <1>2, <1>3 DEF GateInv

LEMMA GateRecordSignal ==
    ASSUME TypeOK, GateInv, NEW c \in Callers, RecordSignal(c) PROVE GateInv'
<1> PICK in \in Inputs : RecordInput(c, in)
  BY DEF RecordSignal
<1> DEFINE queue == Requests(learning_fill_target_key(in))
<1>0. queue \in Seq(Request) /\ WellRouted(queue, Sinks)
  BY RequestsType, RequestsWellRouted
<1> HIDE DEF queue
<1>1. Quiet
  BY SweepQuiet DEF RecordInput, TypeOK
<1>2. signals' >= signals /\ signals' \in Nat /\ pid' = pid
  BY BoundsAssumption DEF RecordInput, TypeOK
<1>3. CASE UNCHANGED <<sig, reqs, pc>>
  <2>1. FramesKept(c) /\ DistinctSignals'
    BY <1>2, <1>3 DEF FramesKept, DistinctSignals, GateInv
  <2>2. CallerOK(c)'
    BY <1>1, <1>2, <1>3 DEF RecordInput, CallerOK, RequestsOK, Unspent, HoldingOK,
                            Holding, Pc, GateInv, Quiet, EvidenceKept
  <2> QED BY <1>1, <1>2, <2>1, <2>2, QuietStep
<1>4. CASE /\ reqs' = [reqs EXCEPT ![c] = queue]
           /\ sig' = [sig EXCEPT ![c] = signals + 1]
           /\ Goto(c, "find")
  <2>1. /\ reqs'[c] = queue /\ sig'[c] = signals + 1 /\ pc'[c] = "find" /\ FramesKept(c)
    BY <1>2, <1>4 DEF Goto, FramesKept, TypeOK
  <2>2. RequestsOK(c)'
    BY <1>0, <2>1 DEF RequestsOK, WellRouted
  <2>3. Unspent(c)'
    <3>1. \A i \in Ids : evidence'[i].signals \subseteq 1..signals
      BY <1>1 DEF Quiet, EvidenceKept, GateInv, RowOK
    <3>2. signals + 1 \notin 1..signals
      BY DEF TypeOK
    <3> QED BY <2>1, <3>1, <3>2 DEF Unspent
  <2>4. HoldingOK(c)'
    BY <2>1 DEF HoldingOK, Holding, Pc
  <2>5. DistinctSignals'
    <3>1. \A d \in Callers : d # c /\ reqs'[d] # <<>> => sig'[d] \in 1..signals
      BY <2>1 DEF FramesKept, TypeOK
    <3>2. signals + 1 \notin 1..signals
      BY DEF TypeOK
    <3> QED BY <2>1, <3>1, <3>2 DEF DistinctSignals, FramesKept, GateInv
  <2> QED BY <1>1, <1>2, <2>1, <2>2, <2>3, <2>4, <2>5, QuietStep DEF CallerOK
<1> QED BY <1>3, <1>4 DEF queue, RecordInput

LEMMA GateFind ==
    ASSUME TypeOK, GateInv, NEW c \in Callers, Find(c) PROVE GateInv'
<1>1. Quiet /\ signals' = signals /\ signals' >= signals /\ signals' \in Nat
  BY BoundsAssumption DEF Find, store, Quiet, EvidenceKept, TypeOK
<1>2. reqs' = reqs /\ sig' = sig /\ FramesKept(c) /\ pc'[c] \in {"bump", "insert"}
      /\ proposals' = proposals /\ evidence' = evidence
  BY DEF Find, Found, Goto, FramesKept, TypeOK, store
<1>3. RequestsOK(c)' /\ Unspent(c)' /\ DistinctSignals'
  BY <1>2 DEF Find, RequestsOK, Unspent, DistinctSignals, GateInv
<1>4. HoldingOK(c)'
  <2>1. pc'[c] = "bump" => pid'[c] \in FindPending(Head(reqs[c]))
    BY DEF Find, Found, Goto, TypeOK
  <2>2. Head(reqs[c]) = reqs[c][1]
    BY DEF Find, TypeOK, Routing
  <2> QED BY <1>2, <2>1, <2>2 DEF HoldingOK, FindPending, Holding, Pc
<1> QED BY <1>1, <1>2, <1>3, <1>4, QuietStep DEF CallerOK

LEMMA GateBump ==
    ASSUME TypeOK, GateInv, NEW c \in Callers, Bump(c) PROVE GateInv'
<1>a. pc[c] \in Routing /\ pc[c] \in Holding /\ pc[c] = "bump"
  BY DEF Bump, Routing, Holding, Pc
<1> PICK p \in Ids : p = pid[c]
  BY <1>a DEF TypeOK
<1>1. /\ proposals[p] \in Row /\ proposals[p].state # "absent"
      /\ reqs[c] # <<>> /\ proposals[p].sink = reqs[c][1].sink
      /\ sig[c] \in 1..signals /\ RowOK(p)
      /\ evidence \in [Ids -> Evidence] /\ proposals \in [Ids -> Row] /\ signals' = signals
  BY <1>a DEF Bump, TypeOK, GateInv, HoldingOK
<1>b. 1 \in 1..Len(reqs[c])
  BY <1>1 DEF TypeOK
<1>2. sig[c] \notin evidence[p].signals /\ proposals[p].sink # "artifact"
  BY <1>1, <1>a, <1>b DEF GateInv, Unspent, RequestsOK
<1>3. /\ evidence'[p].signals = evidence[p].signals \cup {sig[c]}
      /\ evidence'[p].applies = evidence[p].applies
      /\ evidence'[p].accepted = evidence[p].accepted
      /\ evidence'[p].high = evidence[p].high
      /\ \A i \in Ids : i # p => evidence'[i] = evidence[i]
  BY <1>1 DEF Bump, Evidence
<1>4. /\ \A i \in Ids : i # p => proposals'[i] = proposals[i]
      /\ proposals'[p].sink = proposals[p].sink
      /\ proposals'[p].action = proposals[p].action
      /\ proposals'[p].state = proposals[p].state
      /\ proposals'[p].corr \in {proposals[p].corr, proposals[p].corr + 1}
  <2> DEFINE row == [proposals[p] EXCEPT !.corr = @ + 1]
  <2>1. /\ row.sink = proposals[p].sink /\ row.action = proposals[p].action
        /\ row.state = proposals[p].state /\ row.corr = proposals[p].corr + 1
    BY <1>1 DEF Row
  <2> HIDE DEF row
  <2>2. proposals' = [proposals EXCEPT ![p] = row] \/ proposals' = proposals
    BY Zenon DEF Bump, UpdateRow, row
  <2> QED BY <1>1, <2>1, <2>2
<1>5. Grows
  BY <1>3, <1>4 DEF Grows
<1>6. AtHead(c)
  BY <1>1, <1>3, <1>4 DEF AtHead
<1>7. \A i \in Ids : RowOK(i)'
  <2> SUFFICES ASSUME NEW i \in Ids PROVE RowOK(i)'
    OBVIOUS
  <2>0. RowOK(i)
    BY DEF GateInv
  <2>1. CASE i # p
    BY <1>1, <1>3, <1>4, <2>0, <2>1 DEF RowOK, Backed
  <2>2. CASE i = p
    <3>1. proposals'[p].corr >= 1 => evidence'[p].signals # {}
      BY <1>3
    <3>2. proposals'[p].corr >= 2 => \E s, t \in evidence'[p].signals : s # t
      <4>1. proposals[p].corr \in Nat
        BY <1>1 DEF Row
      <4>2. proposals'[p].corr >= 2 => proposals[p].corr >= 1
        BY <1>4, <4>1
      <4>3. proposals[p].corr >= 1 => evidence[p].signals # {}
        BY <1>1, <1>2 DEF RowOK
      <4> QED BY <1>2, <1>3, <4>2, <4>3
    <3>3. evidence'[p].applies > 0 => Backed(p)'
      BY <1>1, <1>3, <1>5, BackedStable DEF RowOK
    <3>4. evidence'[p].signals \subseteq 1..signals'
      BY <1>1, <1>3 DEF RowOK
    <3> QED BY <1>1, <1>2, <1>3, <1>4, <2>2, <3>1, <3>2, <3>3, <3>4 DEF RowOK
  <2> QED BY <2>1, <2>2
<1>8. FramesKept(c) /\ CallerOK(c)' /\ DistinctSignals'
  <2>1. pc[c] \in Holding /\ "recheck" \in Holding \ {"bump"} /\ Settle(c, "recheck")
    BY DEF Bump, Holding, Pc
  <2> QED BY <1>5, <1>6, <2>1, SettleGate
<1> QED BY <1>5, <1>6, <1>7, <1>8, Assemble

LEMMA GateRecheck ==
    ASSUME TypeOK, GateInv, NEW c \in Callers, Recheck(c) PROVE GateInv'
<1>1. Quiet /\ signals' = signals
  BY SweepQuiet DEF Recheck, TypeOK
<1>2. CASE NextRequest(c)
  BY <1>1, <1>2, QuietNextRequest
<1>3. CASE Settle(c, "get") /\ proposals[pid[c]].corr >= 2
  <2>1. pc[c] \in Holding /\ "get" \in Holding \ {"bump"} /\ pid[c] \in Ids
    BY DEF Recheck, Holding, Pc, TypeOK
  <2>2. Backed(pid[c])
    BY <1>3, <2>1 DEF GateInv, RowOK, Backed
  <2> QED BY <1>1, <1>3, <2>1, <2>2, QuietSettle
<1> QED BY <1>2, <1>3 DEF Recheck

LEMMA GateGet ==
    ASSUME TypeOK, GateInv, NEW c \in Callers, Get(c) PROVE GateInv'
<1>1. Quiet /\ signals' = signals
  BY SweepQuiet DEF Get, TypeOK
<1>2. CASE NextRequest(c)
  BY <1>1, <1>2, QuietNextRequest
<1>3. CASE Settle(c, "cap")
  <2>1. pc[c] \in Holding /\ "cap" \in Holding \ {"bump"} /\ Backed(pid[c])
    BY DEF Get, Holding, Pc, GateInv, HoldingOK
  <2> QED BY <1>1, <1>3, <2>1, QuietSettle
<1> QED BY <1>2, <1>3 DEF Get

LEMMA GateCheckCap ==
    ASSUME TypeOK, GateInv, NEW c \in Callers, CheckCap(c) PROVE GateInv'
<1>1. Quiet /\ signals' = signals
  <2>1. pid[c] \in Ids
    BY DEF CheckCap, TypeOK, Holding, Pc
  <2>2. \A i \in Ids : EvidenceKept(i)
    <3>1. CASE evidence' = evidence
      BY <3>1 DEF EvidenceKept
    <3>2. CASE \E failed \in BOOLEAN :
                  evidence' = [evidence EXCEPT ![pid[c]].uncounted = failed]
      BY <2>1, <3>2, CountKeeps
    <3> QED BY <3>1, <3>2 DEF CheckCap
  <2> QED BY <2>2 DEF CheckCap, Quiet
<1>2. PICK label \in {"cap_archive", "apply"} : Settle(c, label)
  BY DEF CheckCap
<1>3. pc[c] \in Holding /\ label \in Holding \ {"bump"} /\ Backed(pid[c]) /\ label # "mark"
  BY DEF CheckCap, Holding, Pc, GateInv, HoldingOK
<1> QED BY <1>1, <1>2, <1>3, QuietSettle

LEMMA GateArchive ==
    ASSUME TypeOK, GateInv, NEW c \in Callers, CapArchive(c) \/ RejectArchive(c)
    PROVE  GateInv'
<1>1. pc[c] \in Holding /\ "final" \in Holding \ {"bump"} /\ Settle(c, "final")
      /\ signals' = signals /\ evidence' = evidence
  BY DEF CapArchive, RejectArchive, Holding, Pc
<1>2. Quiet
  BY <1>1, UpdateQuiet DEF CapArchive, RejectArchive
<1> QED BY <1>1, <1>2, QuietSettle

LEMMA GateFinal ==
    ASSUME TypeOK, GateInv, NEW c \in Callers, Final(c) PROVE GateInv'
<1>1. Quiet /\ signals' = signals
  BY SweepQuiet DEF Final, TypeOK
<1> QED BY <1>1, QuietNextRequest DEF Final

(* A fresh row: whatever it holds, no caller works on it and it carries no *)
(* signal but the one that made it.                                        *)
LEMMA FreshRow ==
    ASSUME GateInv, NEW i \in Ids, FreshId(i), signals' = signals,
           \A j \in Ids : j # i => proposals'[j] = proposals[j] /\ evidence'[j] = evidence[j],
           proposals'[i].state = "pending", proposals'[i].corr = InsertedCorroboration,
           evidence'[i].applies = 0, evidence'[i].signals \subseteq 1..signals,
           proposals'[i].sink # "artifact" => evidence'[i].signals # {}
    PROVE  Grows /\ \A j \in Ids : RowOK(j)'
<1>1. proposals[i].state = "absent"
  BY DEF FreshId
<1>2. Grows
  BY <1>1 DEF Grows
<1>3. ASSUME NEW j \in Ids PROVE RowOK(j)'
  <2>1. CASE j # i
    BY <2>1 DEF GateInv, RowOK, Backed
  <2>2. CASE j = i
    BY <2>2, InsertedAssumption DEF RowOK
  <2> QED BY <2>1, <2>2
<1> QED BY <1>2, <1>3

LEMMA GateInsert ==
    ASSUME TypeOK, GateInv, NEW c \in Callers, Insert(c) PROVE GateInv'
<1> DEFINE r == Head(reqs[c])
           row == NewRow(r.sink, r.key, r.mem, r.action)
           ev == [NoEvidence EXCEPT !.signals = {sig[c]}, !.agree = {sig[c]}, !.high = r.high,
                                    !.unseen = pid[c] < 0]
<1>1. pc[c] \in Routing /\ reqs[c] \in Seq(Request) /\ signals' = signals /\ reqs[c] # <<>>
      /\ sig[c] \in 1..signals /\ signals \in 0..MaxSignals
  BY DEF Insert, TypeOK, Routing
<1>2. r = reqs[c][1] /\ r \in Request /\ 1 \in 1..Len(reqs[c])
  BY <1>1
<1>3. r.sink # "artifact" /\ (r.high => r.sink = "rule" /\ r.action.verb # CorrectionReason)
  BY <1>2 DEF GateInv, RequestsOK
<1>4. /\ row.state = "pending" /\ row.corr = InsertedCorroboration
      /\ row.sink = r.sink /\ row.action = r.action
  BY DEF NewRow
<1>5. row \in Row
  BY <1>2, NewRowType DEF Request, TypeOK
<1>6. ev \in Evidence /\ ev.signals = {sig[c]} /\ ev.applies = 0 /\ ev.high = r.high
  <2>1. r.high \in BOOLEAN /\ (pid[c] < 0) \in BOOLEAN
    BY <1>2 DEF Request
  <2>2. sig[c] \in SignalIds
    BY <1>1, BoundsAssumption DEF SignalIds
  <2>3. ev \in Evidence
    BY <2>1, <2>2, NewEvidenceType, Zenon
  <2>4. ev.signals = {sig[c]} /\ ev.applies = 0 /\ ev.high = r.high
    BY DEF NoEvidence
  <2> QED BY <2>3, <2>4
<1> HIDE DEF r, row, ev
<1>7. CASE NextRequest(c) /\ UNCHANGED <<proposals, evidence>>
  <2>1. Quiet
    BY <1>7 DEF Quiet, EvidenceKept
  <2> QED BY <1>1, <1>7, <2>1, QuietNextRequest
<1>8. ASSUME NEW i \in Ids, FreshId(i),
             proposals' = [proposals EXCEPT ![i] = row],
             evidence' = [evidence EXCEPT ![i] = ev],
             \/ NextRequest(c)
             \/ /\ r.high /\ Goto(c, "get") /\ pid' = [pid EXCEPT ![c] = i]
                /\ UNCHANGED <<reqs, sig>>
      PROVE  GateInv'
  <2>0. /\ \A j \in Ids : j # i => proposals'[j] = proposals[j] /\ evidence'[j] = evidence[j]
        /\ proposals'[i] = row /\ evidence'[i] = ev
    BY <1>8 DEF TypeOK
  <2>1. Grows /\ \A j \in Ids : RowOK(j)'
    <3>1. evidence'[i].signals \subseteq 1..signals /\ evidence'[i].signals # {}
      BY <1>1, <1>6, <2>0
    <3> QED BY <1>1, <1>4, <1>6, <1>8, <2>0, <3>1, FreshRow
  <2>2. AtHead(c)
    BY <1>1, <1>2, <1>4, <1>6, <2>0, <2>1 DEF AtHead
  <2>3. CASE NextRequest(c)
    BY <2>0, <2>1, <2>2, <2>3, NextRequestGate, Assemble
  <2>4. CASE /\ r.high /\ Goto(c, "get") /\ pid' = [pid EXCEPT ![c] = i]
             /\ UNCHANGED <<reqs, sig>>
    <3>1. pc'[c] = "get" /\ pid'[c] = i /\ reqs' = reqs /\ sig' = sig /\ FramesKept(c)
      BY <2>4 DEF Goto, FramesKept, TypeOK
    <3>2. RequestsOK(c)' /\ DistinctSignals'
      BY <3>1 DEF RequestsOK, DistinctSignals, GateInv
    <3>3. Unspent(c)'
      BY <2>0, <2>1, <2>2, <3>1, LaterUnspent DEF Unspent
    <3>4. Backed(i)'
      BY <1>3, <1>4, <1>6, <2>0, <2>1, <2>4 DEF Backed
    <3>5. HoldingOK(c)'
      BY <1>4, <2>0, <2>1, <3>1, <3>4 DEF HoldingOK, Backed
    <3> QED BY <2>0, <2>1, <2>2, <3>1, <3>2, <3>3, <3>5, Assemble DEF CallerOK
  <2> QED BY <1>8, <2>3, <2>4
<1> QED BY <1>7, <1>8 DEF Insert, r, row, ev

LEMMA GateApplySink ==
    ASSUME TypeOK, GateInv, NEW c \in Callers, ApplySink(c) PROVE GateInv'
<1>a. pc[c] \in Holding /\ "mark" \in Holding \ {"bump"} /\ pc[c] = "apply" /\ signals' = signals
      /\ proposals' = proposals
  BY DEF ApplySink, Holding, Pc
<1> PICK p \in Ids : p = pid[c]
  BY <1>a DEF TypeOK
<1>1. CASE NextRequest(c) /\ UNCHANGED evidence
  <2>1. Quiet
    BY <1>1, <1>a DEF Quiet, EvidenceKept
  <2> QED BY <1>1, <1>a, <2>1, QuietNextRequest
<1>2. CASE evidence' = [evidence EXCEPT ![pid[c]].applies = @ + 1] /\ Settle(c, "mark")
  <2>1. evidence[p] \in Evidence /\ evidence[p].applies \in Nat /\ pid' = pid
    BY <1>2 DEF TypeOK, Evidence, Settle
  <2>2. /\ \A j \in Ids : j # p => evidence'[j] = evidence[j]
        /\ evidence'[p].applies > 0 /\ evidence'[p].signals = evidence[p].signals
        /\ evidence'[p].accepted = evidence[p].accepted
        /\ evidence'[p].high = evidence[p].high
    BY <1>2, <2>1 DEF TypeOK, Evidence
  <2>3. Grows /\ AtHead(c)
    BY <1>a, <2>2 DEF Grows, AtHead
  <2>4. Backed(p) /\ proposals[p].state # "absent"
    BY <1>a DEF GateInv, HoldingOK
  <2>5. Backed(p)'
    BY <1>a, <2>2, <2>4 DEF Backed
  <2>6. ASSUME NEW j \in Ids PROVE RowOK(j)'
    <3>1. CASE j # p
      BY <1>a, <2>2, <3>1 DEF GateInv, RowOK, Backed
    <3>2. CASE j = p
      BY <1>a, <2>2, <2>4, <2>5, <3>2 DEF GateInv, RowOK
    <3> QED BY <3>1, <3>2
  <2>7. FramesKept(c) /\ CallerOK(c)' /\ DistinctSignals'
    <3>1. Backed(pid[c])' /\ evidence'[pid[c]].applies > 0
      BY <2>1, <2>2, <2>5 DEF Backed
    <3> QED BY <1>2, <1>a, <2>3, <3>1, SettleGate
  <2> QED BY <2>3, <2>6, <2>7, Assemble
<1> QED BY <1>1, <1>2 DEF ApplySink

LEMMA GateMarkCommitted ==
    ASSUME TypeOK, GateInv, NEW c \in Callers, MarkCommitted(c) PROVE GateInv'
<1>a. pc[c] \in Holding /\ "final" \in Holding \ {"bump"} /\ pc[c] = "mark" /\ signals' = signals
      /\ Settle(c, "final")
  BY DEF MarkCommitted, Holding, Pc
<1> PICK p \in Ids : p = pid[c]
  BY <1>a DEF TypeOK
<1>b. \A i \in Ids : EvidenceKept(i)
  BY LoseMarkKeeps DEF MarkCommitted, EvidenceKept
<1>1. proposals[p].state # "absent" /\ evidence[p].applies > 0 /\ proposals[p] \in Row
  BY <1>a DEF GateInv, HoldingOK, TypeOK
<1>2. /\ \A j \in Ids : j # p => proposals'[j] = proposals[j]
      /\ proposals'[p].sink = proposals[p].sink
      /\ proposals'[p].action = proposals[p].action
      /\ proposals'[p].corr = proposals[p].corr
      /\ proposals'[p].state # "absent"
  <2> DEFINE row == [proposals[p] EXCEPT !.state = "committed", !.committedAt = clock]
  <2>1. /\ row.sink = proposals[p].sink /\ row.action = proposals[p].action
        /\ row.corr = proposals[p].corr /\ row.state = "committed"
    BY <1>1 DEF Row
  <2> HIDE DEF row
  <2>2. proposals' = [proposals EXCEPT ![p] = row] \/ proposals' = proposals
    BY Zenon DEF MarkCommitted, UpdateRow, row
  <2> QED BY <1>1, <2>1, <2>2 DEF TypeOK
<1>3. Grows /\ AtHead(c)
  BY <1>b, <1>2 DEF Grows, AtHead, EvidenceKept
<1>4. ASSUME NEW j \in Ids PROVE RowOK(j)'
  <2>1. RowOK(j)
    BY DEF GateInv
  <2>2. Backed(j) <=> Backed(j)'
    BY <1>b, <1>2 DEF Backed, EvidenceKept
  <2> QED BY <1>a, <1>b, <1>1, <1>2, <2>1, <2>2 DEF RowOK, EvidenceKept
<1>5. FramesKept(c) /\ CallerOK(c)' /\ DistinctSignals'
  BY <1>a, <1>3, SettleGate
<1> QED BY <1>3, <1>4, <1>5, Assemble

LEMMA GateAcceptProposal ==
    ASSUME TypeOK, GateInv, NEW c \in Callers, AcceptProposal(c) PROVE GateInv'
<1>0. PICK i \in Ids : AcceptProposal(c)!2!(i)
  BY DEF AcceptProposal
<1>1. /\ pc[c] = "idle" /\ proposals[i].state # "absent" /\ signals' = signals
      /\ evidence' = [evidence EXCEPT ![i].accepted = TRUE]
      /\ pc'[c] = "get" /\ pid'[c] = i /\ reqs' = reqs /\ sig' = sig /\ FramesKept(c)
  BY <1>0 DEF AcceptProposal, Goto, FramesKept, TypeOK
<1>2. /\ \A j \in Ids : j # i => evidence'[j] = evidence[j]
      /\ evidence'[i].accepted /\ evidence'[i].signals = evidence[i].signals
      /\ evidence'[i].applies = evidence[i].applies
      /\ evidence'[i].high = evidence[i].high
  BY <1>1 DEF TypeOK, Evidence
<1>3. \A j \in Ids :
        /\ proposals'[j].sink = proposals[j].sink
        /\ proposals'[j].action = proposals[j].action
        /\ proposals'[j].corr = proposals[j].corr
        /\ \/ proposals'[j].state = proposals[j].state
           \/ proposals[j].state # "absent" /\ proposals'[j].state = "archived"
  BY <1>0, SweepRows DEF TypeOK
<1>4. Grows /\ AtHead(c)
  BY <1>2, <1>3 DEF Grows, AtHead
<1>5. Backed(i)'
  BY <1>2 DEF Backed
<1>6. ASSUME NEW j \in Ids PROVE RowOK(j)'
  <2>1. RowOK(j)
    BY DEF GateInv
  <2>2. Backed(j) => Backed(j)'
    BY <1>2, <1>3 DEF Backed
  <2> QED BY <1>1, <1>2, <1>3, <2>1, <2>2 DEF RowOK
<1>7. RequestsOK(c)' /\ DistinctSignals'
  BY <1>1 DEF RequestsOK, DistinctSignals, GateInv
<1>8. Unspent(c)'
  BY <1>1, <1>4, LaterUnspent DEF Unspent
<1>9. HoldingOK(c)'
  BY <1>1, <1>4, <1>5 DEF HoldingOK, Backed, Grows
<1> QED BY <1>1, <1>4, <1>6, <1>7, <1>8, <1>9, Assemble DEF CallerOK

LEMMA GateRejectProposal ==
    ASSUME TypeOK, GateInv, NEW c \in Callers, RejectProposal(c) PROVE GateInv'
<1> PICK i \in Ids : RejectProposal(c)!2!(i)
  BY DEF RejectProposal
<1>1. /\ proposals[i].state # "absent" /\ signals' = signals
      /\ pc'[c] \in {"reject", "final"} /\ pid'[c] = i /\ reqs' = reqs /\ sig' = sig
      /\ FramesKept(c)
  BY DEF RejectProposal, Goto, FramesKept, TypeOK
<1>2. Quiet
  BY SweepQuiet DEF RejectProposal, TypeOK
<1>3. Grows /\ AtHead(c) /\ signals' >= signals /\ signals' \in Nat
  BY <1>1, <1>2, QuietAtHead, BoundsAssumption DEF TypeOK
<1>4. RequestsOK(c)' /\ DistinctSignals'
  BY <1>1 DEF RequestsOK, DistinctSignals, GateInv
<1>5. Unspent(c)'
  BY <1>1, <1>3, LaterUnspent DEF Unspent
<1>6. HoldingOK(c)'
  BY <1>1, <1>3 DEF HoldingOK, Grows
<1> QED BY <1>1, <1>2, <1>3, <1>4, <1>5, <1>6, QuietStep DEF CallerOK

(* A step that archives rows and moves no caller. *)
LEMMA GateIdle ==
    ASSUME TypeOK, GateInv, NEW c \in Callers, Quiet, UNCHANGED <<pc, reqs, sig, pid, signals>>
    PROVE  GateInv'
<1>1. Grows
  BY QuietGrows
<1>2. RequestsOK(c)' /\ DistinctSignals' /\ FramesKept(c)
  BY DEF RequestsOK, DistinctSignals, GateInv, FramesKept
<1>3. Unspent(c)'
  BY DEF Unspent, GateInv, Quiet, EvidenceKept
<1>4. HoldingOK(c)'
  <2>1. pc[c] \in Holding => pid[c] \in Ids
    BY DEF TypeOK
  <2>2. {"bump", "get", "cap", "apply", "mark"} \subseteq Holding
    BY DEF Holding, Pc
  <2>3. HoldingOK(c)
    BY DEF GateInv
  <2>4. pid[c] \in Ids => (Backed(pid[c]) <=> Backed(pid[c])')
    BY DEF Quiet, EvidenceKept, Backed
  <2> QED BY <2>1, <2>2, <2>3, <2>4 DEF HoldingOK, Quiet, EvidenceKept
<1>5. signals' >= signals /\ signals' \in Nat
  BY BoundsAssumption DEF TypeOK
<1> QED BY <1>2, <1>3, <1>4, <1>5, QuietStep DEF CallerOK

LEMMA GateCrash ==
    ASSUME TypeOK, GateInv, NEW c \in Callers, Crash(c) PROVE GateInv'
<1>1. Quiet /\ signals' = signals
  <2>1. pc[c] = "mark" => pid[c] \in Ids
    BY DEF TypeOK, Holding, Pc
  <2>2. \A i \in Ids : EvidenceKept(i)
    BY <2>1, LoseMarkKeeps DEF Crash, EvidenceKept
  <2> QED BY <2>2 DEF Crash, Quiet
<1>2. pc'[c] = "idle" /\ reqs'[c] = <<>> /\ FramesKept(c)
  BY DEF Crash, FramesKept, TypeOK
<1>3. CallerOK(c)'
  BY <1>2 DEF CallerOK, RequestsOK, Unspent, HoldingOK, Holding, Pc
<1>4. DistinctSignals'
  BY <1>2 DEF DistinctSignals, FramesKept, GateInv
<1>5. signals' >= signals /\ signals' \in Nat
  BY <1>1, BoundsAssumption DEF TypeOK
<1> QED BY <1>1, <1>2, <1>3, <1>4, <1>5, QuietStep

LEMMA GateMineArtifact ==
    ASSUME TypeOK, GateInv, MineArtifact PROVE GateInv'
<1>0. PICK i \in Ids, a \in MinedActions : MineArtifact!1!(i, a)
  BY DEF MineArtifact
<1> DEFINE row == NewRow("artifact", "", 0, a)
<1>1. row.sink = "artifact" /\ row.state = "pending" /\ row.corr = InsertedCorroboration
      /\ NoEvidence.signals = {} /\ NoEvidence.applies = 0
  BY DEF NewRow, NoEvidence
<1> HIDE DEF row
<1>2. /\ \A j \in Ids : j # i => proposals'[j] = proposals[j] /\ evidence'[j] = evidence[j]
      /\ proposals'[i] = row /\ evidence'[i] = NoEvidence /\ FreshId(i)
      /\ signals' = signals /\ pc' = pc /\ reqs' = reqs /\ sig' = sig /\ pid' = pid
  BY <1>0 DEF MineArtifact, TypeOK, calls, row
<1>3. Grows /\ \A j \in Ids : RowOK(j)'
  BY <1>1, <1>2, FreshRow
<1>4. ASSUME NEW c \in Callers PROVE CallerOK(c)'
  <2>1. RequestsOK(c)'
    BY <1>2 DEF RequestsOK, GateInv
  <2>2. Unspent(c)'
    BY <1>1, <1>2 DEF Unspent, GateInv
  <2>3. HoldingOK(c)'
    <3>1. pc[c] \in Holding => pid[c] \in Ids \ {i}
      BY <1>2 DEF TypeOK, GateInv, HoldingOK, FreshId
    <3>2. {"bump", "get", "cap", "apply", "mark"} \subseteq Holding
      BY DEF Holding, Pc
    <3>3. HoldingOK(c)
      BY DEF GateInv
    <3>4. pid[c] \in Ids \ {i} => (Backed(pid[c]) <=> Backed(pid[c])')
      BY <1>2 DEF Backed
    <3> QED BY <1>2, <3>1, <3>2, <3>3, <3>4 DEF HoldingOK
  <2> QED BY <2>1, <2>2, <2>3 DEF CallerOK
<1>5. DistinctSignals'
  BY <1>2 DEF DistinctSignals, GateInv
<1> QED BY <1>3, <1>4, <1>5 DEF GateInv, CallerOK

LEMMA GateStep == TypeOK /\ GateInv /\ [Next]_vars => GateInv'
<1> SUFFICES ASSUME TypeOK, GateInv, [Next]_vars PROVE GateInv'
  OBVIOUS
<1>1. ASSUME NEW c \in Callers, Call(c) PROVE GateInv'
  <2>1. CASE ListProposals(c)
    <3>1. Quiet
      BY <2>1, SweepQuiet DEF ListProposals, TypeOK
    <3> QED BY <2>1, <3>1, GateIdle DEF ListProposals, calls
  <2> QED BY <1>1, <2>1, GateRecordSignal, GateAcceptProposal, GateRejectProposal DEF Call
<1>2. ASSUME NEW c \in Callers, Step(c) PROVE GateInv'
  BY <1>2, GateFind, GateBump, GateRecheck, GateInsert, GateGet, GateCheckCap, GateArchive,
     GateApplySink, GateMarkCommitted, GateFinal DEF Step
<1>3. CASE Tick \/ UNCHANGED vars
  <2>1. Quiet /\ UNCHANGED <<pc, reqs, sig, pid, signals>>
    BY <1>3 DEF Tick, store, calls, vars, Quiet, EvidenceKept
  <2>2. PICK c \in Callers : TRUE
    BY CallersAssumption
  <2> QED BY <2>1, GateIdle
<1> QED BY <1>1, <1>2, <1>3, GateCrash, GateMineArtifact DEF Next

(* The gate of the module, for every instance. *)
THEOREM GateHolds == Spec => []GateInv
BY TypeCorrect, GateInit, GateStep, PTL DEF Spec

(* No action is applied to a sink on a single signal: only for a proposal an *)
(* operator accepted, an explicit rule, or two different signals.            *)
THEOREM EvidenceGateHolds == Spec => []EvidenceGate
<1>1. GateInv => EvidenceGate
  BY DEF GateInv, RowOK, EvidenceGate
<1> QED BY <1>1, GateHolds, PTL

(* A committed row was applied, whatever callers race or crash. *)
THEOREM CommittedWasAppliedHolds == Spec => []CommittedWasApplied
<1>1. GateInv => CommittedWasApplied
  BY DEF GateInv, RowOK, CommittedWasApplied
<1> QED BY <1>1, GateHolds, PTL

-----------------------------------------------------------------------------
(* The weekly cap.  Counting the commits of a sink and marking the next one  *)
(* are different DB2 calls, so the count a caller acts on can be stale.      *)
(* CapInv charges each caller that passed the check for the commit it is     *)
(* about to make; it bounds the overshoot by the number of callers, and with *)
(* one caller there is none.  A commit whose own count failed is charged to  *)
(* nobody, and is not one of those the cap bounds.                           *)

Committing(s) ==
    {c \in Callers : /\ pc[c] \in {"apply", "mark"}
                     /\ proposals[pid[c]].sink = s
                     /\ ~evidence[pid[c]].uncounted}

CapInv ==
    \A s \in Sinks :
        Cardinality(CountedCommits(s)) + Cardinality(Committing(s))
            < learning_max_commits_per_week + Cardinality(Callers)

LEMMA Finite ==
    ASSUME NEW s
    PROVE  /\ IsFiniteSet(CommitsInWindow(s)) /\ Cardinality(CommitsInWindow(s)) \in Nat
           /\ IsFiniteSet(CountedCommits(s)) /\ Cardinality(CountedCommits(s)) \in Nat
           /\ IsFiniteSet(Committing(s)) /\ Cardinality(Committing(s)) \in Nat
           /\ Cardinality(Committing(s)) <= Cardinality(Callers)
           /\ Cardinality(Callers) \in Nat \ {0}
<1>1. IsFiniteSet(Ids)
  BY BoundsAssumption, FS_Interval DEF Ids
<1>2. /\ CommitsInWindow(s) \subseteq Ids /\ CountedCommits(s) \subseteq Ids
      /\ Committing(s) \subseteq Callers
  BY DEF CommitsInWindow, CountedCommits, Committing
<1>3. Cardinality(Callers) \in Nat /\ Cardinality(Callers) # 0
  BY CallersAssumption, FS_CardinalityType, FS_EmptySet
<1> QED BY <1>1, <1>2, <1>3, CallersAssumption, FS_Subset, FS_CardinalityType

LEMMA CardinalityWithOne ==
    ASSUME NEW S, NEW T, NEW e, IsFiniteSet(S), T \subseteq S \cup {e}
    PROVE  /\ IsFiniteSet(T) /\ Cardinality(T) \in Nat
           /\ Cardinality(T) <= Cardinality(S) + 1
<1>1. IsFiniteSet(S \cup {e}) /\ Cardinality(S) \in Nat
  BY FS_AddElement, FS_CardinalityType
<1>2. \/ Cardinality(S \cup {e}) = Cardinality(S)
      \/ Cardinality(S \cup {e}) = Cardinality(S) + 1
  BY FS_AddElement, Zenon
<1>3. IsFiniteSet(T) /\ Cardinality(T) <= Cardinality(S \cup {e}) /\ Cardinality(T) \in Nat
  BY <1>1, FS_Subset, FS_CardinalityType
<1> QED BY <1>1, <1>2, <1>3

(* The steps that neither mark a row nor let a caller past the check. *)
Shrinks ==
    /\ clock' >= clock
    /\ \A i \in Ids : proposals[i].state # "absent" => proposals'[i].sink = proposals[i].sink
    /\ \A i \in Ids : proposals'[i].state = "committed" =>
            /\ proposals[i].state = "committed"
            /\ proposals'[i].committedAt = proposals[i].committedAt
    /\ \A i \in Ids : proposals[i].state # "absent" =>
            evidence'[i].uncounted = evidence[i].uncounted

NoEntry ==
    \A d \in Callers : pc'[d] \in {"apply", "mark"} =>
        pc[d] \in {"apply", "mark"} /\ pid'[d] = pid[d]

LEMMA WindowShrinks ==
    ASSUME TypeOK, TypeOK', Shrinks, NEW s
    PROVE  CountedCommits(s)' \subseteq CountedCommits(s)
<1>1. ASSUME NEW i \in Ids, i \in CountedCommits(s)' PROVE i \in CountedCommits(s)
  <2>1. /\ proposals[i].state = "committed" /\ proposals[i].sink = s
        /\ proposals[i].committedAt > clock' - Week
        /\ ~evidence[i].uncounted
    BY <1>1 DEF CountedCommits, CommitsInWindow, Shrinks
  <2>2. proposals[i].committedAt \in Nat /\ clock \in Nat /\ clock' \in Nat /\ Week \in Nat
        /\ clock' >= clock
    <3>1. proposals[i] \in Row
      BY DEF TypeOK
    <3>2. proposals[i].committedAt \in Nat
      BY <3>1 DEF Row
    <3> QED BY <3>2, BoundsAssumption DEF TypeOK, Shrinks
  <2>3. proposals[i].committedAt > clock - Week
    BY <2>1, <2>2
  <2> QED BY <2>1, <2>3 DEF CountedCommits, CommitsInWindow
<1> QED BY <1>1 DEF CountedCommits, CommitsInWindow

LEMMA CapShrinks ==
    ASSUME TypeOK, TypeOK', GateInv, CapInv, Shrinks, NoEntry
    PROVE  CapInv'
<1> SUFFICES ASSUME NEW s \in Sinks
             PROVE  Cardinality(CountedCommits(s)') + Cardinality(Committing(s)')
                        < learning_max_commits_per_week + Cardinality(Callers)
  BY DEF CapInv, learning_max_commits_per_week
<1>1. CountedCommits(s)' \subseteq CountedCommits(s)
  BY WindowShrinks
<1>2. Committing(s)' \subseteq Committing(s)
  <2>1. \A d \in Callers : pc[d] \in {"apply", "mark"} =>
            pid[d] \in Ids /\ proposals[pid[d]].state # "absent"
    BY DEF TypeOK, GateInv, HoldingOK, Holding, Pc
  <2> QED BY <2>1 DEF Committing, NoEntry, Shrinks
<1>3. /\ Cardinality(CountedCommits(s)') <= Cardinality(CountedCommits(s))
      /\ Cardinality(Committing(s)') <= Cardinality(Committing(s))
      /\ Cardinality(CountedCommits(s)') \in Nat /\ Cardinality(Committing(s)') \in Nat
  BY <1>1, <1>2, Finite, FS_Subset, FS_CardinalityType
<1> QED BY <1>3, Finite, ConfigType DEF CapInv

(* Sweeping, archiving and corroborating only shrink the window. *)
CountsKept ==
    \A i \in Ids : proposals[i].state # "absent" =>
        evidence'[i].uncounted = evidence[i].uncounted

LEMMA SweepShrinks ==
    ASSUME TypeOK, ArchiveExpired, clock' = clock, CountsKept PROVE Shrinks
<1>1. clock' >= clock
  BY BoundsAssumption DEF TypeOK
<1>2. proposals \in [Ids -> Row]
  BY DEF TypeOK
<1>3. ASSUME NEW i \in Ids
      PROVE  /\ proposals'[i].sink = proposals[i].sink
             /\ proposals'[i].state = "committed" => proposals'[i] = proposals[i]
  BY <1>2 DEF ArchiveExpired, Swept, Archived, Row
<1> QED BY <1>1, <1>3 DEF CountsKept, Shrinks

LEMMA KeepShrinks ==
    ASSUME TypeOK, proposals' = proposals, clock' >= clock, CountsKept PROVE Shrinks
BY DEF CountsKept, Shrinks

LEMMA UpdateShrinks ==
    ASSUME TypeOK, NEW i \in Ids, NEW row, UpdateRow(i, row), clock' = clock,
           CountsKept, row.sink = proposals[i].sink,
           row.state = "committed" => /\ proposals[i].state = "committed"
                                      /\ row.committedAt = proposals[i].committedAt
    PROVE  Shrinks
<1>1. clock' >= clock
  BY BoundsAssumption DEF TypeOK
<1>2. proposals' = proposals \/ proposals' = [proposals EXCEPT ![i] = row]
  BY DEF UpdateRow
<1> QED BY <1>1, <1>2 DEF TypeOK, CountsKept, Shrinks

LEMMA FreshShrinks ==
    ASSUME TypeOK, NEW i \in Ids, FreshId(i), NEW row, row.state = "pending",
           proposals' = [proposals EXCEPT ![i] = row], clock' = clock,
           NEW e, evidence' = [evidence EXCEPT ![i] = e]
    PROVE  Shrinks
<1>1. clock' >= clock
  BY BoundsAssumption DEF TypeOK
<1> QED BY <1>1 DEF TypeOK, FreshId, Shrinks

LEMMA NextRequestNoEntry ==
    ASSUME TypeOK, NEW c \in Callers, NextRequest(c) PROVE NoEntry
BY DEF TypeOK, NextRequest, NoEntry

LEMMA SettleNoEntry ==
    ASSUME TypeOK, NEW c \in Callers, NEW label, Settle(c, label),
           label \in {"apply", "mark"} => pc[c] \in {"apply", "mark"}
    PROVE  NoEntry
BY DEF TypeOK, Settle, Goto, NoEntry

LEMMA CapStepShrinks ==
    ASSUME TypeOK, GateInv, Next, \A c \in Callers : ~CheckCap(c) /\ ~MarkCommitted(c)
    PROVE  Shrinks /\ NoEntry
<1>0. clock' = clock => clock' >= clock
  BY BoundsAssumption DEF TypeOK
<1>1. ASSUME NEW c \in Callers, Call(c) PROVE Shrinks /\ NoEntry
  <2>1. ArchiveExpired /\ clock' = clock
    BY <1>1 DEF Call, RecordSignal, RecordInput, AcceptProposal, RejectProposal, ListProposals
  <2>2. NoEntry
    BY <1>1 DEF Call, RecordSignal, RecordInput, AcceptProposal, RejectProposal, ListProposals, calls,
                Goto, TypeOK, NoEntry
  <2>3. CountsKept
    <3>1. CASE evidence' = evidence
      BY <3>1 DEF CountsKept
    <3>2. ASSUME NEW i \in Ids, evidence' = [evidence EXCEPT ![i].accepted = TRUE]
          PROVE  CountsKept
      BY <3>2 DEF CountsKept, TypeOK, Evidence
    <3> QED BY <1>1, <3>1, <3>2, Zenon DEF Call, RecordSignal, RecordInput, AcceptProposal,
                                          RejectProposal, ListProposals
  <2> QED BY <2>1, <2>2, <2>3, SweepShrinks
<1>2. ASSUME NEW c \in Callers, Find(c) PROVE Shrinks /\ NoEntry
  <2>1. pc'[c] \in {"bump", "insert"} /\ pid'[c] = pid'[c]
        /\ \A d \in Callers : d # c => pc'[d] = pc[d] /\ pid'[d] = pid[d]
    BY <1>2 DEF Find, Found, Goto, TypeOK
  <2> QED BY <1>0, <1>2, <2>1, KeepShrinks DEF Find, store, CountsKept, NoEntry
<1>3. ASSUME NEW c \in Callers, Bump(c) PROVE Shrinks /\ NoEntry
  <2>1. pid[c] \in Ids /\ proposals[pid[c]] \in Row /\ clock' = clock
    BY <1>3 DEF Bump, TypeOK, Holding, Pc
  <2> DEFINE row == [proposals[pid[c]] EXCEPT !.corr = @ + 1]
  <2>2. /\ row.sink = proposals[pid[c]].sink /\ row.state = proposals[pid[c]].state
        /\ row.committedAt = proposals[pid[c]].committedAt
    BY <2>1 DEF Row
  <2> HIDE DEF row
  <2>3. UpdateRow(pid[c], row) /\ Settle(c, "recheck")
    BY <1>3 DEF Bump, row
  <2>4. CountsKept
    BY <1>3, <2>1 DEF Bump, CountsKept, TypeOK, Evidence
  <2> QED BY <2>1, <2>2, <2>3, <2>4, UpdateShrinks, SettleNoEntry
<1>4. ASSUME NEW c \in Callers, Recheck(c) \/ Get(c) \/ Final(c) PROVE Shrinks /\ NoEntry
  <2>1. ArchiveExpired /\ clock' = clock /\ CountsKept
    BY <1>4 DEF Recheck, Get, Final, CountsKept
  <2>2. NoEntry
    BY <1>4, NextRequestNoEntry, SettleNoEntry DEF Recheck, Get, Final
  <2> QED BY <2>1, <2>2, SweepShrinks
<1>5. ASSUME NEW c \in Callers, Insert(c) PROVE Shrinks /\ NoEntry
  <2>0. clock' = clock
    BY <1>5 DEF Insert
  <2>1. CASE proposals' = proposals /\ evidence' = evidence /\ NextRequest(c)
    BY <1>0, <2>0, <2>1, KeepShrinks, NextRequestNoEntry DEF CountsKept
  <2> DEFINE r == Head(reqs[c])
             row == NewRow(r.sink, r.key, r.mem, r.action)
             e == [NoEvidence EXCEPT !.signals = {sig[c]}, !.agree = {sig[c]}, !.high = r.high,
                                     !.unseen = pid[c] < 0]
  <2>2. row.state = "pending"
    BY DEF NewRow
  <2> HIDE DEF row, e
  <2>3. CASE \E i \in Ids :
            /\ FreshId(i) /\ proposals' = [proposals EXCEPT ![i] = row]
            /\ evidence' = [evidence EXCEPT ![i] = e]
            /\ NextRequest(c) \/ (Goto(c, "get") /\ pid' = [pid EXCEPT ![c] = i])
    <3>1. PICK i \in Ids : <2>3!1!(i)
      BY <2>3
    <3>2. Shrinks
      BY <2>0, <2>2, <3>1, FreshShrinks
    <3>3. NoEntry
      BY <3>1, NextRequestNoEntry DEF Goto, TypeOK, NoEntry
    <3> QED BY <3>2, <3>3
  <2> QED BY <1>5, <2>1, <2>3 DEF Insert, row, e
<1>6. ASSUME NEW c \in Callers, CapArchive(c) \/ RejectArchive(c) PROVE Shrinks /\ NoEntry
  <2>1. pid[c] \in Ids /\ proposals[pid[c]] \in Row /\ clock' = clock /\ Settle(c, "final")
        /\ CountsKept
    BY <1>6 DEF CapArchive, RejectArchive, TypeOK, Holding, Pc, CountsKept
  <2>2. PICK reason \in {"weekly_cap", "rejected"} :
            UpdateRow(pid[c], Archived(proposals[pid[c]], reason))
    BY <1>6 DEF CapArchive, RejectArchive
  <2> DEFINE row == Archived(proposals[pid[c]], reason)
  <2>3. row.sink = proposals[pid[c]].sink /\ row.state = "archived"
    BY <2>1 DEF Row, Archived
  <2> HIDE DEF row
  <2>4. UpdateRow(pid[c], row)
    BY <2>2 DEF row
  <2> QED BY <2>1, <2>3, <2>4, UpdateShrinks, SettleNoEntry
<1>7. ASSUME NEW c \in Callers, ApplySink(c) PROVE Shrinks /\ NoEntry
  <2>1. pid[c] \in Ids
    BY <1>7 DEF ApplySink, TypeOK, Holding, Pc
  <2>2. CountsKept
    <3>1. CASE evidence' = evidence
      BY <3>1 DEF CountsKept
    <3>2. CASE evidence' = [evidence EXCEPT ![pid[c]].applies = @ + 1]
      BY <2>1, <3>2 DEF CountsKept, TypeOK, Evidence
    <3> QED BY <1>7, <3>1, <3>2 DEF ApplySink
  <2> QED BY <1>0, <1>7, <2>2, KeepShrinks, NextRequestNoEntry, SettleNoEntry DEF ApplySink
<1>8. ASSUME NEW c \in Callers, Crash(c) PROVE Shrinks /\ NoEntry
  <2>1. pc[c] = "mark" => pid[c] \in Ids
    BY DEF TypeOK, Holding, Pc
  <2>2. CountsKept
    <3>1. CASE pc[c] = "mark" /\ LoseMark(pid[c])
      <4>1. evidence[pid[c]] \in Evidence /\ StoreOK
        BY <2>1, <3>1 DEF TypeOK, StoreOK
      <4> QED BY <2>1, <3>1, <4>1, LoseMarkType DEF CountsKept, Evidence
    <3> QED BY <1>8, <3>1 DEF Crash, CountsKept
  <2> QED BY <1>0, <1>8, <2>2, KeepShrinks DEF Crash, TypeOK, NoEntry
<1>9. CASE MineArtifact
  <2>1. PICK i \in Ids, a \in MinedActions : MineArtifact!1!(i, a)
    BY <1>9 DEF MineArtifact
  <2> DEFINE row == NewRow("artifact", "", 0, a)
  <2>2. row.state = "pending"
    BY DEF NewRow
  <2> HIDE DEF row
  <2>3. /\ FreshId(i) /\ proposals' = [proposals EXCEPT ![i] = row] /\ clock' = clock
        /\ evidence' = [evidence EXCEPT ![i] = NoEvidence]
    BY <1>9, <2>1 DEF MineArtifact, row
  <2>4. NoEntry
    BY <1>9 DEF MineArtifact, calls, NoEntry
  <2> QED BY <2>2, <2>3, <2>4, FreshShrinks
<1>10. CASE Tick
  BY <1>10, KeepShrinks, BoundsAssumption DEF Tick, store, calls, CountsKept, NoEntry, TypeOK
<1> QED
  BY <1>1, <1>2, <1>3, <1>4, <1>5, <1>6, <1>7, <1>8, <1>9, <1>10 DEF Next, Step

(* The check: a caller goes past it only below the cap, or uncounted. *)
LEMMA CapCheckCap ==
    ASSUME TypeOK, TypeOK', GateInv, CapInv, NEW c \in Callers, CheckCap(c)
    PROVE  CapInv'
<1>1. /\ proposals' = proposals /\ clock' = clock /\ pid' = pid /\ clock' >= clock
      /\ pid[c] \in Ids
  <2>1. proposals' = proposals /\ clock' = clock /\ clock' >= clock
    BY BoundsAssumption DEF CheckCap, TypeOK
  <2>2. pid' = pid
    BY DEF CheckCap, Settle
  <2>3. pid[c] \in Ids
    BY DEF CheckCap, TypeOK, Holding, Pc
  <2> QED BY <2>1, <2>2, <2>3
<1>2. CASE Settle(c, "cap_archive") /\ evidence' = evidence
  BY <1>1, <1>2, KeepShrinks, SettleNoEntry, CapShrinks DEF CountsKept
<1>3. ASSUME NEW failed \in BOOLEAN,
             Settle(c, "apply"),
             evidence' = [evidence EXCEPT ![pid[c]].uncounted = failed],
             ~failed => Cardinality(CommitsInWindow(proposals[pid[c]].sink))
                            < learning_max_commits_per_week,
             NEW s \in Sinks
      PROVE  Cardinality(CountedCommits(s)') + Cardinality(Committing(s)')
                < learning_max_commits_per_week + Cardinality(Callers)
  <2>1. /\ evidence'[pid[c]].uncounted = failed
        /\ \A i \in Ids : i # pid[c] => evidence'[i] = evidence[i]
    <3>1. StoreOK /\ evidence[pid[c]] \in Evidence
      BY <1>1 DEF TypeOK, StoreOK
    <3> QED BY <1>1, <1>3, <3>1, CountType DEF Evidence
  <2>2. pc' = [pc EXCEPT ![c] = "apply"] /\ \A d \in Callers : d # c => pc'[d] = pc[d]
    BY <1>3 DEF Settle, Goto, TypeOK
  <2>3. \A d \in Callers : pc[d] \in {"apply", "mark"} => pid[d] \in Ids
    BY DEF TypeOK, Holding, Pc
  <2>4. /\ CountedCommits(s)' \subseteq CommitsInWindow(s)
        /\ IsFiniteSet(CountedCommits(s)') /\ Cardinality(CountedCommits(s)') \in Nat
        /\ Cardinality(CountedCommits(s)') <= Cardinality(CommitsInWindow(s))
    <3>1. CountedCommits(s)' \subseteq CommitsInWindow(s)
      BY <1>1 DEF CountedCommits, CommitsInWindow
    <3> QED BY <3>1, Finite, FS_Subset, FS_CardinalityType
  <2>5. /\ IsFiniteSet(Committing(s)') /\ Cardinality(Committing(s)') \in Nat
        /\ Cardinality(Committing(s)') <= Cardinality(Callers)
    <3>1. Committing(s)' \subseteq Callers
      BY DEF Committing
    <3> QED BY <3>1, CallersAssumption, FS_Subset, FS_CardinalityType
  <2>6. CASE proposals[pid[c]].sink = s /\ ~failed
    BY <1>3, <2>4, <2>5, <2>6, Finite, ConfigType
  <2>7. CASE proposals[pid[c]].sink # s \/ failed
    <3>1. CountedCommits(s)' \subseteq CountedCommits(s)
      BY <1>1, <2>1, <2>7 DEF CountedCommits, CommitsInWindow
    <3>2. Committing(s)' \subseteq Committing(s)
      BY <1>1, <2>1, <2>2, <2>3, <2>7 DEF Committing
    <3>3. /\ Cardinality(CountedCommits(s)') <= Cardinality(CountedCommits(s))
          /\ Cardinality(Committing(s)') <= Cardinality(Committing(s))
      BY <3>1, <3>2, Finite, FS_Subset
    <3> QED BY <2>4, <2>5, <3>3, Finite, ConfigType DEF CapInv
  <2> QED BY <2>6, <2>7
<1>4. CASE /\ Settle(c, "apply")
           /\ \E failed \in BOOLEAN :
                /\ evidence' = [evidence EXCEPT ![pid[c]].uncounted = failed]
                /\ ~failed => Cardinality(CommitsInWindow(proposals[pid[c]].sink))
                                  < learning_max_commits_per_week
  BY <1>3, <1>4 DEF CapInv, learning_max_commits_per_week
<1> QED BY <1>2, <1>4 DEF CheckCap

(* The mark: the commit a caller was charged for becomes one of the window. *)
LEMMA CapMarkCommitted ==
    ASSUME TypeOK, TypeOK', GateInv, CapInv, NEW c \in Callers, MarkCommitted(c)
    PROVE  CapInv'
<1>a. pc[c] = "mark" /\ pc[c] \in Holding /\ clock' = clock /\ Settle(c, "final")
  BY DEF MarkCommitted, Holding, Pc
<1>b. PICK p \in Ids : p = pid[c]
  BY <1>a DEF TypeOK
<1>1. proposals \in [Ids -> Row] /\ proposals[p] \in Row
  BY DEF TypeOK
<1>2. /\ \A j \in Ids : j # p => proposals'[j] = proposals[j]
      /\ proposals'[p].sink = proposals[p].sink
  <2> DEFINE row == [proposals[p] EXCEPT !.state = "committed", !.committedAt = clock]
  <2>1. row.sink = proposals[p].sink
    BY <1>1 DEF Row
  <2> HIDE DEF row
  <2>2. proposals' = [proposals EXCEPT ![p] = row] \/ proposals' = proposals
    BY <1>b, Zenon DEF MarkCommitted, UpdateRow, row
  <2> QED BY <1>1, <2>1, <2>2
<1>3. pid' = pid /\ pc' = [pc EXCEPT ![c] = "final"] /\ pc'[c] = "final"
  BY <1>a DEF Settle, Goto, TypeOK
<1>c. \A j \in Ids : evidence'[j].uncounted = evidence[j].uncounted
  <2>1. CASE LoseMark(p)
    <3>1. StoreOK /\ evidence[p] \in Evidence
      BY DEF TypeOK, StoreOK
    <3> QED BY <2>1, <3>1, LoseMarkType DEF Evidence
  <2>2. CASE evidence' = evidence
    BY <2>2
  <2> QED BY <1>b, <2>1, <2>2 DEF MarkCommitted
<1>4. ASSUME NEW s \in Sinks
      PROVE  Cardinality(CountedCommits(s)') + Cardinality(Committing(s)')
                < learning_max_commits_per_week + Cardinality(Callers)
  <2>1. Committing(s)' \subseteq Committing(s) \ {c}
    <3>1. \A d \in Callers : pc[d] \in {"apply", "mark"} => pid[d] \in Ids
      BY DEF TypeOK, Holding, Pc
    <3>2. \A d \in Callers : d # c => pc'[d] = pc[d]
      BY <1>3 DEF TypeOK
    <3> QED BY <1>2, <1>3, <1>c, <3>1, <3>2 DEF Committing
  <2>2. CASE proposals[p].sink # s \/ evidence[p].uncounted
    <3>1. CountedCommits(s)' \subseteq CountedCommits(s)
      BY <1>a, <1>2, <1>c, <2>2 DEF CountedCommits, CommitsInWindow
    <3>2. Committing(s)' \subseteq Committing(s)
      BY <2>1
    <3>3. /\ Cardinality(CountedCommits(s)') <= Cardinality(CountedCommits(s))
          /\ Cardinality(Committing(s)') <= Cardinality(Committing(s))
          /\ Cardinality(CountedCommits(s)') \in Nat /\ Cardinality(Committing(s)') \in Nat
      BY <3>1, <3>2, Finite, FS_Subset, FS_CardinalityType
    <3> QED BY <3>3, Finite, ConfigType DEF CapInv
  <2>3. CASE proposals[p].sink = s /\ ~evidence[p].uncounted
    <3>1. CountedCommits(s)' \subseteq CountedCommits(s) \cup {p}
      BY <1>a, <1>2, <1>c DEF CountedCommits, CommitsInWindow
    <3>2. c \in Committing(s)
      BY <1>a, <1>b, <2>3 DEF Committing
    <3>3. Cardinality(Committing(s) \ {c}) = Cardinality(Committing(s)) - 1
          /\ IsFiniteSet(Committing(s) \ {c})
      BY <3>2, Finite, FS_RemoveElement
    <3>4. Cardinality(Committing(s)') <= Cardinality(Committing(s)) - 1
          /\ Cardinality(Committing(s)') \in Nat
      BY <2>1, <3>3, FS_Subset, FS_CardinalityType
    <3>5. /\ Cardinality(CountedCommits(s)') <= Cardinality(CountedCommits(s)) + 1
          /\ Cardinality(CountedCommits(s)') \in Nat
      BY <3>1, Finite, CardinalityWithOne
    <3> QED BY <3>4, <3>5, Finite, ConfigType DEF CapInv
  <2> QED BY <2>2, <2>3
<1> QED BY <1>4 DEF CapInv, learning_max_commits_per_week

LEMMA CapInit == Init => CapInv
<1> SUFFICES ASSUME Init, NEW s \in Sinks
             PROVE  Cardinality(CountedCommits(s)) + Cardinality(Committing(s))
                        < learning_max_commits_per_week + Cardinality(Callers)
  BY DEF CapInv
<1>1. NoRow.state = "absent"
  BY DEF NoRow
<1>2. CountedCommits(s) = {} /\ Committing(s) = {}
  BY <1>1 DEF Init, CountedCommits, CommitsInWindow, Committing
<1> QED BY <1>2, Finite, FS_EmptySet, ConfigType

LEMMA CapStep == TypeOK /\ TypeOK' /\ GateInv /\ CapInv /\ [Next]_vars => CapInv'
<1> SUFFICES ASSUME TypeOK, TypeOK', GateInv, CapInv, [Next]_vars PROVE CapInv'
  OBVIOUS
<1>1. CASE UNCHANGED vars
  <2>1. Shrinks /\ NoEntry
    BY <1>1, BoundsAssumption DEF vars, Shrinks, NoEntry, TypeOK
  <2> QED BY <2>1, CapShrinks
<1>2. CASE Next /\ \A c \in Callers : ~CheckCap(c) /\ ~MarkCommitted(c)
  BY <1>2, CapStepShrinks, CapShrinks
<1> QED BY <1>1, <1>2, CapCheckCap, CapMarkCommitted

(* The commits a count let pass exceed the weekly cap by less than the     *)
(* number of callers, whatever they do between counting and marking, and   *)
(* whatever fails, is lost or crashes.                                     *)
THEOREM CapOvershootBoundedHolds == Spec => []CapOvershootBounded
<1>1. TypeOK /\ CapInv => CapOvershootBounded
  BY Finite, ConfigType DEF CapInv, CapOvershootBounded
<1> QED BY <1>1, TypeCorrect, GateHolds, CapInit, CapStep, PTL DEF Spec

(* With one caller they do not exceed it, whatever fails, is lost or crashes. *)
THEOREM WithinWeeklyCapHolds ==
    ASSUME \A c, d \in Callers : c = d
    PROVE  Spec => []WithinWeeklyCap
<1>1. Cardinality(Callers) = 1
  <2>1. PICK c \in Callers : Callers = {c}
    BY CallersAssumption
  <2> QED BY <2>1, FS_Singleton
<1>2. TypeOK /\ CapOvershootBounded => WithinWeeklyCap
  BY <1>1, Finite, ConfigType DEF CapOvershootBounded, WithinWeeklyCap
<1> QED BY <1>2, TypeCorrect, CapOvershootBoundedHolds, PTL
=============================================================================
