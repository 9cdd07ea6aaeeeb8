------------------------- MODULE MCLearningEvidence -------------------------
(* A preference for the memory surface, and a mistake that is explicitly meant *)
(* as an entity alias, with a confidence inside the borderline window.         *)
EXTENDS LearningBundle
CONSTANTS x, y

MCKindOf == x :> "preference" @@ y :> "mistake_pattern"
MCTargetOf == x :> "" @@ y :> "entity"
MCConfidenceOf == x :> 90 @@ y :> 70

(* One content reported from two scopes, another one, and a kind that other *)
(* passes own.                                                              *)
Turn == [kind |-> "session_turn", scope |-> "s1", content |-> "t1"]
MCReports == {Turn, [Turn EXCEPT !.scope = "s2"],
              [Turn EXCEPT !.kind = "tool_outcome"], [Turn EXCEPT !.content = "t2"],
              [Turn EXCEPT !.kind = "claim"]}
MCQueries == {<<1, 0>>, <<0, 1>>, <<1>>}
MCVectorOf == [a \in Artifacts |->
                IF a[1] = "session_turn" THEN IF a[2] = "t1" THEN <<1, 0>> ELSE <<1, 1>>
                ELSE IF a[1] = "tool_outcome" THEN <<-1, 1>> ELSE <<1>>]
CallerSymmetry == Permutations(Callers)
=============================================================================
