----------------------------- MODULE RemoteCall -----------------------------
(***************************************************************************)
(* What a module call promises its caller, without rings, fragments or     *)
(* frames: calls are made one at a time, each is answered once or not at   *)
(* all, and a call ends with the answer to that very call or with the      *)
(* reason why its caller stopped waiting.  An answer may come too late.    *)
(***************************************************************************)
CONSTANTS Calls, Answers, Reasons

VARIABLES
    phase,      \* [Calls -> {"new", "open", "closed"}]
    answer,     \* [Calls -> Answers \cup {"none"}]: what the other side decided
    outcome     \* [Calls -> Answers \cup Reasons \cup {"none"}]: what Call returned

Begin(c) ==
    /\ phase[c] = "new"
    /\ \A d \in Calls : phase[d] # "open"
    /\ phase' = [phase EXCEPT ![c] = "open"]
    /\ UNCHANGED <<answer, outcome>>

Answer(c, a) ==
    /\ phase[c] # "new" /\ answer[c] = "none"
    /\ answer' = [answer EXCEPT ![c] = a]
    /\ UNCHANGED <<phase, outcome>>

End(c, result) ==
    /\ phase[c] = "open"
    /\ phase' = [phase EXCEPT ![c] = "closed"]
    /\ outcome' = [outcome EXCEPT ![c] = result]
    /\ UNCHANGED answer

Return(c) == answer[c] # "none" /\ End(c, answer[c])
GiveUp(c) == \E reason \in Reasons : End(c, reason)

Init == /\ phase = [c \in Calls |-> "new"]
        /\ answer = [c \in Calls |-> "none"]
        /\ outcome = [c \in Calls |-> "none"]

Next == \E c \in Calls :
            Begin(c) \/ Return(c) \/ GiveUp(c) \/ \E a \in Answers : Answer(c, a)

Spec == Init /\ [][Next]_<<phase, answer, outcome>>
=============================================================================
