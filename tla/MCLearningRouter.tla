-------------------------- MODULE MCLearningRouter --------------------------
(* Instances of LearningRouter for TLC. *)
EXTENDS LearningRouter, TLC

Blank == [type |-> "other", key |-> "", mem |-> 0, text |-> "", title |-> "",
          desc |-> "", refs |-> "none", project |-> "", wtype |-> "",
          high |-> FALSE]

ThumbDownManyRefs == [Blank EXCEPT !.type = "thumb_down", !.refs = "overlong"]
CorrectMemory == [Blank EXCEPT !.type = "correction", !.mem = 1, !.text = "tabs"]
CorrectMemoryAgain == [Blank EXCEPT !.type = "correction", !.mem = 1, !.text = "spaces"]
Preference == [Blank EXCEPT !.type = "preference_statement", !.desc = "short"]
SurePreference == [Preference EXCEPT !.high = TRUE]
MarkRule == [Blank EXCEPT !.type = "mark_rule", !.title = "always test"]

MCText == {"", "indent", "tabs", "spaces", "style", "short", "always test", "p",
           "build", "make first", "very long", "hostile", "payload", "detected"}
MCKeyOf == [m \in {1} |-> "indent"]
MCOversized == {"very long"}
MCHostile == {"hostile"}
Mined == [verb |-> "artifact", about |-> "", text |-> "payload", cites |-> FALSE,
          parses |-> TRUE]

RaceInputs == {CorrectMemory, MarkRule}
CapInputs == {MarkRule}
CorrectionInputs == {CorrectMemory, CorrectMemoryAgain}
MCMined == {Mined}
CallerSymmetry == Permutations(Callers)
=============================================================================
