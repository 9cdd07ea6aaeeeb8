-------------------------- MODULE MCLearningSignals --------------------------
(* An instance of LearningSignals for TLC: what users state, and detections *)
(* of which one is hostile, one too long for its action and two incomplete. *)
EXTENDS MCLearningRouter, LearningSignals

MCFlags == {"citation_repair", "repeated_correction", "repeat_question", "workflow_repetition"}
MCTurns == {"repair", "continuation"}
MCQuestions == {<<"style", TRUE>>, <<"style", FALSE>>}
MCCorrections == {<<"", 1>>}
MCWorkflows == {<<"p", "build", "make first">>, <<"p", "build", "very long">>,
                <<"p", "build", "hostile">>, <<"p", "build", "">>, <<"", "build", "short">>}

SerialInputs ==
    {CorrectMemory, SurePreference, ThumbDownManyRefs} \cup Detected
=============================================================================
