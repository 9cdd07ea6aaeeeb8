---------------------------- MODULE MCModuleCall ----------------------------
(* A caller that makes three calls: one that the host refuses, a long one with a *)
(* deadline, and one with a long response.                                       *)
EXTENDS ModuleCall

Simple(c) == [type |-> "request", corr |-> c, kind |-> 6145, frags |-> 1, bad |-> {},
              deadline |-> 0, trace |-> "t1", resp |-> 1]

MCCallOf == <<[Simple(1) EXCEPT !.frags = 2, !.deadline = 1],
              [Simple(2) EXCEPT !.frags = 2, !.deadline = 2],
              [Simple(3) EXCEPT !.resp = 2]>>
=============================================================================
