-------------------------- MODULE MCModuleRuntime --------------------------
(* Calls that bring out the interesting cases of the module runtime. *)
EXTENDS ModuleRuntime, TLC
CONSTANTS c1, c2, c3, c4

Plain(corr) == [type |-> "request", corr |-> corr, kind |-> 6145, frags |-> 1, bad |-> {},
                deadline |-> 0, trace |-> "t1", resp |-> 1]
Long(corr) == [Plain(corr) EXCEPT !.frags = 2]

(* A long call, one with a deadline and a long response, one whose body is too *)
(* long (MaxBody is 2), and a frame that is no request.                        *)
GoodCalls == c1 :> Long(1)
          @@ c2 :> [Plain(2) EXCEPT !.deadline = 1, !.resp = 2]
          @@ c3 :> [Plain(3) EXCEPT !.frags = 3]
          @@ c4 :> [Plain(4) EXCEPT !.type = "other"]

(* More calls than there may be jobs: one with a long response, one under the *)
(* same correlation with another trace and a broken second fragment, and one  *)
(* more.                                                                      *)
BusyCalls == c1 :> [Plain(1) EXCEPT !.resp = 2]
          @@ c2 :> [Long(1) EXCEPT !.trace = "t2", !.bad = {2}]
          @@ c3 :> Plain(2)

(* Two requests of two fragments each. *)
LongCalls == c1 :> Long(1) @@ c2 :> Long(2)
=============================================================================
