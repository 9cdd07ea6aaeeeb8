------------------------------- MODULE MCRing -------------------------------
(* The ring with small constants: index wrap-around happens within a few frames. *)
EXTENDS Ring
CONSTANTS a, b, bad
MCMessages == {a, b, bad}
MCUndecodable == {bad}
=============================================================================
