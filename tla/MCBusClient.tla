---------------------------- MODULE MCBusClient ----------------------------
(* Slots with room for a header and a few bytes: a budget of one, a budget that *)
(* fits the slot exactly, one that leaves no room for the header, one that      *)
(* leaves none for a module message, and one above the bound on payloads.       *)
EXTENDS BusClient

Slots(size, budget) == [slotSize |-> size, inlineBudget |-> budget, arenaSize |-> 4]

MCGeometries == {Slots(8, 2), Slots(6, 4), Slots(6, 5), Slots(6, 1), Slots(10, 7),
                 Slots(0, 0)}
=============================================================================
