----------------------------- MODULE MCTicketDesk -----------------------------
(***************************************************************************)
(* Small desks for TLC: a customer and an agent, a ticket that is there at *)
(* start and a new one.  ADMIN is left out of the roster: the handlers     *)
(* treat it as AGENT, and role changes are steps of their own.             *)
(***************************************************************************)
EXTENDS TicketDesk, TLC

CONSTANTS customer, agent1, old, new

Roster == [u \in Users |-> IF u = customer THEN "USER" ELSE "AGENT"]

NoMoves == {}
Demotions == {<<"AGENT", "USER">>}

\* agent1 resolved the old ticket, filed by the customer or by agent1 itself.
OneResolved == old :> [owner |-> customer, agent |-> agent1]
StaffResolved == old :> [owner |-> agent1, agent |-> agent1]

\* Slots are interchangeable.
SlotSymmetry == Permutations(Slots)
============================================================================
