----------------------------- MODULE MCGateway ------------------------------
(* One connection of the root admin's client, two of another agent's.         *)
EXTENDS Gateway

CONSTANTS root, agent, r1, a1, a2

MCOwner == [q \in Slots |-> IF q = r1 THEN root ELSE agent]
=============================================================================
