-------------------------- MODULE MCProductionTasks --------------------------
(***************************************************************************)
(* Small orders for TLC: a lane of two or three steps, and a second lane.   *)
(***************************************************************************)
EXTENDS ProductionTasks, TLC

CONSTANTS w1, w2

\* Requests are interchangeable.
RequestSymmetry == Permutations(Workers)

\* Two steps of one part, then the first step of another.
TwoLanes == <<"panel", "panel", "door">>
TwoLanesFirsts == {1, 3}
TwoLanesQty == <<2, 1, 1>>

\* Two order items that share a part: two steps for one, the first step of
\* the other.
SharedLane == <<"panel", "panel", "panel">>

\* One part with two steps.
OneLane == <<"panel", "panel">>
OneLaneQty == <<2, 1>>

\* Floor workers that only count pieces.
Counting == [w \in Workers |-> {"count", "abort"}]

\* Every view that completes through the service.
Completing == [w \in Workers |-> AtomicOps \cup {"abort"}]

\* A manager edits and deletes while another request counts and repairs.
ManagerAndFloor == [w \in Workers |-> IF w = w1 THEN {"bulk", "set_status", "abort"}
                   ELSE {"count", "fix", "delete", "clear"}]

=============================================================================
