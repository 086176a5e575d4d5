----------------------------- MODULE MCPainting -----------------------------
(* Two items: a frame in two stages and a door in two stages, of which the    *)
(* last is a short one; worker 1 only does grinding and varnish, worker 2     *)
(* may not touch item 2's first process.  Day 2 is a Friday.                   *)
EXTENDS Painting

MCItem == <<1, 1, 2, 2>>
MCPart == <<1, 1, 1, 1>>
MCColor == <<1, 1, 2, 2>>
MCDefaultColor == <<1, 1, 1, 1>>
MCProcess == <<1, 1, 2, 2>>
MCStage == <<1, 2, 3, 4>>
MCDur == <<180, 120, 150, 30>>
MCDry == <<30, 0, 60, 0>>
MCSkill == <<1, 2, 1, 2>>
MCOrderOf == <<1, 2>>
MCSkills == <<{1, 2}, {2}>>
MCSkillPrio == <<(1 :> 1 @@ 2 :> 0), (1 :> 0 @@ 2 :> 1)>>
MCHours == <<[start |-> 480, end |-> 960, lunchStart |-> 720, lunchEnd |-> 780],
             [start |-> 480, end |-> 960, lunchStart |-> 700, lunchEnd |-> 760]>>
MCBarred == {<<2, 1>>}
MCRules == {[worker |-> 2, type |-> "exclusive", priority |-> 5, stage |-> 0, process |-> 2, colors |-> {}],
            [worker |-> 1, type |-> "priority", priority |-> 2, stage |-> 0, process |-> 0, colors |-> {2}]}
MCBatches == {{1}, {1, 2}}
MCSymmetry == Permutations(Requests)
=============================================================================
