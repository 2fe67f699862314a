------------------------------- MODULE MCTeam -------------------------------
(* Two people of one shop: the founder, who may ask for the deletion of the *)
(* account, and somebody who may be removed and invited again.              *)
EXTENDS Team, TLC

MCRows == [u \in Users |-> IF u = Founder THEN 1 ELSE 2]
MCOneRow == [u \in Users |-> 1]
MCSymmetry == Permutations(Agents)
MCSeatSymmetry == Permutations(Agents) \cup Permutations(Users \ {Founder})
=============================================================================
