------------------------------ MODULE MCGroups ------------------------------
(* The global group and three more: a chain of three, two siblings, and    *)
(* two reparents that would close a cycle.                                 *)
EXTENDS Groups, TLC

CONSTANTS root, g1, g2, g3, w1, w2

Symmetry == Permutations({g1, g2, g3}) \cup Permutations(Worker)

(* What does not meet is kept apart: parameters, which update_group does   *)
(* not touch, are set while no request is in flight, and two requests are  *)
(* in flight at once only while neither renames and nobody is a member.    *)
(* That is a conjunct of the steps and not a constraint on the states, so  *)
(* that TLC does not evaluate the properties of states it then drops.  The *)
(* cfg's constraint ends a behaviour with its first cycle, of which        *)
(* nothing is promised.                                                    *)
InFlight == {w \in Worker : req[w] # NoReq}

Apart ==
  /\ InFlight # {} => hparam = {} /\ gparam = {}
  /\ Cardinality(InFlight) > 1 => member = {} /\ \A w \in Worker : req[w].name = None

Explored == Init /\ [][Next /\ Apart']_vars
=============================================================================
