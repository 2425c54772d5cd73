---------------------------- MODULE MCInventory ----------------------------
(* Two serials, two slots and the snapshots that make them meet.  Two that *)
(* send a fact in common never overlap at the components, so some send     *)
(* none; two facts sent together are updated in one batch.                 *)
EXTENDS Inventory, TLC

CONSTANTS s1, s2, p1, p2, n1, a, b, k, k2, w1, w2

E(serial, slot) == [serial |-> serial, slot |-> slot]
All(K, v) == [x \in Key |-> IF x \in K THEN v ELSE None]

Alone == <<E(s2, p1)>>
Both == <<E(s1, p2), E(s2, p2)>>
Mixed == <<E(s1, p1), E(None, p1), E(None, None)>>

Snapshots == {Alone, Both, Mixed}
Reports ==
  {<<Both, NoFacts>>, <<Mixed, NoFacts>>}
    \cup {<<Alone, All({k, k2}, v)>> : v \in Value} \cup {<<Mixed, All({k}, v)>> : v \in Value}

Symmetry == Permutations({a, b}) \cup Permutations(Worker)
=============================================================================
