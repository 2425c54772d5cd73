---------------------------- MODULE Groups_proofs ----------------------------
(* Machine-checked proofs about Groups, for any number of groups, hosts,   *)
(* names and concurrent requests.                                          *)
EXTENDS Groups, FiniteSetTheorems, WellFoundedInduction, TLAPS

(* A request that is not out of date holds its new parent's row as it is,  *)
(* and when it is checked may commit: the group does not sit above its new *)
(* parent.                                                                 *)
CheckHolds(w) ==
  req[w].at \in {"found", "checked"} /\ req[w].parent # None =>
    /\ req[w].parent \in issued
    /\ ~req[w].stale /\ req[w].parent \in groups =>
         /\ req[w].above = parent[req[w].parent]
         /\ req[w].at = "checked" => req[w].group \notin Chain(req[w].parent)

ReqInv == \A w \in Worker : CheckHolds(w)

GInv == TypeOK /\ ReqInv

-----------------------------------------------------------------------------
(* Chain(g) is the least upward closed set around g, Subtree(g) the least  *)
(* downward closed one.                                                    *)

LEMMA ChainSelf == ASSUME NEW g \in Group PROVE g \in Chain(g)
  BY DEF Chain, ChainIn, UpwardIn

LEMMA ChainClosed ==
  ASSUME NEW g \in Group, NEW x \in Chain(g), parent[x] \in Group, parent[x] # None
  PROVE  parent[x] \in Chain(g)
  BY DEF Chain, ChainIn, UpwardIn

LEMMA ChainLeast ==
  ASSUME NEW g \in Group, NEW S \in SUBSET Group, g \in S,
         \A x \in S : parent[x] = None \/ parent[x] \in S
  PROVE  Chain(g) \subseteq S
  BY DEF Chain, ChainIn, UpwardIn

LEMMA SubtreeSelf == ASSUME NEW g \in Group PROVE g \in Subtree(g)
  BY DEF Subtree, Downward

LEMMA SubtreeClosed ==
  ASSUME NEW g \in Group, NEW x \in Group, parent[x] \in Subtree(g)
  PROVE  x \in Subtree(g)
  BY DEF Subtree, Downward

LEMMA SubtreeLeast ==
  ASSUME NEW g \in Group, NEW S \in SUBSET Group, g \in S,
         \A x \in Group : parent[x] \in S => x \in S
  PROVE  Subtree(g) \subseteq S
  BY DEF Subtree, Downward

(* ancestor_chain and subtree_ids are each other's mirror: what is not     *)
(* beneath a is closed upward, what is not above g is closed downward.     *)
LEMMA Mirror ==
  ASSUME TypeOK, NEW a \in Group, NEW g \in Group
  PROVE  a \in Chain(g) <=> g \in Subtree(a)
<1>1. \A x \in Group : parent[x] \in Group \/ parent[x] = None
  BY DEF TypeOK
<1>2. ASSUME a \in Chain(g) PROVE g \in Subtree(a)
  <2> DEFINE S == Group \ Subtree(a)
  <2>1. \A x \in S : parent[x] = None \/ parent[x] \in S
    BY <1>1, SubtreeClosed
  <2>2. ~(g \in S)
    <3> SUFFICES ASSUME g \in S PROVE FALSE
      OBVIOUS
    <3>1. Chain(g) \subseteq S
      BY <2>1, ChainLeast
    <3> QED
      BY <3>1, <1>2, SubtreeSelf
  <2> QED
    BY <2>2
<1>3. ASSUME g \in Subtree(a) PROVE a \in Chain(g)
  <2> DEFINE S == Group \ Chain(g)
  <2>1. \A x \in Group : parent[x] \in S => x \in S
    <3> SUFFICES ASSUME NEW x \in Group, parent[x] \in S, x \in Chain(g) PROVE FALSE
      OBVIOUS
    <3> QED
      BY ChainClosed, NoneIsNothing
  <2>2. ~(a \in S)
    <3> SUFFICES ASSUME a \in S PROVE FALSE
      OBVIOUS
    <3>1. Subtree(a) \subseteq S
      BY <2>1, SubtreeLeast
    <3> QED
      BY <3>1, <1>3, ChainSelf
  <2> QED
    BY <2>2
<1> QED
  BY <1>2, <1>3

-----------------------------------------------------------------------------
LEMMA InitGInv == Init => GInv
  BY RootIsAGroup, NoneIsNothing DEF Init, GInv, TypeOK, ReqInv, CheckHolds, Req, NoReq

(* Steps that leave the tree and the requests alone.                       *)
LEMMA OutsideGInv ==
  ASSUME GInv, UNCHANGED <<tree, req>>,
         member' \subseteq Host \X (groups \ {Root}), gparam' \subseteq groups,
         hparam' \subseteq Host
  PROVE  GInv'
<1>1. TypeOK'
  BY DEF GInv, TypeOK, tree
<1>2. ReqInv'
  BY DEF GInv, ReqInv, CheckHolds, tree, Chain, ChainIn, UpwardIn
<1> QED
  BY <1>1, <1>2 DEF GInv

LEMMA CreateGInv ==
  ASSUME GInv, NEW g \in Group, NEW n \in Name, NEW p \in Group, CreateGroup(g, n, p)
  PROVE  GInv'
<1>1. TypeOK'
  BY RootIsAGroup, NoneIsNothing DEF GInv, TypeOK, CreateGroup
<1>2. ASSUME NEW w \in Worker PROVE CheckHolds(w)'
  <2>1. req' = req /\ CheckHolds(w)
    BY DEF GInv, ReqInv, CreateGroup
  <2>p. req[w].at \in {"found", "checked"} /\ req[w].parent # None
          => req[w].parent \in issued'
    BY <2>1 DEF CheckHolds, CreateGroup
  <2>a. ASSUME req[w].at \in {"found", "checked"}, req[w].parent # None, ~req[w].stale,
               req[w].parent \in groups'
        PROVE  req[w].above = parent'[req[w].parent]
    <3>1. req[w].parent \in groups /\ req[w].above = parent[req[w].parent]
      BY <2>1, <2>a DEF CheckHolds, CreateGroup, GInv, TypeOK
    <3> QED
      BY <2>a, <3>1 DEF CreateGroup, GInv, TypeOK
  <2> SUFFICES ASSUME req[w].at = "checked", req[w].parent # None, ~req[w].stale,
                      req[w].parent \in groups'
               PROVE  req[w].group \notin Chain(req[w].parent)'
    BY <2>1, <2>p, <2>a DEF CheckHolds
  <2> DEFINE q == req[w].parent
             C == Chain(q)
  <2>2. q \in groups /\ q # g /\ req[w].group \notin C
    BY <2>1 DEF CheckHolds, CreateGroup
  <2>3. q \in Group /\ g \notin groups
    BY <2>2 DEF GInv, TypeOK, CreateGroup
  <2>4. \A x \in C : parent[x] = None \/ parent[x] \in C
    BY <2>3, ChainClosed DEF GInv, TypeOK, Chain, ChainIn
  <2>5. \A x \in Group : parent[x] # g
    BY <2>3, NoneIsNothing DEF GInv, TypeOK
  <2>6. C \ {g} \in SUBSET Group /\ q \in C \ {g}
    BY <2>2, <2>3, ChainSelf DEF Chain, ChainIn
  <2>7. \A x \in C \ {g} : parent'[x] = None \/ parent'[x] \in C \ {g}
    BY <2>4, <2>5 DEF CreateGroup, GInv, TypeOK, Chain, ChainIn
  <2>8. Chain(q)' \subseteq C \ {g}
    BY <2>1, <2>3, <2>6, <2>7 DEF Chain, ChainIn, UpwardIn
  <2> QED
    BY <2>1, <2>2, <2>8
<1> QED
  BY <1>1, <1>2 DEF GInv, ReqInv

LEMMA DeleteGInv ==
  ASSUME GInv, NEW g \in Group, DeleteGroup(g)
  PROVE  GInv'
<1>1. TypeOK'
  <2>1. parent' \in [Group -> groups' \cup {None}]
    BY DEF GInv, TypeOK, DeleteGroup
  <2>2. member' \subseteq Host \X (groups' \ {Root})
    BY DEF GInv, TypeOK, DeleteGroup, MembersWithout
  <2>3. \A x \in Group : parent'[x] # None <=> x \in groups' \ {Root}
    BY DEF GInv, TypeOK, DeleteGroup
  <2> QED
    BY <2>1, <2>2, <2>3 DEF GInv, TypeOK, DeleteGroup
<1>2. ASSUME NEW w \in Worker PROVE CheckHolds(w)'
  <2>1. req' = req /\ CheckHolds(w)
    BY DEF GInv, ReqInv, DeleteGroup
  <2>p. req[w].at \in {"found", "checked"} /\ req[w].parent # None
          => req[w].parent \in issued'
    BY <2>1 DEF CheckHolds, DeleteGroup
  <2>a. ASSUME req[w].at \in {"found", "checked"}, req[w].parent # None, ~req[w].stale,
               req[w].parent \in groups'
        PROVE  req[w].above = parent'[req[w].parent]
    <3>1. req[w].parent \in groups /\ req[w].above = parent[req[w].parent]
      BY <2>1, <2>a DEF CheckHolds, DeleteGroup, GInv, TypeOK
    <3> QED
      BY <2>a, <3>1 DEF DeleteGroup, GInv, TypeOK
  <2> SUFFICES ASSUME req[w].at = "checked", req[w].parent # None, ~req[w].stale,
                      req[w].parent \in groups'
               PROVE  req[w].group \notin Chain(req[w].parent)'
    BY <2>1, <2>p, <2>a DEF CheckHolds
  <2> DEFINE q == req[w].parent
             C == Chain(q)
  <2>2. q \in groups /\ req[w].group \notin C /\ q \in Group
    BY <2>1 DEF CheckHolds, DeleteGroup, GInv, TypeOK
  <2>3. C \in SUBSET Group /\ q \in C
    BY <2>2, ChainSelf DEF Chain, ChainIn
  <2>4. \A x \in C : parent'[x] = None \/ parent'[x] \in C
    BY <2>2, ChainClosed DEF GInv, TypeOK, Chain, ChainIn, DeleteGroup
  <2>5. Chain(q)' \subseteq C
    BY <2>1, <2>2, <2>3, <2>4 DEF Chain, ChainIn, UpwardIn
  <2> QED
    BY <2>1, <2>2, <2>5
<1> QED
  BY <1>1, <1>2 DEF GInv, ReqInv

LEMMA LoadGInv ==
  ASSUME GInv, NEW w \in Worker, NEW g \in Group, NEW n \in Name \cup {None},
         NEW p \in Group \cup {None}, UpdateLoad(w, g, n, p)
  PROVE  GInv'
<1> DEFINE r == [at |-> IF p = None THEN "checked" ELSE "loaded", group |-> g, name |-> n,
                 parent |-> p, above |-> None, stale |-> FALSE]
<1>1. req' = [req EXCEPT ![w] = r] /\ UNCHANGED <<tree, member, gparam, hparam>>
  BY DEF UpdateLoad
<1>2. r \in Req /\ r.group \in Group \ {Root} /\ (r.at = "checked" => r.parent = None)
      /\ r.at # "found"
  BY DEF UpdateLoad, Req, GInv, TypeOK
<1> HIDE DEF r
<1>3. TypeOK'
  BY <1>1, <1>2 DEF GInv, TypeOK, tree
<1>4. ASSUME NEW v \in Worker PROVE CheckHolds(v)'
  <2>1. CASE v # w
    BY <1>1, <2>1 DEF GInv, ReqInv, CheckHolds, TypeOK, tree, Chain, ChainIn, UpwardIn
  <2>2. CASE v = w
    BY <1>1, <1>2, <2>2 DEF CheckHolds, GInv, TypeOK
  <2> QED
    BY <2>1, <2>2
<1> QED
  BY <1>3, <1>4 DEF GInv, ReqInv

LEMMA FindGInv ==
  ASSUME GInv, NEW w \in Worker, UpdateFind(w)
  PROVE  GInv'
<1> DEFINE q == req[w].parent
           r == [req[w] EXCEPT !.at = "found", !.above = parent[q]]
<1>1. req' = [req EXCEPT ![w] = r] /\ UNCHANGED <<tree, member, gparam, hparam>>
  BY DEF UpdateFind, GInv, TypeOK
<1>2. /\ r \in Req /\ r.group = req[w].group /\ req[w] # NoReq
      /\ r.at = "found" /\ r.parent = q /\ q \in groups /\ r.above = parent[q]
  <2>1. req[w] \in Req /\ parent[q] \in Group \cup {None} /\ q \in groups
        /\ req[w].at = "loaded"
    BY DEF UpdateFind, GInv, TypeOK
  <2>2. req[w] # NoReq
    <3>1. NoReq.at = "none"
      BY DEF NoReq
    <3> QED
      BY <2>1, <3>1
  <2> QED
    BY <2>1, <2>2 DEF Req
<1> HIDE DEF r, q
<1>3. TypeOK'
  <2>1. req' \in [Worker -> Req]
    BY <1>1, <1>2 DEF GInv, TypeOK
  <2>2. \A v \in Worker : req'[v] # NoReq => req'[v].group \in Group \ {Root}
    BY <1>1, <1>2 DEF GInv, TypeOK
  <2> QED
    BY <1>1, <2>1, <2>2 DEF GInv, TypeOK, tree
<1>4. ASSUME NEW v \in Worker PROVE CheckHolds(v)'
  <2>1. CASE v # w
    BY <1>1, <2>1 DEF GInv, ReqInv, CheckHolds, TypeOK, tree, Chain, ChainIn, UpwardIn
  <2>2. CASE v = w
    BY <1>1, <1>2, <2>2 DEF CheckHolds, GInv, TypeOK, tree
  <2> QED
    BY <2>1, <2>2
<1> QED
  BY <1>3, <1>4 DEF GInv, ReqInv

(* Until another reparent commits, the rows the session holds are those    *)
(* that are stored.                                                        *)
LEMMA CheckGInv ==
  ASSUME GInv, NEW w \in Worker, UpdateCheck(w)
  PROVE  GInv'
<1> DEFINE q == req[w].parent
           r == [req[w] EXCEPT !.at = "checked"]
<1>1. req' = [req EXCEPT ![w] = r] /\ UNCHANGED <<tree, member, gparam, hparam>>
  BY DEF UpdateCheck, GInv, TypeOK
<1>2. /\ r \in Req /\ r.group = req[w].group /\ req[w] # NoReq
      /\ r.at = "checked" /\ r.parent = q /\ r.above = req[w].above
      /\ r.stale = req[w].stale /\ req[w].at = "found"
      /\ MayAdopt(q, req[w].above, req[w].group)
  BY DEF UpdateCheck, Req, GInv, TypeOK, NoReq
<1> HIDE DEF r
<1>3. TypeOK'
  <2>1. req' \in [Worker -> Req]
    BY <1>1, <1>2 DEF GInv, TypeOK
  <2>2. \A v \in Worker : req'[v] # NoReq => req'[v].group \in Group \ {Root}
    BY <1>1, <1>2 DEF GInv, TypeOK
  <2> QED
    BY <1>1, <2>1, <2>2 DEF GInv, TypeOK, tree
<1>4. ASSUME NEW v \in Worker PROVE CheckHolds(v)'
  <2>1. CASE v # w
    BY <1>1, <2>1 DEF GInv, ReqInv, CheckHolds, TypeOK, tree, Chain, ChainIn, UpwardIn
  <2>2. CASE v = w
    <3>1. /\ q \in groups /\ groups \subseteq issued
          /\ ~req[w].stale => req[w].above = parent[q]
      <4>1. q \in groups /\ groups \subseteq issued /\ q # None
        BY <1>2, NoneIsNothing DEF MayAdopt, GInv, TypeOK
      <4> QED
        BY <1>2, <4>1 DEF GInv, ReqInv, CheckHolds
    <3>2. req[w].above = parent[q] => [parent EXCEPT ![q] = req[w].above] = parent
      BY <3>1 DEF GInv, TypeOK
    <3>3. ~req[w].stale => req[w].group \notin Chain(q)
      BY <1>2, <3>1, <3>2 DEF MayAdopt, Chain
    <3>4. req'[v] = r
      BY <1>1, <2>2 DEF GInv, TypeOK
    <3>5. /\ UNCHANGED <<groups, issued, parent>>
          /\ req'[v].parent = q /\ req'[v].group = req[w].group /\ req'[v].at = "checked"
          /\ req'[v].above = req[w].above /\ req'[v].stale = req[w].stale
      BY <1>1, <1>2, <3>4 DEF tree
    <3> HIDE DEF q
    <3>6. Chain(req[v].parent)' = Chain(q)
      BY <3>5 DEF Chain
    <3> QED
      BY <3>1, <3>3, <3>5, <3>6 DEF CheckHolds
  <2> QED
    BY <2>1, <2>2
<1> QED
  BY <1>3, <1>4 DEF GInv, ReqInv

LEMMA FailsGInv ==
  ASSUME GInv, NEW w \in Worker, UpdateFails(w)
  PROVE  GInv'
<1>1. TypeOK'
  BY DEF GInv, TypeOK, UpdateFails, Req, NoReq, tree
<1>2. ASSUME NEW v \in Worker PROVE CheckHolds(v)'
  BY DEF GInv, ReqInv, CheckHolds, UpdateFails, TypeOK, tree, Chain, ChainIn, UpwardIn, NoReq
<1> QED
  BY <1>1, <1>2 DEF GInv, ReqInv

LEMMA CommitGInv ==
  ASSUME GInv, NEW w \in Worker, UpdateCommit(w)
  PROVE  GInv'
<1> DEFINE r == req[w]
<1>1. /\ r \in Req /\ r # NoReq /\ r.group \in groups \ {Root}
      /\ r.parent # None => r.parent \in groups
      /\ parent' = IF r.parent = None THEN parent ELSE [parent EXCEPT ![r.group] = r.parent]
      /\ name' = IF r.name = None THEN name ELSE [name EXCEPT ![r.group] = r.name]
      /\ UNCHANGED <<groups, issued, member, gparam, hparam>>
  <2>1. NoReq.at = "none" /\ r.at = "checked" /\ r \in Req
    BY DEF NoReq, GInv, TypeOK, UpdateCommit
  <2>2. r # NoReq
    BY <2>1
  <2>3. r.group \in groups \ {Root}
    BY <2>2 DEF GInv, TypeOK, UpdateCommit
  <2> QED
    BY <2>1, <2>2, <2>3 DEF UpdateCommit, Reparented
<1>2. \A v \in Worker :
        /\ v = w => req'[v] = NoReq
        /\ v # w /\ r.parent # None /\ Rests(v) => req'[v] = [req[v] EXCEPT !.stale = TRUE]
        /\ v # w /\ (r.parent = None \/ ~Rests(v)) => req'[v] = req[v]
  BY DEF UpdateCommit
<1>3. TypeOK'
  <2>1. req' \in [Worker -> Req]
    <3>1. ASSUME NEW v \in Worker PROVE req'[v] \in Req
      <4>1. NoReq \in Req /\ req[v] \in Req
        BY DEF GInv, TypeOK, Req, NoReq
      <4>2. [req[v] EXCEPT !.stale = TRUE] \in Req
        BY <4>1 DEF Req
      <4> QED
        BY <1>2, <4>1, <4>2
    <3> QED
      BY <3>1 DEF UpdateCommit
  <2>2. \A v \in Worker : req'[v] # NoReq => req'[v].group \in Group \ {Root}
    <3> SUFFICES ASSUME NEW v \in Worker, v # w, req'[v] # NoReq
                 PROVE  req'[v].group \in Group \ {Root}
      BY <1>2
    <3>1. req[v] \in Req
      BY DEF GInv, TypeOK
    <3>2. req[v] = NoReq => req'[v] = NoReq
      <4>1. NoReq.parent = None
        BY DEF NoReq
      <4>2. req[v] = NoReq => ~Rests(v)
        BY <4>1 DEF Rests
      <4> QED
        BY <1>2, <4>2
    <3> QED
      BY <1>2, <3>1, <3>2 DEF GInv, TypeOK, Req
  <2>3. /\ parent' \in [Group -> groups' \cup {None}]
        /\ \A x \in Group : parent'[x] # None <=> x \in groups' \ {Root}
    BY <1>1, NoneIsNothing DEF GInv, TypeOK
  <2>4. name' \in [Group -> Name \cup {0}]
    BY <1>1 DEF GInv, TypeOK, Req
  <2> QED
    BY <1>1, <2>1, <2>2, <2>3, <2>4 DEF GInv, TypeOK
<1>4. ASSUME NEW v \in Worker PROVE CheckHolds(v)'
  <2>1. CASE v = w
    <3>1. req'[v].parent = None
      <4>1. NoReq.parent = None
        BY DEF NoReq
      <4> QED
        BY <1>2, <2>1, <4>1
    <3> QED
      BY <3>1 DEF CheckHolds
  <2>2. CASE v # w /\ r.parent = None
    <3>1. /\ req[v] \in Req
          /\ CheckHolds(v)
      BY DEF GInv, TypeOK, ReqInv
    <3>2. /\ req'[v].group = req[v].group
          /\ req'[v].parent = req[v].parent
          /\ req'[v].above = req[v].above /\ req'[v].at = req[v].at
          /\ ~req'[v].stale => ~req[v].stale
      BY <1>2, <2>2, <3>1 DEF Req
    <3> QED
      BY <1>1, <2>2, <3>1, <3>2 DEF CheckHolds, Chain, ChainIn, UpwardIn
  <2>3. CASE v # w /\ r.parent # None
    <3>1. /\ req[v] \in Req
          /\ CheckHolds(v)
      BY DEF GInv, TypeOK, ReqInv
    <3>2. /\ req'[v].parent = req[v].parent
          /\ req'[v].at = req[v].at
          /\ Rests(v) => req'[v].stale
      <4>1. CASE Rests(v)
        BY <1>2, <2>3, <3>1, <4>1 DEF Req
      <4>2. CASE ~Rests(v)
        BY <1>2, <2>3, <4>2
      <4> QED
        BY <4>1, <4>2
    <3> QED
      BY <1>1, <3>1, <3>2 DEF CheckHolds, Rests
  <2> QED
    BY <2>1, <2>2, <2>3
<1> QED
  BY <1>3, <1>4 DEF GInv, ReqInv

LEMMA StepGInv == ASSUME GInv, [Next]_vars PROVE GInv'
<1>1. ASSUME NEW g \in Group, TreeStep(g) PROVE GInv'
  <2>1. ASSUME NEW n \in Name, NEW p \in Group, CreateGroup(g, n, p) PROVE GInv'
    BY <2>1, CreateGInv
  <2>2. CASE DeleteGroup(g)
    BY <2>2, DeleteGInv
  <2>3. CASE SetGroupParameter(g) \/ UnsetGroupParameter(g)
    BY <2>3, OutsideGInv DEF SetGroupParameter, UnsetGroupParameter, GInv, TypeOK
  <2>4. ASSUME NEW h \in Host, AddMember(h, g) \/ RemoveMember(h, g) PROVE GInv'
    BY <2>4, OutsideGInv DEF AddMember, RemoveMember, GInv, TypeOK
  <2> QED
    BY <1>1, <2>1, <2>2, <2>3, <2>4 DEF TreeStep
<1>2. ASSUME NEW w \in Worker, UpdateStep(w) PROVE GInv'
  BY <1>2, LoadGInv, FindGInv, CheckGInv, CommitGInv, FailsGInv DEF UpdateStep
<1>3. ASSUME NEW h \in Host, SetHostParameter(h) \/ UnsetHostParameter(h) PROVE GInv'
  BY <1>3, OutsideGInv DEF SetHostParameter, UnsetHostParameter, GInv, TypeOK
<1>4. CASE UNCHANGED vars
  BY <1>4, OutsideGInv DEF vars, GInv, TypeOK
<1> QED
  BY <1>1, <1>2, <1>3, <1>4 DEF Next

LEMMA GInvAlways == Spec => []GInv
  BY InitGInv, StepGInv, PTL DEF Spec

(* Rows keep their shapes, every parent, membership and group parameter    *)
(* names a group that exists, and no group but the global one is a root.   *)
THEOREM TypeCorrect == Spec => []TypeOK
<1>1. GInv => TypeOK
  BY DEF GInv
<1> QED
  BY <1>1, GInvAlways, PTL

(* list_effective_member_host_ids lists a host under exactly the groups    *)
(* resolve_parameters takes parameters from for it.                        *)
THEOREM MirrorsInheritance == Spec => []MembershipMirrorsInheritance
<1>1. ASSUME TypeOK PROVE MembershipMirrorsInheritance
  <2> SUFFICES ASSUME NEW h \in Host, NEW g \in groups
               PROVE  h \in EffectiveMembers(g) <=> g \in Contributing(h)
    BY DEF MembershipMirrorsInheritance
  <2>1. g \in Group
    BY <1>1 DEF TypeOK
  <2>2. CASE g = Root
    <3>1. parent[g] = None
      BY <1>1, <2>1, <2>2 DEF TypeOK
    <3> QED
      BY <2>2, <3>1 DEF EffectiveMembers, Contributing
  <2>3. CASE g # Root
    <3>1. parent[g] # None
      BY <1>1, <2>1, <2>3 DEF TypeOK
    <3>2. h \in EffectiveMembers(g) <=> \E x \in Subtree(g) : <<h, x>> \in member
      BY <3>1 DEF EffectiveMembers, Direct
    <3>3. g \in Contributing(h) <=> \E x \in Group : <<h, x>> \in member /\ g \in Chain(x)
      BY <2>3 DEF Contributing, MemberOf
    <3>4. Subtree(g) \subseteq Group
      BY DEF Subtree
    <3>5. \A x \in Group : g \in Chain(x) <=> x \in Subtree(g)
      BY <1>1, <2>1, Mirror
    <3> QED
      BY <3>2, <3>3, <3>4, <3>5
  <2> QED
    BY <2>2, <2>3
<1> QED
  BY <1>1, TypeCorrect, PTL

-----------------------------------------------------------------------------
(* One step keeps a tree a tree.                                           *)

LEMMA CreateTree ==
  ASSUME TypeOK, Tree, NEW g \in Group, NEW n \in Name, NEW p \in Group, CreateGroup(g, n, p)
  PROVE  Tree'
<1> SUFFICES ASSUME NEW S \in SUBSET (groups' \ {Root}), S # {}, \A x \in S : parent'[x] \in S
             PROVE  FALSE
  BY DEF Tree
<1>1. g \notin groups /\ groups' = groups \cup {g} /\ p \in groups
  BY DEF CreateGroup, TypeOK
<1>2. \A x \in groups : parent'[x] = parent[x] /\ parent[x] # g
  BY <1>1, NoneIsNothing DEF CreateGroup, TypeOK
<1>3. parent'[g] = p
  BY DEF CreateGroup, TypeOK
<1> DEFINE T == S \ {g}
<1>4. T \in SUBSET (groups \ {Root}) /\ \A x \in T : parent[x] \in T
  BY <1>1, <1>2
<1>5. T # {}
  BY <1>1, <1>3
<1> QED
  BY <1>4, <1>5 DEF Tree

LEMMA DeleteTree ==
  ASSUME TypeOK, Tree, NEW g \in Group, DeleteGroup(g)
  PROVE  Tree'
<1> SUFFICES ASSUME NEW S \in SUBSET (groups' \ {Root}), S # {}, \A x \in S : parent'[x] \in S
             PROVE  FALSE
  BY DEF Tree
<1>1. S \in SUBSET (groups \ {Root}) /\ \A x \in S : parent[x] \in S
  BY DEF DeleteGroup, TypeOK
<1> QED
  BY <1>1 DEF Tree

(* A set closed under the new parents holds the reparented group, so it    *)
(* holds the new parent; what it has in common with the new parent's chain *)
(* was closed under the old ones.                                          *)
LEMMA CommitTree ==
  ASSUME GInv, Tree, NEW w \in Worker, UpdateCommit(w), ~req[w].stale
  PROVE  Tree'
<1> DEFINE g == req[w].group
           p == req[w].parent
<1>1. groups' = groups /\ groups \subseteq Group /\ parent \in [Group -> groups \cup {None}]
  BY DEF UpdateCommit, GInv, TypeOK
<1>2. CASE p = None
  BY <1>1, <1>2 DEF UpdateCommit, Tree
<1>3. CASE p # None
  <2>1. p \in groups /\ g \in groups /\ g \notin Chain(p)
    BY <1>3 DEF UpdateCommit, GInv, ReqInv, CheckHolds
  <2>2. parent'[g] = p /\ \A x \in Group \ {g} : parent'[x] = parent[x]
    BY <1>1, <1>3, <2>1 DEF UpdateCommit, Reparented
  <2> SUFFICES ASSUME NEW S \in SUBSET (groups \ {Root}), S # {}, \A x \in S : parent'[x] \in S
               PROVE  FALSE
    BY <1>1 DEF Tree
  <2>3. g \in S
    BY <1>1, <2>2 DEF Tree
  <2>4. p \in S /\ p \in Chain(p)
    BY <1>1, <2>1, <2>2, <2>3, ChainSelf
  <2> DEFINE T == S \cap Chain(p)
  <2>5. ASSUME NEW x \in T PROVE parent[x] \in T
    <3>1. x \in Group /\ x # g
      BY <1>1, <2>1
    <3>2. parent[x] \in S
      BY <2>2, <3>1
    <3>3. parent[x] \in Group /\ parent[x] # None
      BY <1>1, <3>2, NoneIsNothing
    <3> QED
      BY <1>1, <2>1, <3>2, <3>3, ChainClosed
  <2>6. T \in SUBSET (groups \ {Root}) /\ T # {}
    BY <2>4
  <2> QED
    BY <2>5, <2>6 DEF Tree
<1> QED
  BY <1>2, <1>3

(* However many requests overlap, only a reparent that had loaded its new  *)
(* parent before another reparent committed can break the tree.            *)
THEOREM TreeStays == Spec => TreeKept
<1> DEFINE Late == \E w \in Worker : req[w].stale /\ UpdateCommit(w)
<1>1. ASSUME GInv, [Next]_vars, Tree, ~Late PROVE Tree'
  <2>1. ASSUME NEW g \in Group, TreeStep(g) PROVE Tree'
    <3>1. ASSUME NEW n \in Name, NEW p \in Group, CreateGroup(g, n, p) PROVE Tree'
      BY <1>1, <3>1, CreateTree DEF GInv
    <3>2. CASE DeleteGroup(g)
      BY <1>1, <3>2, DeleteTree DEF GInv
    <3>3. CASE SetGroupParameter(g) \/ UnsetGroupParameter(g)
      BY <1>1, <3>3 DEF SetGroupParameter, UnsetGroupParameter, Tree, tree
    <3>4. ASSUME NEW h \in Host, AddMember(h, g) \/ RemoveMember(h, g) PROVE Tree'
      BY <1>1, <3>4 DEF AddMember, RemoveMember, Tree, tree
    <3> QED
      BY <2>1, <3>1, <3>2, <3>3, <3>4 DEF TreeStep
  <2>2. ASSUME NEW w \in Worker, UpdateCommit(w) PROVE Tree'
    BY <1>1, <2>2, CommitTree
  <2>3. ASSUME NEW w \in Worker, UpdateStep(w), ~UpdateCommit(w) PROVE Tree'
    BY <1>1, <2>3 DEF UpdateStep, UpdateLoad, UpdateFind, UpdateCheck, UpdateFails, Tree, tree
  <2>4. ASSUME NEW h \in Host, SetHostParameter(h) \/ UnsetHostParameter(h) PROVE Tree'
    BY <1>1, <2>4 DEF SetHostParameter, UnsetHostParameter, Tree, tree
  <2>5. CASE UNCHANGED vars
    BY <1>1, <2>5 DEF vars, tree, Tree
  <2> QED
    BY <1>1, <2>1, <2>2, <2>3, <2>4, <2>5 DEF Next
<1>2. GInv /\ [Next]_vars => [Tree => Tree' \/ Late]_vars
  BY <1>1
<1> QED
  BY <1>2, GInvAlways, PTL DEF Spec, TreeKept

-----------------------------------------------------------------------------
(* Any table of parents, to compare the one before a step with the one     *)
(* after it.                                                               *)

DownwardIn(par, g) ==
  {S \in SUBSET Group : g \in S /\ \A x \in Group : par[x] \in S => x \in S}

SubtreeIn(par, g) == {a \in Group : \A S \in DownwardIn(par, g) : a \in S}

(* The groups gs have a parent each but for the global one, and are a tree.*)
Parents(par, gs) ==
  /\ gs \subseteq Group /\ Root \in gs
  /\ par \in [Group -> gs \cup {None}]
  /\ \A g \in Group : par[g] # None <=> g \in gs \ {Root}

TreeIn(par, gs) == \A S \in SUBSET (gs \ {Root}) : S # {} => \E x \in S : par[x] \notin S

LEMMA ChainInSelf == ASSUME NEW par, NEW g \in Group PROVE g \in ChainIn(par, g)
  BY DEF ChainIn, UpwardIn

LEMMA ChainInClosed ==
  ASSUME NEW par, NEW g \in Group, NEW x \in ChainIn(par, g), par[x] \in Group, par[x] # None
  PROVE  par[x] \in ChainIn(par, g)
  BY DEF ChainIn, UpwardIn

LEMMA ChainInLeast ==
  ASSUME NEW par, NEW g \in Group, NEW S \in SUBSET Group, g \in S,
         \A x \in S : par[x] = None \/ par[x] \in S
  PROVE  ChainIn(par, g) \subseteq S
  BY DEF ChainIn, UpwardIn

LEMMA SubtreeInLeast ==
  ASSUME NEW par, NEW g \in Group, NEW S \in SUBSET Group, g \in S,
         \A x \in Group : par[x] \in S => x \in S
  PROVE  SubtreeIn(par, g) \subseteq S
  BY DEF SubtreeIn, DownwardIn

(* The chain of a parent is the rest of the chain.                         *)
LEMMA ChainInStep ==
  ASSUME NEW gs, NEW par, Parents(par, gs), NEW g \in gs \ {Root}
  PROVE  ChainIn(par, g) = {g} \cup ChainIn(par, par[g])
<1> DEFINE p == par[g]
<1>1. g \in Group /\ p \in Group /\ p # None
  BY NoneIsNothing DEF Parents
<1>2. p \in ChainIn(par, g) /\ g \in ChainIn(par, g)
  BY <1>1, ChainInSelf, ChainInClosed
<1>3. \A x \in Group : par[x] = None \/ (par[x] \in Group /\ par[x] # None)
  BY NoneIsNothing DEF Parents
<1>4. ChainIn(par, p) \subseteq ChainIn(par, g)
  <2>1. ChainIn(par, g) \in SUBSET Group
    BY DEF ChainIn
  <2>2. \A x \in ChainIn(par, g) : par[x] = None \/ par[x] \in ChainIn(par, g)
    BY <1>1, <1>3, <2>1, ChainInClosed
  <2> QED
    BY <1>1, <1>2, <2>1, <2>2, ChainInLeast
<1>5. ChainIn(par, g) \subseteq {g} \cup ChainIn(par, p)
  <2> DEFINE S == {g} \cup ChainIn(par, p)
  <2>1. S \in SUBSET Group /\ g \in S
    BY <1>1 DEF ChainIn
  <2>2. \A x \in S : par[x] = None \/ par[x] \in S
    BY <1>1, <1>3, <2>1, ChainInSelf, ChainInClosed
  <2> HIDE DEF S
  <2>3. ChainIn(par, g) \subseteq S
    BY <1>1, <2>1, <2>2, ChainInLeast
  <2> QED
    BY <2>3 DEF S
<1> QED
  BY <1>2, <1>4, <1>5

(* Nobody is its own ancestor: what lies between would be a cycle.         *)
LEMMA NoCycle ==
  ASSUME NEW gs, NEW par, Parents(par, gs), TreeIn(par, gs), NEW g \in gs \ {Root}
  PROVE  g \notin ChainIn(par, par[g])
<1> SUFFICES ASSUME g \in ChainIn(par, par[g])
             PROVE  FALSE
  OBVIOUS
<1> DEFINE S == {x \in gs : x \in ChainIn(par, par[g]) /\ g \in ChainIn(par, x)}
<1>1. par[g] \in gs /\ par[g] \in Group /\ g \in Group /\ Root \in Group
  BY NoneIsNothing DEF Parents
<1>2. par[g] \in S
  BY <1>1, ChainInSelf
<1>3. Root \notin S
  <2>1. par[Root] = None
    BY <1>1 DEF Parents
  <2>2. ChainIn(par, Root) \subseteq {Root}
    <3> DEFINE S0 == {Root}
    <3>1. S0 \in SUBSET Group /\ Root \in S0 /\ \A x \in S0 : par[x] = None \/ par[x] \in S0
      BY <1>1, <2>1
    <3> HIDE DEF S0
    <3>2. ChainIn(par, Root) \subseteq S0
      BY <1>1, <3>1, ChainInLeast
    <3> QED
      BY <3>2 DEF S0
  <2> QED
    BY <2>2
<1>4. ASSUME NEW x \in S PROVE par[x] \in S
  <2>1. x \in gs \ {Root} /\ x \in Group
    BY <1>3 DEF Parents
  <2>2. par[x] \in gs /\ par[x] \in Group /\ par[x] # None
    BY <2>1, NoneIsNothing DEF Parents
  <2>3. par[x] \in ChainIn(par, par[g])
    BY <1>1, <2>2, ChainInClosed
  <2>4. x # g => g \in ChainIn(par, par[x])
    BY <2>1, ChainInStep
  <2> QED
    BY <1>2, <2>2, <2>3, <2>4
<1> QED
  BY <1>2, <1>3, <1>4 DEF TreeIn

LEMMA MirrorIn ==
  ASSUME NEW par, \A x \in Group : par[x] \in Group \/ par[x] = None,
         NEW a \in Group, NEW g \in Group
  PROVE  a \in ChainIn(par, g) <=> g \in SubtreeIn(par, a)
<1>1. ASSUME a \in ChainIn(par, g), g \notin SubtreeIn(par, a)
      PROVE  FALSE
  <2> DEFINE S == Group \ SubtreeIn(par, a)
  <2>1. \A x \in S : par[x] = None \/ par[x] \in S
    BY DEF SubtreeIn, DownwardIn
  <2>2. a \notin S
    BY DEF SubtreeIn, DownwardIn
  <2>3. ChainIn(par, g) \subseteq S
    BY <1>1, <2>1, ChainInLeast
  <2> QED
    BY <1>1, <2>2, <2>3
<1>2. ASSUME g \in SubtreeIn(par, a), a \notin ChainIn(par, g)
      PROVE  FALSE
  <2> DEFINE S == Group \ ChainIn(par, g)
  <2>1. \A x \in Group : par[x] \in S => x \in S
    <3> SUFFICES ASSUME NEW x \in Group, par[x] \in S, x \in ChainIn(par, g)
                 PROVE  FALSE
      OBVIOUS
    <3> QED
      BY ChainInClosed, NoneIsNothing
  <2>2. SubtreeIn(par, a) \subseteq S
    BY <1>2, <2>1, SubtreeInLeast
  <2> QED
    BY <1>2, <2>2, ChainInSelf
<1> QED
  BY <1>1, <1>2

(* When one group gets another parent and x is above it neither more nor   *)
(* less than before, x stays above everything it was above.                *)
LEMMA StaysAbove ==
  ASSUME NEW gs, NEW par, NEW new, Parents(par, gs), Parents(new, gs), TreeIn(par, gs),
         NEW g \in gs \ {Root}, \A z \in Group : z # g => new[z] = par[z],
         NEW x \in Group, x \in ChainIn(par, g) => x \in ChainIn(new, g),
         NEW y \in Group, x \in ChainIn(par, y)
  PROVE  x \in ChainIn(new, y)
<1> DEFINE S == {z \in Group : x \in ChainIn(new, z)}
<1>1. /\ \A z \in Group : par[z] \in Group \/ par[z] = None
      /\ \A z \in Group : par[z] \in Group => z \in gs \ {Root}
      /\ \A z \in Group : new[z] \in Group => z \in gs \ {Root}
      /\ g \in Group /\ par[g] \in Group
  BY NoneIsNothing DEF Parents
<1>2. ASSUME NEW z \in Group, par[z] \in S PROVE z \in S
  <2>1. CASE z # g
    <3>1. new[z] = par[z] /\ z \in gs \ {Root}
      BY <1>1, <1>2, <2>1
    <3> QED
      BY <1>2, <3>1, ChainInStep
  <2>2. CASE z = g
    <3> DEFINE C == ChainIn(par, par[g])
    <3>1. g \notin C /\ C \in SUBSET Group /\ par[g] \in C
      BY <1>1, NoCycle, ChainInSelf DEF ChainIn
    <3>2. \A c \in C : new[c] = None \/ new[c] \in C
      <4> SUFFICES ASSUME NEW c \in C
                   PROVE  par[c] = None \/ par[c] \in C
        BY <3>1
      <4> QED
        BY <1>1, <3>1, ChainInClosed
    <3>3. ChainIn(new, par[g]) \subseteq C
      BY <1>1, <3>1, <3>2, ChainInLeast
    <3>4. x \in ChainIn(par, g)
      BY <1>2, <2>2, <3>3, ChainInStep
    <3> QED
      BY <2>2, <3>4
  <2> QED
    BY <2>1, <2>2
<1>3. SubtreeIn(par, x) \subseteq S
  BY <1>2, ChainInSelf, SubtreeInLeast
<1>4. y \in SubtreeIn(par, x)
  BY <1>1, MirrorIn
<1> QED
  BY <1>3, <1>4

(* A reparent (groups/service.py update_group) changes the members of no   *)
(* group but the old and the new ancestors of the one that moves, and of   *)
(* those only where the two chains differ.                                 *)
THEOREM ReparentsAreLocal == Spec => ReparentIsLocal
<1>1. ASSUME GInv, GInv', [Next]_vars, NEW g \in groups, groups' = groups,
             parent'[g] # parent[g], Tree, Tree',
             NEW x \in groups, x \in Chain(g) <=> (x \in Chain(g))'
      PROVE  EffectiveMembers(x)' = EffectiveMembers(x)
  <2>1. TypeOK /\ TypeOK' /\ groups \subseteq Group
    BY <1>1 DEF GInv, TypeOK
  <2>2. PICK w \in Worker : UpdateCommit(w)
    BY <1>1, <2>1
       DEF Next, TreeStep, UpdateStep, CreateGroup, DeleteGroup, SetGroupParameter,
           UnsetGroupParameter, AddMember, RemoveMember, UpdateLoad, UpdateFind, UpdateCheck, UpdateFails,
           SetHostParameter, UnsetHostParameter, vars, tree, TypeOK
  <2>3. member' = member /\ \A z \in Group : z # g => parent'[z] = parent[z]
    BY <1>1, <2>1, <2>2 DEF UpdateCommit, Reparented, TypeOK
  <2>4. Parents(parent, groups) /\ Parents(parent', groups)
    BY <1>1, <2>1 DEF Parents, TypeOK
  <2>5. TreeIn(parent, groups) /\ TreeIn(parent', groups)
    BY <1>1 DEF TreeIn, Tree
  <2>6. g \in groups \ {Root} /\ g \in Group /\ x \in Group
    BY <1>1, <2>1 DEF TypeOK
  <2>7. \A z \in Group : /\ Chain(z) = ChainIn(parent, z)
                         /\ Chain(z)' = ChainIn(parent', z)
    BY DEF Chain
  <2>8. \A y \in Group : x \in ChainIn(parent, y) <=> x \in ChainIn(parent', y)
    BY <1>1, <2>3, <2>4, <2>5, <2>6, <2>7, StaysAbove
  <2>9. Subtree(x)' = Subtree(x)
    <3>1. Subtree(x) = SubtreeIn(parent, x) /\ Subtree(x)' = SubtreeIn(parent', x)
      BY DEF Subtree, Downward, SubtreeIn, DownwardIn
    <3>2. /\ \A z \in Group : parent[z] \in Group \/ parent[z] = None
          /\ \A z \in Group : parent'[z] \in Group \/ parent'[z] = None
      BY <2>4 DEF Parents
    <3>3. \A y \in Group : y \in SubtreeIn(parent, x) <=> y \in SubtreeIn(parent', x)
      BY <2>6, <2>8, <3>2, MirrorIn
    <3>4. SubtreeIn(parent, x) \subseteq Group /\ SubtreeIn(parent', x) \subseteq Group
      BY DEF SubtreeIn
    <3> QED
      BY <3>1, <3>3, <3>4
  <2>10. parent[x] = None <=> parent'[x] = None
    BY <1>1, <2>1, <2>6 DEF TypeOK
  <2> QED
    BY <2>3, <2>9, <2>10 DEF EffectiveMembers, Direct
<1>2. GInv /\ GInv' /\ [Next]_vars =>
        [\A g \in groups :
           groups' = groups /\ parent'[g] # parent[g] /\ Tree /\ Tree' =>
             \A x \in groups :
               (x \in Chain(g) <=> x \in Chain(g)') =>
                 EffectiveMembers(x)' = EffectiveMembers(x)]_vars
  BY <1>1
<1> QED
  BY <1>2, GInvAlways, PTL DEF Spec, ReparentIsLocal

(* In a tree every group is beneath the global one.                        *)
LEMMA RootAboveAll ==
  ASSUME TypeOK, Tree, NEW g \in groups
  PROVE  Root \in Chain(g)
<1> SUFFICES ASSUME Root \notin Chain(g)
             PROVE  FALSE
  OBVIOUS
<1>1. g \in Group /\ groups \in SUBSET Group
  BY DEF TypeOK
<1>2. \A x \in groups : parent[x] = None \/ parent[x] \in groups
  BY <1>1 DEF TypeOK
<1>3. Chain(g) \subseteq groups
  BY <1>1, <1>2, ChainLeast
<1>4. ASSUME NEW x \in Chain(g) PROVE parent[x] \in Chain(g)
  <2>1. x \in groups \ {Root} /\ parent[x] \in Group /\ parent[x] # None
    BY <1>1, <1>2, <1>3, <1>4 DEF TypeOK
  <2> QED
    BY <1>1, <2>1, ChainClosed
<1> QED
  BY <1>1, <1>3, <1>4, ChainSelf DEF Tree

(* The list of members, the count on the tree page, the reasons on the     *)
(* group page and the search for hosts of a group are one view, and every  *)
(* reason given is true (groups/service.py, hosts/search.py).              *)
THEOREM ViewsAlwaysAgree == Spec => []ViewsAgree
<1>1. ASSUME TypeOK, Tree, NEW g \in groups
      PROVE  LET why == Sources(g)
                 members == EffectiveMembers(g)
             IN /\ EffectiveCount(g) = Cardinality(members)
                /\ DOMAIN why = members /\ Found(g) = members
                /\ \A h \in DOMAIN why :
                     /\ \A x \in why[h] : g \in Chain(x) /\ x \in MemberOf(h)
                     /\ why[h] = {} => g = Root /\ MemberOf(h) = {}
  <2> DEFINE members == EffectiveMembers(g)
             wanted == IF parent[g] = None THEN Subtree(g) \ {g} ELSE Subtree(g)
             joined == {p \in member : p[2] \in wanted}
             listed == IF parent[g] = None THEN Host ELSE {p[1] : p \in joined}
  <2>1. g \in Group /\ (parent[g] = None <=> g = Root)
    BY <1>1 DEF TypeOK
  <2>2. Subtree(g) \subseteq Group
    BY DEF Subtree
  <2>3. parent[g] # None =>
          members = {p[1] : p \in {q \in member : q[2] \in Subtree(g)}}
    <3> DEFINE all == {p[1] : p \in {q \in member : q[2] \in Subtree(g)}}
    <3>1. ASSUME NEW h
          PROVE  h \in all <=> \E x \in Subtree(g) : <<h, x>> \in member
      <4>1. \A p \in member : p = <<p[1], p[2]>>
        BY <1>1 DEF TypeOK
      <4> QED
        BY <4>1
    <3>2. ASSUME parent[g] # None, NEW h
          PROVE  h \in members <=> h \in Host /\ \E x \in Subtree(g) : <<h, x>> \in member
      <4>1. members = UNION {Direct(x) : x \in Subtree(g)}
        BY <3>2 DEF EffectiveMembers
      <4>2. h \in members <=> \E x \in Subtree(g) : h \in Direct(x)
        BY <4>1
      <4> QED
        BY <4>2 DEF Direct
    <3>3. \A h, x : <<h, x>> \in member => h \in Host
      BY <1>1 DEF TypeOK
    <3> HIDE DEF all, members
    <3>4. parent[g] # None => members = all
      BY <3>1, <3>2, <3>3
    <3> QED
      BY <3>4 DEF all
  <2>4. EffectiveCount(g) = Cardinality(members)
    BY <2>3 DEF EffectiveCount, EffectiveMembers
  <2>5. Sources(g) = [h \in listed |-> {x \in wanted : <<h, x>> \in joined}]
    BY DEF Sources
  <2>6. listed = members
    BY <2>3 DEF EffectiveMembers
  <2>7. Found(g) = members
    <3>1. \A h : h \in Found(g) <=>
                  h \in Host /\ (parent[g] # None => \E x \in Subtree(g) : <<h, x>> \in member)
      BY DEF Found
    <3>2. ASSUME NEW h
          PROVE  h \in members <=>
                   h \in Host /\ (parent[g] # None => \E x \in Subtree(g) : <<h, x>> \in member)
      <4>1. CASE parent[g] = None
        BY <4>1 DEF EffectiveMembers
      <4>2. CASE parent[g] # None
        <5>1. members = UNION {Direct(x) : x \in Subtree(g)}
          BY <4>2 DEF EffectiveMembers
        <5>2. h \in members <=> \E x \in Subtree(g) : h \in Direct(x)
          BY <5>1
        <5> QED
          BY <4>2, <5>2 DEF Direct
      <4> QED
        BY <4>1, <4>2
    <3> HIDE DEF members
    <3> QED
      BY <3>1, <3>2
  <2>8. ASSUME NEW h \in listed, NEW x \in wanted, <<h, x>> \in joined
        PROVE  g \in Chain(x) /\ x \in MemberOf(h)
    <3>1. x \in Subtree(g) /\ x \in Group
      BY <2>2
    <3> QED
      BY <1>1, <2>1, <2>8, <3>1, Mirror DEF MemberOf
  <2>9. ASSUME NEW h \in listed, {x \in wanted : <<h, x>> \in joined} = {}
        PROVE  g = Root /\ MemberOf(h) = {}
    <3>1. g = Root
      BY <1>1, <2>1, <2>9 DEF TypeOK
    <3>2. ASSUME NEW x \in MemberOf(h) PROVE FALSE
      <4>1. x \in groups \ {Root} /\ x \in Group /\ <<h, x>> \in member
        BY <1>1 DEF MemberOf, TypeOK
      <4>2. x \in Subtree(Root)
        BY <1>1, <4>1, RootAboveAll, Mirror, RootIsAGroup
      <4>3. x \in wanted /\ <<h, x>> \in joined
        BY <3>1, <2>1, <4>1, <4>2
      <4> QED
        BY <2>9, <4>3
    <3> QED
      BY <3>1, <3>2
  <2> HIDE DEF listed, wanted, joined, members
  <2> QED
    BY <2>4, <2>5, <2>6, <2>7, <2>8, <2>9 DEF members
<1>2. TypeOK => ViewsAgree
  BY <1>1 DEF ViewsAgree
<1> QED
  BY <1>2, TypeCorrect, PTL

-----------------------------------------------------------------------------
(* Resolution: the rows, how deep they are, the fold, the sort.            *)

(* There are finitely many groups, and no two have one name.               *)
Rows == IsFiniteSet(groups) /\ \A a, b \in groups : name[a] = name[b] => a = b

(* A primary key, and a unique index on the names.                         *)
LEMMA RowsAlways == Spec => []Rows
<1>1. Init => Rows
  BY FS_Singleton DEF Init, Rows
<1>2. ASSUME TypeOK, Rows, [Next]_vars
      PROVE  Rows'
  <2>1. ASSUME NEW g \in Group, NEW n \in Name, NEW p \in Group, CreateGroup(g, n, p)
        PROVE  Rows'
    <3>1. groups' = groups \cup {g} /\ \A x \in groups : name[x] # n
      BY <2>1 DEF CreateGroup, FreeName
    <3>2. IsFiniteSet(groups')
      BY <1>2, <3>1, FS_AddElement DEF Rows
    <3>3. \A x \in groups' : name'[x] = IF x = g THEN n ELSE name[x]
      BY <1>2, <2>1 DEF CreateGroup, TypeOK
    <3> QED
      BY <1>2, <3>1, <3>2, <3>3 DEF Rows
  <2>2. ASSUME NEW g \in Group, DeleteGroup(g)
        PROVE  Rows'
    <3>1. groups' = groups \ {g}
      BY <2>2 DEF DeleteGroup
    <3>2. IsFiniteSet(groups')
      BY <1>2, <3>1, FS_RemoveElement DEF Rows
    <3>3. \A x \in groups' : name'[x] = name[x]
      BY <1>2, <2>2 DEF DeleteGroup, TypeOK
    <3> QED
      BY <1>2, <3>1, <3>2, <3>3 DEF Rows
  <2>3. ASSUME NEW w \in Worker, UpdateCommit(w)
        PROVE  Rows'
    <3> DEFINE r == req[w]
    <3>1. groups' = groups /\ (r.name # None => \A x \in groups : name[x] # r.name)
      BY <2>3 DEF UpdateCommit, FreeName
    <3>2. \A x \in groups :
            name'[x] = IF r.name # None /\ x = r.group THEN r.name ELSE name[x]
      BY <1>2, <2>3 DEF UpdateCommit, TypeOK
    <3> HIDE DEF r
    <3> QED
      BY <1>2, <3>1, <3>2 DEF Rows
  <2>4. CASE UNCHANGED <<groups, name>>
    BY <1>2, <2>4 DEF Rows
  <2>5. \/ UNCHANGED <<groups, name>>
        \/ \E g \in Group, n \in Name, p \in Group : CreateGroup(g, n, p)
        \/ \E g \in Group : DeleteGroup(g)
        \/ \E w \in Worker : UpdateCommit(w)
    BY <1>2
    DEF Next, TreeStep, UpdateStep, UpdateLoad, UpdateFind, UpdateCheck, UpdateFails, AddMember, RemoveMember,
        SetGroupParameter, UnsetGroupParameter, SetHostParameter, UnsetHostParameter, vars, tree
  <2> QED
    BY <2>1, <2>2, <2>3, <2>4, <2>5
<1>3. GInv => TypeOK
  BY DEF GInv
<1> QED
  BY <1>1, <1>2, <1>3, GInvAlways, PTL DEF Spec

-----------------------------------------------------------------------------
(* What is above a group is less deep.                                     *)
LEMMA AboveIsLessDeep ==
  ASSUME TypeOK, Tree, IsFiniteSet(groups), NEW g \in groups
  PROVE  /\ Depth(g) \in Int
         /\ \A x \in Chain(g) \ {g} : Depth(x) \in Int /\ Depth(x) < Depth(g)
<1>1. groups \subseteq Group /\ Parents(parent, groups) /\ TreeIn(parent, groups)
  BY NoneIsNothing DEF TypeOK, Tree, Parents, TreeIn
<1>2. \A x \in Group : Chain(x) = ChainIn(parent, x)
  BY DEF Chain
<1>3. \A x \in groups : parent[x] = None \/ parent[x] \in groups
  BY <1>1 DEF Parents
<1>4. \A x \in groups : Chain(x) \subseteq groups
  BY <1>1, <1>3, ChainLeast
<1>5. \A x \in groups : IsFiniteSet(Chain(x)) /\ Cardinality(Chain(x)) \in Nat
  BY <1>4, FS_Subset, FS_CardinalityType
<1>6. ASSUME NEW x \in Chain(g), NEW y \in Chain(x)
      PROVE  y \in Chain(g)
  <2>1. \A z \in Chain(g) : parent[z] = None \/ parent[z] \in Chain(g)
    BY <1>1, <1>3, <1>4, ChainClosed, NoneIsNothing
  <2>2. Chain(x) \subseteq Chain(g)
    BY <1>1, <1>4, <2>1, ChainLeast
  <2> QED
    BY <2>2
<1>7. ASSUME NEW x \in Chain(g) \ {g}
      PROVE  g \notin Chain(x)
  <2>1. CASE g = Root
    <3>1. parent[g] = None
      BY <1>1, <2>1 DEF Parents
    <3>2. Chain(g) \subseteq {g}
      BY <1>1, <3>1, ChainLeast
    <3> QED
      BY <3>2
  <2>2. CASE g # Root
    <3>1. x \in Chain(parent[g]) /\ parent[g] \in groups
      BY <1>1, <1>2, <2>2, ChainInStep DEF Parents
    <3>2. g \notin Chain(parent[g])
      BY <1>1, <1>2, <2>2, <3>1, NoCycle
    <3>3. \A z \in Chain(parent[g]) : parent[z] = None \/ parent[z] \in Chain(parent[g])
      BY <1>1, <1>3, <1>4, <3>1, ChainClosed, NoneIsNothing
    <3>4. Chain(x) \subseteq Chain(parent[g])
      BY <1>1, <1>4, <3>1, <3>3, ChainLeast
    <3> QED
      BY <3>2, <3>4
  <2> QED
    BY <2>1, <2>2
<1>8. ASSUME NEW x \in Chain(g) \ {g}
      PROVE  Cardinality(Chain(x)) < Cardinality(Chain(g))
  <2>1. Chain(x) \in SUBSET Chain(g) /\ Chain(x) # Chain(g)
    BY <1>1, <1>6, <1>7, ChainSelf
  <2>2. Cardinality(Chain(x)) <= Cardinality(Chain(g)) /\ Cardinality(Chain(x)) # Cardinality(Chain(g))
    BY <1>5, <2>1, FS_Subset
  <2> QED
    BY <1>4, <1>5, <2>2
<1> QED
  BY <1>4, <1>5, <1>8 DEF Depth

-----------------------------------------------------------------------------
(* Of numbers up to N one is the largest.                                  *)
LEMMA LargestIs ==
  ASSUME NEW N \in Nat, NEW S \in SUBSET (1..N), S # {}
  PROVE  Max(S) \in S /\ \A i \in S : i <= Max(S)
<1> DEFINE T == {N - i : i \in S}
           Less == OpToRel(<, Nat)
<1>1. \A i \in S : i \in Int /\ N - i \in Nat
  OBVIOUS
<1>2. T \in SUBSET Nat /\ T # {}
  BY <1>1
<1>3. PICK x \in T : \A y \in T : <<y, x>> \notin Less
  <2> HIDE DEF T
  <2>1. IsWellFoundedOn(Less, Nat)
    BY NatLessThanWellFounded
  <2> HIDE DEF Less
  <2> QED
    BY <1>2, <2>1, WFMin
<1>4. PICK m \in S : x = N - m
  OBVIOUS
<1>5. ASSUME NEW i \in S
      PROVE  i <= m
  <2>1. N - i \in T /\ N - i \in Nat /\ x \in Nat
    BY <1>1, <1>2
  <2>2. <<N - i, x>> \notin Less
    BY <1>3, <2>1
  <2>3. ~(N - i < x)
    BY <2>1, <2>2 DEF OpToRel
  <2> QED
    BY <1>1, <1>4, <2>1, <2>3
<1>6. \E m1 \in S : \A i \in S : m1 >= i
  BY <1>1, <1>5
<1>7. Max(S) \in S /\ \A i \in S : Max(S) >= i
  BY <1>6 DEF Max
<1> QED
  BY <1>1, <1>7

(* What the fold over a sequence returns: the last group in it that sets   *)
(* the parameter, None when there is none.  The explicit value shows that  *)
(* the recursion has a solution; a least prefix on which the chosen one    *)
(* were wrong would contradict it.                                         *)
LEMMA FoldIs ==
  ASSUME NEW N \in Nat, NEW seq, DOMAIN seq = 1..N
  PROVE  LET fold == FoldLeft(LAMBDA source, n : IF n.id \in gparam THEN n.id ELSE source, None, seq)
         IN  \/ fold = None /\ \A i \in 1..N : seq[i].id \notin gparam
             \/ \E i \in 1..N : /\ seq[i].id \in gparam /\ fold = seq[i].id
                                /\ \A j \in 1..N : seq[j].id \in gparam => j <= i
<1> DEFINE Sets(i) == seq[i].id \in gparam
           Body(g) == [s \in SUBSET (1..N) |->
                         IF s = {} THEN None
                         ELSE LET x == Max(s)
                              IN  IF seq[x].id \in gparam THEN seq[x].id ELSE g[s \ {x}]]
           iter == CHOOSE g : g = Body(g)
           fold == FoldLeft(LAMBDA source, n : IF n.id \in gparam THEN n.id ELSE source, None, seq)
<1>1. fold = iter[1..N]
  BY DEF FoldLeft, MapThenFoldSet
<1>2. \E g : g = Body(g)
  <2> DEFINE W(s) == IF \E i \in s : Sets(i) THEN seq[Max({i \in s : Sets(i)})].id ELSE None
             g0 == [s \in SUBSET (1..N) |-> W(s)]
  <2>1. ASSUME NEW s \in SUBSET (1..N), s # {}
        PROVE  W(s) = IF Sets(Max(s)) THEN seq[Max(s)].id ELSE W(s \ {Max(s)})
    <3>1. Max(s) \in s /\ \A i \in s : i <= Max(s)
      BY <2>1, LargestIs
    <3>2. CASE Sets(Max(s))
      <4> DEFINE S == {i \in s : Sets(i)}
      <4>1. S \in SUBSET (1..N) /\ Max(s) \in S
        BY <3>1, <3>2
      <4>2. Max(S) \in S /\ \A i \in S : i <= Max(S)
        <5> HIDE DEF S
        <5> QED
          BY <4>1, LargestIs
      <4>3. Max(S) = Max(s)
        <5>1. \A i \in s : i \in Int
          OBVIOUS
        <5>2. S \subseteq s
          OBVIOUS
        <5> HIDE DEF S
        <5> DEFINE m == Max(S)
                   n == Max(s)
        <5>3. m \in s /\ n \in s /\ n <= m /\ m <= n
          BY <3>1, <4>1, <4>2, <5>2
        <5>4. m \in Int /\ n \in Int
          BY <5>1, <5>3
        <5> HIDE DEF m, n
        <5>5. m = n
          BY <5>3, <5>4
        <5> QED
          BY <5>5 DEF m, n
      <4> QED
        BY <3>2, <4>1, <4>3
    <3>3. CASE ~Sets(Max(s))
      <4>1. {i \in s : Sets(i)} = {i \in s \ {Max(s)} : Sets(i)}
        BY <3>3
      <4>2. (\E i \in s : Sets(i)) <=> (\E i \in s \ {Max(s)} : Sets(i))
        BY <3>3
      <4> QED
        BY <3>3, <4>1, <4>2
    <3> QED
      BY <3>2, <3>3
  <2>2. W({}) = None
    OBVIOUS
  <2> HIDE DEF W
  <2>3. \A s \in SUBSET (1..N) : g0[s] = W(s) /\ g0[s \ {Max(s)}] = W(s \ {Max(s)})
    OBVIOUS
  <2>4. \A s \in SUBSET (1..N) : g0[s] = Body(g0)[s]
    BY <2>1, <2>2, <2>3
  <2>5. g0 = Body(g0)
    BY <2>4
  <2> QED
    BY <2>5
<1>3. iter = Body(iter)
  <2> HIDE DEF Body
  <2> QED
    BY <1>2
<1> HIDE DEF iter
<1>4. iter[{}] = None
  BY <1>3
<1>5. ASSUME NEW k \in 1..N
      PROVE  iter[1..k] = IF Sets(k) THEN seq[k].id ELSE iter[1..(k - 1)]
  <2>1. 1..k \in SUBSET (1..N) /\ 1..k # {}
    <3>1. k \in 1..k /\ \A i \in 1..k : i \in 1..N
      OBVIOUS
    <3> QED
      BY <3>1
  <2>2. Max(1..k) \in 1..k /\ \A i \in 1..k : i <= Max(1..k)
    BY <2>1, LargestIs
  <2>3. Max(1..k) = k
    BY <2>2
  <2>4. (1..k) \ {k} = 1..(k - 1)
    <3>1. k \in Int /\ 1 <= k
      OBVIOUS
    <3>2. \A i : i \in 1..k /\ i # k <=> i \in 1..(k - 1)
      BY <3>1
    <3> QED
      BY <3>2, Zenon
  <2> QED
    BY <1>3, <2>1, <2>3, <2>4
<1> DEFINE Right(k) ==
             \/ iter[1..k] = None /\ \A i \in 1..k : ~Sets(i)
             \/ \E i \in 1..k : /\ Sets(i) /\ iter[1..k] = seq[i].id
                                /\ \A j \in 1..k : Sets(j) => j <= i
<1>6. Right(0)
  BY <1>4
<1>7. ASSUME NEW k \in 1..N, Right(k - 1)
      PROVE  Right(k)
  <2>1. CASE Sets(k)
    BY <1>5, <2>1
  <2>2. CASE ~Sets(k)
    <3>1. iter[1..k] = iter[1..(k - 1)]
      BY <1>5, <2>2
    <3>2. \A i \in 1..k : i = k \/ i \in 1..(k - 1)
      OBVIOUS
    <3> QED
      BY <1>7, <2>2, <3>1, <3>2
  <2> QED
    BY <2>1, <2>2
<1> HIDE DEF Right
<1>8. Right(N)
  <2> SUFFICES ASSUME ~Right(N)
               PROVE  FALSE
    OBVIOUS
  <2> DEFINE T == {k \in 0..N : ~Right(k)}
             Less == OpToRel(<, Nat)
  <2>1. T \in SUBSET Nat /\ T # {}
    OBVIOUS
  <2>2. PICK k \in T : \A j \in T : <<j, k>> \notin Less
    <3> HIDE DEF T
    <3>1. IsWellFoundedOn(Less, Nat)
      BY NatLessThanWellFounded
    <3> HIDE DEF Less
    <3> QED
      BY <2>1, <3>1, WFMin
  <2>3. k \in 1..N /\ k - 1 \in 0..N
    BY <1>6
  <2>4. k - 1 \notin T
    <3>1. k - 1 \in Nat /\ k \in Nat /\ k - 1 < k
      BY <2>3
    <3>2. <<k - 1, k>> \in Less
      BY <3>1 DEF OpToRel
    <3> QED
      BY <2>2, <3>2
  <2> QED
    BY <1>7, <2>2, <2>3, <2>4
<1> QED
  BY <1>1, <1>8 DEF Right

-----------------------------------------------------------------------------
(* The sort.  What a host takes parameters from, as the resolver sees it.  *)
Node(g) == [id |-> g, depth |-> Depth(g), name |-> name[g]]

(* Names compare as numbers.                                               *)
LEMMA NamesAreNumbers == ASSUME TypeOK PROVE \A g \in groups : name[g] \in Int
<1>1. Name \cup {0} \subseteq Int
  BY NamesAreOrdered
<1>2. groups \subseteq Group /\ name \in [Group -> Name \cup {0}]
  BY DEF TypeOK
<1> QED
  BY <1>1, <1>2

(* Everything that contributes to a host is applied once, before whatever  *)
(* it comes before.                                                        *)
LEMMA OrderedIs ==
  ASSUME TypeOK, Tree, Rows, NEW h \in Host
  PROVE  /\ Contributing(h) \subseteq groups
         /\ \E N \in Nat :
              /\ DOMAIN Ordered(h) = 1..N
              /\ \A i \in 1..N : Ordered(h)[i] \in {Node(g) : g \in Contributing(h)}
              /\ \A g \in Contributing(h) : \E i \in 1..N : Ordered(h)[i] = Node(g)
              /\ \A i, j \in 1..N : Before(Ordered(h)[i], Ordered(h)[j]) => i < j
<1> DEFINE G == Contributing(h)
           nodes == {Node(g) : g \in G}
           N == Cardinality(nodes)
           Below(n) == {x \in nodes : Before(x, n)}
           rank == [n \in nodes |-> Cardinality(Below(n)) + 1]
<1>1. G \subseteq groups
  <2>1. \A g \in groups : Chain(g) \subseteq groups
    <3>1. groups \subseteq Group /\ \A x \in groups : parent[x] = None \/ parent[x] \in groups
      BY DEF TypeOK
    <3> QED
      BY <3>1, ChainLeast
  <2>2. Root \in groups /\ \A g : <<h, g>> \in member => g \in groups
    BY DEF TypeOK
  <2>3. MemberOf(h) \subseteq groups
    BY <2>2 DEF MemberOf
  <2> QED
    BY <2>1, <2>2, <2>3 DEF Contributing
<1>2. IsFiniteSet(nodes)
  <2>1. IsFiniteSet(G)
    BY <1>1, FS_Subset DEF Rows
  <2> DEFINE f == [g \in G |-> Node(g)]
  <2>2. f \in Surjection(G, nodes)
    BY DEF Surjection
  <2> QED
    BY <2>1, <2>2, FS_Surjection
<1>3. N \in Nat
  BY <1>2, FS_CardinalityType
<1>4. \A m \in nodes : m.depth \in Int /\ m.name \in Int
  <2>1. \A g \in groups : Depth(g) \in Int
    BY AboveIsLessDeep DEF Rows
  <2>2. \A g \in groups : name[g] \in Int
    BY NamesAreNumbers
  <2> QED
    BY <1>1, <2>1, <2>2 DEF Node
<1>5. \A m, n \in nodes : m.name = n.name => m = n
  BY <1>1 DEF Rows, Node
<1>6. \A m, n \in nodes : m # n => Before(m, n) \/ Before(n, m)
  BY <1>4, <1>5 DEF Before
<1>7. \A l, m, n \in nodes : Before(l, m) /\ Before(m, n) => Before(l, n)
  BY <1>4 DEF Before
<1>8. \A n \in nodes : ~Before(n, n)
  BY <1>4 DEF Before
<1> HIDE DEF nodes
<1>9. ASSUME NEW m \in nodes
      PROVE  Cardinality(Below(m)) \in Nat /\ Cardinality(Below(m)) < N
  <2>1. Below(m) \in SUBSET nodes /\ Below(m) # nodes
    BY <1>8
  <2>2. IsFiniteSet(Below(m)) /\ Cardinality(Below(m)) <= N /\ Cardinality(Below(m)) # N
    BY <1>2, <2>1, FS_Subset
  <2>3. Cardinality(Below(m)) \in Nat
    BY <2>2, FS_CardinalityType
  <2> QED
    BY <1>3, <2>2, <2>3
<1>10. ASSUME NEW m \in nodes, NEW n \in nodes, Before(m, n)
       PROVE  rank[m] < rank[n]
  <2>1. Below(m) \in SUBSET Below(n) /\ Below(m) # Below(n)
    BY <1>7, <1>8, <1>10
  <2>2. IsFiniteSet(Below(n))
    <3>1. Below(n) \in SUBSET nodes
      OBVIOUS
    <3> QED
      BY <1>2, <3>1, FS_Subset
  <2> DEFINE a == Cardinality(Below(m))
             b == Cardinality(Below(n))
  <2> HIDE DEF Below
  <2>3. a <= b /\ a # b
    BY <2>1, <2>2, FS_Subset
  <2>4. a \in Nat /\ b \in Nat
    BY <1>9
  <2>5. rank[m] = a + 1 /\ rank[n] = b + 1
    OBVIOUS
  <2> HIDE DEF a, b, rank
  <2> QED
    BY <2>3, <2>4, <2>5
<1>11. rank \in [nodes -> 1..N]
  <2>1. \A n \in nodes : Cardinality(Below(n)) + 1 \in 1..N
    BY <1>3, <1>9
  <2> HIDE DEF Below, N
  <2> QED
    BY <2>1
<1> HIDE DEF Below, N
<1>12. rank \in Injection(nodes, 1..N)
  <2>1. \A m \in nodes : rank[m] \in Int
    BY <1>3, <1>11
  <2> HIDE DEF rank
  <2>2. \A m, n \in nodes : rank[m] = rank[n] => m = n
    BY <1>6, <1>10, <2>1
  <2> QED
    BY <1>11, <2>2 DEF Injection, IsInjective
<1>13. rank \in Surjection(nodes, 1..N)
  <2> HIDE DEF rank
  <2>1. IsFiniteSet(1..N) /\ Cardinality(1..N) = N
    BY <1>3, FS_Interval
  <2>2. N = Cardinality(nodes)
    BY DEF N
  <2> QED
    BY <1>12, <2>1, <2>2, FS_Injection
<1>14. Ordered(h) = [i \in 1..N |-> CHOOSE n \in nodes : Cardinality(Below(n)) = i - 1]
  BY DEF Ordered, nodes, N, Below, Node
<1>15. ASSUME NEW i \in 1..N
       PROVE  Ordered(h)[i] \in nodes /\ rank[Ordered(h)[i]] = i
  <2>1. PICK n \in nodes : rank[n] = i
    <3> HIDE DEF rank
    <3> QED
      BY <1>13 DEF Surjection
  <2>2. Cardinality(Below(n)) = i - 1
    <3>1. Cardinality(Below(n)) \in Nat
      BY <1>9
    <3>2. rank[n] = Cardinality(Below(n)) + 1
      OBVIOUS
    <3>3. i \in Int
      BY <1>3
    <3> HIDE DEF rank
    <3> QED
      BY <2>1, <3>1, <3>2, <3>3
  <2> DEFINE o == Ordered(h)[i]
  <2>3. o = CHOOSE m \in nodes : Cardinality(Below(m)) = i - 1
    BY <1>14
  <2> HIDE DEF o
  <2>4. o \in nodes /\ Cardinality(Below(o)) = i - 1
    BY <2>2, <2>3
  <2>5. rank[o] = i
    <3>1. rank[o] = Cardinality(Below(o)) + 1 /\ i \in Int
      BY <1>3, <2>4
    <3> HIDE DEF rank
    <3> QED
      BY <2>4, <3>1
  <2> QED
    BY <2>4, <2>5 DEF o
<1> HIDE DEF rank
<1>16. ASSUME NEW n \in nodes
       PROVE  \E i \in 1..N : Ordered(h)[i] = n
  <2>1. rank[n] \in 1..N
    BY <1>11
  <2>2. Ordered(h)[rank[n]] \in nodes /\ rank[Ordered(h)[rank[n]]] = rank[n]
    BY <1>15, <2>1
  <2> QED
    BY <1>12, <2>1, <2>2 DEF Injection, IsInjective
<1>17. \A i, j \in 1..N : Before(Ordered(h)[i], Ordered(h)[j]) => i < j
  BY <1>10, <1>15
<1>18. DOMAIN Ordered(h) = 1..N
  BY <1>14
<1>19. \A g \in Contributing(h) : Node(g) \in nodes
  BY DEF nodes
<1>20. /\ \A i \in 1..N : Ordered(h)[i] \in nodes
       /\ \A g \in Contributing(h) : \E i \in 1..N : Ordered(h)[i] = Node(g)
  BY <1>15, <1>16, <1>19
<1> QED
  BY <1>1, <1>3, <1>17, <1>18, <1>20 DEF nodes

-----------------------------------------------------------------------------
(* The value a host gets was set by the host itself, or else by the        *)
(* deepest of the groups it takes parameters from that set it, and of      *)
(* equally deep ones by the last in the order of names                     *)
(* (groups/resolution.py resolve_parameters).                              *)
THEOREM NearestGroupWins == Spec => []NearestWins
<1>1. ASSUME TypeOK, Rows, Tree, NEW h \in Host
      PROVE  LET source  == Effective(h)
                 setters == Contributing(h) \cap gparam
             IN /\ source = h <=> h \in hparam
                /\ source = None => setters = {}
                /\ source \in Group =>
                     /\ source \in setters
                     /\ \A g \in setters \ {source} :
                          \/ Depth(g) < Depth(source)
                          \/ Depth(g) = Depth(source) /\ name[g] < name[source]
  <2> DEFINE source == Effective(h)
             setters == Contributing(h) \cap gparam
             seq == Ordered(h)
  <2>1. h \notin Group /\ h # None
    BY KindsAreTold
  <2>2. CASE h \in hparam
    BY <2>1, <2>2 DEF Effective
  <2>3. CASE h \notin hparam
    <3>1. PICK N \in Nat :
            /\ DOMAIN seq = 1..N
            /\ \A i \in 1..N : seq[i] \in {Node(g) : g \in Contributing(h)}
            /\ \A g \in Contributing(h) : \E i \in 1..N : seq[i] = Node(g)
            /\ \A i, j \in 1..N : Before(seq[i], seq[j]) => i < j
      BY <1>1, OrderedIs
    <3>2. source = FoldLeft(LAMBDA s, n : IF n.id \in gparam THEN n.id ELSE s, None, seq)
      BY <2>3 DEF Effective
    <3> HIDE DEF seq, source
    <3>3. \/ source = None /\ \A i \in 1..N : seq[i].id \notin gparam
          \/ \E i \in 1..N : /\ seq[i].id \in gparam /\ source = seq[i].id
                             /\ \A j \in 1..N : seq[j].id \in gparam => j <= i
      BY <3>1, <3>2, FoldIs
    <3>4. Contributing(h) \subseteq groups /\ groups \subseteq Group /\ gparam \subseteq groups
      BY <1>1, OrderedIs DEF TypeOK
    <3>5. CASE source = None /\ \A i \in 1..N : seq[i].id \notin gparam
      <4>1. ASSUME NEW g \in Contributing(h)
            PROVE  g \notin gparam
        <5>1. PICK i \in 1..N : seq[i] = Node(g)
          BY <3>1
        <5>2. seq[i].id = g
          BY <5>1 DEF Node
        <5> QED
          BY <3>5, <5>2
      <4> QED
        BY <2>1, <2>3, <3>5, <4>1, NoneIsNothing DEF source
    <3>6. ASSUME NEW i \in 1..N, seq[i].id \in gparam, source = seq[i].id,
                 \A j \in 1..N : seq[j].id \in gparam => j <= i
          PROVE  /\ source \in setters
                 /\ \A g \in setters \ {source} :
                      \/ Depth(g) < Depth(source)
                      \/ Depth(g) = Depth(source) /\ name[g] < name[source]
      <4>1. source \in Contributing(h) /\ seq[i] = Node(source)
        BY <3>1, <3>6 DEF Node
      <4>2. source \in setters
        BY <3>6, <4>1
      <4>3. ASSUME NEW g \in setters \ {source}
            PROVE  \/ Depth(g) < Depth(source)
                   \/ Depth(g) = Depth(source) /\ name[g] < name[source]
        <5>1. PICK j \in 1..N : seq[j] = Node(g)
          BY <3>1
        <5>2. j <= i
          BY <3>6, <5>1 DEF Node
        <5>3. ~Before(Node(source), Node(g))
          <6>1. i \in Int /\ j \in Int
            BY <3>1
          <6> QED
            BY <3>1, <4>1, <5>1, <5>2, <6>1
        <5>4. g \in groups /\ source \in groups
          BY <3>4, <4>1
        <5>5. Depth(g) \in Int /\ Depth(source) \in Int
          BY <1>1, <5>4, AboveIsLessDeep DEF Rows
        <5>6. name[g] \in Int /\ name[source] \in Int /\ name[g] # name[source]
          BY <1>1, <5>4, NamesAreNumbers DEF Rows
        <5>7. /\ ~(Depth(source) < Depth(g))
              /\ Depth(source) = Depth(g) => ~(name[source] < name[g])
          BY <5>3 DEF Before, Node
        <5> QED
          BY <5>5, <5>6, <5>7
      <4> QED
        BY <4>2, <4>3
    <3>7. \A i \in 1..N : seq[i].id \in gparam /\ source = seq[i].id =>
            source \in Group /\ source # h /\ source # None
      BY <2>1, <3>4, NoneIsNothing
    <3> QED
      BY <2>3, <3>3, <3>5, <3>6, <3>7 DEF source
  <2> QED
    BY <2>2, <2>3
<1>2. TypeOK /\ Rows => NearestWins
  BY <1>1 DEF NearestWins
<1>3. GInv => TypeOK
  BY DEF GInv
<1> QED
  BY <1>2, <1>3, GInvAlways, RowsAlways, PTL
=============================================================================
