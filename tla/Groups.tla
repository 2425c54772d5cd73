------------------------------- MODULE Groups -------------------------------
(***************************************************************************)
(* The group tree, host memberships and inherited parameters (groups/).    *)
(*                                                                         *)
(* One parameter key: keys never meet in resolution.  A value is           *)
(* abstracted to where it was set, which is what inheritance decides.      *)
(* Names are numbers in alphabetical order; 0 is "global", which nothing   *)
(* is compared with.                                                       *)
(*                                                                         *)
(* Every handler but update_group decides and writes within what a         *)
(* constraint of the database holds together at its commit (unique names   *)
(* and rows; a foreign key to the parent, RESTRICT; foreign keys from      *)
(* memberships and parameters, CASCADE), so it is one action.  Nothing     *)
(* but its own reads protects update_group's check for a cycle: an action  *)
(* is one SELECT of the rows the check rests on, or the commit.  A row the *)
(* session has loaded keeps the values it had then (the identity map).     *)
(* The SELECT for the new name only refuses early, the unique index        *)
(* decides: it is taken with the first.  The row locks of the flush only   *)
(* rule interleavings out and are left out.                                *)
(***************************************************************************)
EXTENDS Integers, FiniteSets, SequencesExt

CONSTANTS Group, Root, Host, Name, Worker, None

ASSUME RootIsAGroup == Root \in Group
ASSUME NoneIsNothing == None \notin Group \cup Name
ASSUME NamesAreOrdered == Name \subseteq Nat \ {0}
\* A source has a kind (source_kind): no host is a group.
ASSUME KindsAreTold == Host \cap (Group \cup {None}) = {}

VARIABLES groups,   \* groups that exist
          issued,   \* group ids handed out so far
          parent,   \* groups.parent_id
          name,     \* groups.name
          member,   \* host_groups
          gparam,   \* groups that set the parameter
          hparam,   \* hosts that set it themselves
          req       \* update_group requests in flight

tree == <<groups, issued, parent, name>>
vars == <<tree, member, gparam, hparam, req>>

\* above: the parent of the new parent, as its row was loaded.
\* stale: a reparent committed since.
NoReq == [at |-> "none", group |-> None, name |-> None, parent |-> None,
          above |-> None, stale |-> FALSE]

-----------------------------------------------------------------------------
(* groups/resolution.py                                                    *)

(* ancestor_chain over the rows par: the least set with g in it that is    *)
(* closed under par.  The walk ends at the row without a parent, or raises *)
(* on a cycle.                                                             *)
UpwardIn(par, g) ==
  {S \in SUBSET Group : g \in S /\ \A x \in S : par[x] = None \/ par[x] \in S}

ChainIn(par, g) ==
  LET up == UpwardIn(par, g) IN {a \in Group : \A S \in up : a \in S}

Chain(g) == ChainIn(parent, g)

(* Mutant of Subtree: one level only.                                      *)
SubtreeOneLevel(g) == {a \in Group : a = g \/ parent[a] = g}

(* subtree_ids: the least set with g in it that is closed under children.  *)
Downward(g) ==
  {S \in SUBSET Group : g \in S /\ \A x \in Group : parent[x] \in S => x \in S}

Subtree(g) ==
  LET down == Downward(g) IN {a \in Group : \A S \in down : a \in S}

(* depth_of *)
Depth(g) == Cardinality(Chain(g)) - 1

MemberOf(h) == {g \in Group : <<h, g>> \in member}

Contributing(h) == {Root} \cup UNION {Chain(g) : g \in MemberOf(h)}

(* Mutant of Before: by name alone.                                        *)
BeforeByName(a, b) == a.name < b.name

(* The sort key, and the order groups are applied in.                      *)
Before(a, b) ==
  \/ a.depth < b.depth
  \/ a.depth = b.depth /\ a.name < b.name

Ordered(h) ==
  LET nodes == {[id |-> g, depth |-> Depth(g), name |-> name[g]] : g \in Contributing(h)}
  IN [i \in 1..Cardinality(nodes) |->
        CHOOSE n \in nodes : Cardinality({x \in nodes : Before(x, n)}) = i - 1]

(* resolve_parameters: a later group overrides, the host overrides all.    *)
(* The result is the source_name, None when nobody sets the parameter.     *)
Effective(h) ==
  IF h \in hparam THEN h
  ELSE FoldLeft(LAMBDA source, n : IF n.id \in gparam THEN n.id ELSE source, None, Ordered(h))

-----------------------------------------------------------------------------
(* groups/service.py: views of effective membership.                       *)

Direct(g) == {h \in Host : <<h, g>> \in member}

(* list_effective_member_host_ids *)
EffectiveMembers(g) ==
  IF parent[g] = None THEN Host ELSE UNION {Direct(x) : x \in Subtree(g)}

(* Mutant of EffectiveCount: a host counts once for every group it joined. *)
EffectiveCountPerGroup(g) ==
  IF parent[g] = None THEN Cardinality(Host)
  ELSE Cardinality({p \in member : p[2] \in Subtree(g)})

(* effective_member_counts *)
EffectiveCount(g) ==
  IF parent[g] = None THEN Cardinality(Host)
  ELSE Cardinality({p[1] : p \in {q \in member : q[2] \in Subtree(g)}})

(* effective_membership_sources *)
Sources(g) ==
  LET wanted == IF parent[g] = None THEN Subtree(g) \ {g} ELSE Subtree(g)
      joined == {p \in member : p[2] \in wanted}
      listed == IF parent[g] = None THEN Host ELSE {p[1] : p \in joined}
  IN [h \in listed |-> {x \in wanted : <<h, x>> \in joined}]

(* hosts/search.py, the group filter: its subtree query, or the root.      *)
Found(g) ==
  {h \in Host : \/ parent[g] # None /\ \E x \in Subtree(g) : <<h, x>> \in member
                \/ parent[g] = None}

-----------------------------------------------------------------------------
(* groups/service.py: the tree.                                            *)

FreeName(n) == \A g \in groups : name[g] # n

(* create_group; without a parent_id the parent is the global group.       *)
CreateGroup(g, n, p) ==
  /\ g \notin issued
  /\ FreeName(n)
  /\ p \in groups
  /\ groups' = groups \cup {g}
  /\ issued' = issued \cup {g}
  /\ parent' = [parent EXCEPT ![g] = p]
  /\ name' = [name EXCEPT ![g] = n]
  /\ UNCHANGED <<member, gparam, hparam, req>>

(* Mutant of MayAdopt: the check the wrong way round.                      *)
MayAdoptReversed(p, above, g) == p \in groups /\ p \notin Chain(g)

(* Group p, loaded when its parent was above, may become the parent of g:  *)
(* it exists and does not sit in g's subtree (_is_descendant, which raises *)
(* when p is on a cycle or a row of its chain is gone).                    *)
MayAdopt(p, above, g) ==
  /\ p \in groups
  /\ LET chain == ChainIn([parent EXCEPT ![p] = above], p)
     IN  Root \in chain /\ g \notin chain

(* update_group: the group.  None leaves a field as it is.                 *)
UpdateLoad(w, g, n, p) ==
  /\ req[w] = NoReq
  /\ g \in groups \ {Root}
  /\ n # name[g] /\ p \notin {g, parent[g]}
  /\ n # None => FreeName(n)
  /\ n # None \/ p # None
  /\ req' = [req EXCEPT ![w] =
               [at |-> IF p = None THEN "checked" ELSE "loaded", group |-> g, name |-> n,
                parent |-> p, above |-> None, stale |-> FALSE]]
  /\ UNCHANGED <<tree, member, gparam, hparam>>

(* The new parent.                                                         *)
UpdateFind(w) ==
  /\ req[w].at = "loaded"
  /\ req[w].parent \in groups
  /\ req' = [req EXCEPT ![w].at = "found", ![w].above = parent[req[w].parent]]
  /\ UNCHANGED <<tree, member, gparam, hparam>>

(* list_groups, and the check over the rows the session holds then.        *)
UpdateCheck(w) ==
  /\ req[w].at = "found"
  /\ MayAdopt(req[w].parent, req[w].above, req[w].group)
  /\ req' = [req EXCEPT ![w].at = "checked"]
  /\ UNCHANGED <<tree, member, gparam, hparam>>

(* Mutant of Reparented: the children of g stay with its old parent.       *)
ReparentedAlone(g, p) ==
  [x \in Group |-> IF x = g THEN p ELSE IF parent[x] = g THEN parent[g] ELSE parent[x]]

Reparented(g, p) == [parent EXCEPT ![g] = p]

(* Its commit.  A reparent puts every other one out of date that has       *)
(* loaded its new parent.                                                  *)
Rests(v) == req[v].parent # None /\ req[v].at # "loaded"

UpdateCommit(w) ==
  LET r == req[w] IN
  /\ r.at = "checked"
  /\ r.group \in groups
  /\ r.name # None => FreeName(r.name)
  /\ r.parent # None => r.parent \in groups
  /\ name' = IF r.name = None THEN name ELSE [name EXCEPT ![r.group] = r.name]
  /\ parent' = IF r.parent = None THEN parent ELSE Reparented(r.group, r.parent)
  /\ req' = [v \in Worker |->
               CASE v = w -> NoReq
                 [] v # w /\ r.parent # None /\ Rests(v) -> [req[v] EXCEPT !.stale = TRUE]
                 [] OTHER -> req[v]]
  /\ UNCHANGED <<groups, issued, member, gparam, hparam>>

(* Rolled back: a constraint at the commit, a lost connection.             *)
UpdateFails(w) ==
  /\ req[w] # NoReq
  /\ req' = [req EXCEPT ![w] = NoReq]
  /\ UNCHANGED <<tree, member, gparam, hparam>>

(* Mutant of MembersWithout: no ON DELETE CASCADE.                         *)
MembersKept(g) == member

(* host_groups after the cascade from group g.                             *)
MembersWithout(g) == {p \in member : p[2] # g}

(* delete_group: refused while it has children; memberships and parameters *)
(* go with it.                                                             *)
DeleteGroup(g) ==
  /\ g \in groups \ {Root}
  /\ \A x \in groups : parent[x] # g
  /\ groups' = groups \ {g}
  /\ parent' = [parent EXCEPT ![g] = None]
  /\ name' = [name EXCEPT ![g] = 0]
  /\ member' = MembersWithout(g)
  /\ gparam' = gparam \ {g}
  /\ UNCHANGED <<issued, hparam, req>>

(* add_member, remove_member: the global group has no explicit members.    *)
AddMember(h, g) ==
  /\ g \in groups \ {Root}
  /\ <<h, g>> \notin member
  /\ member' = member \cup {<<h, g>>}
  /\ UNCHANGED <<tree, gparam, hparam, req>>

RemoveMember(h, g) ==
  /\ <<h, g>> \in member
  /\ member' = member \ {<<h, g>>}
  /\ UNCHANGED <<tree, gparam, hparam, req>>

(* set_group_parameter of a new key, unset_group_parameter.                *)
SetGroupParameter(g) ==
  /\ g \in groups \ gparam
  /\ gparam' = gparam \cup {g}
  /\ UNCHANGED <<tree, member, hparam, req>>

UnsetGroupParameter(g) ==
  /\ g \in gparam
  /\ gparam' = gparam \ {g}
  /\ UNCHANGED <<tree, member, hparam, req>>

(* set_host_parameter, unset_host_parameter                                *)
SetHostParameter(h) ==
  /\ h \notin hparam
  /\ hparam' = hparam \cup {h}
  /\ UNCHANGED <<tree, member, gparam, req>>

UnsetHostParameter(h) ==
  /\ h \in hparam
  /\ hparam' = hparam \ {h}
  /\ UNCHANGED <<tree, member, gparam, req>>

-----------------------------------------------------------------------------
(* The migration seeds the global group.                                   *)
Init ==
  /\ groups = {Root}
  /\ issued = {Root}
  /\ parent = [g \in Group |-> None]
  /\ name = [g \in Group |-> 0]
  /\ member = {}
  /\ gparam = {}
  /\ hparam = {}
  /\ req = [w \in Worker |-> NoReq]

TreeStep(g) ==
  \/ \E n \in Name, p \in Group : CreateGroup(g, n, p)
  \/ DeleteGroup(g)
  \/ SetGroupParameter(g) \/ UnsetGroupParameter(g)
  \/ \E h \in Host : AddMember(h, g) \/ RemoveMember(h, g)

UpdateStep(w) ==
  \/ \E g \in Group, n \in Name \cup {None}, p \in Group \cup {None} : UpdateLoad(w, g, n, p)
  \/ UpdateFind(w) \/ UpdateCheck(w)
  \/ UpdateCommit(w)
  \/ UpdateFails(w)

Next ==
  \/ \E g \in Group : TreeStep(g)
  \/ \E w \in Worker : UpdateStep(w)
  \/ \E h \in Host : SetHostParameter(h) \/ UnsetHostParameter(h)

Spec == Init /\ [][Next]_vars

-----------------------------------------------------------------------------
(* Type invariant.  Only the global group has no parent, and what hangs on *)
(* a group hangs on one that exists.                                       *)
Req == [at: {"none", "loaded", "found", "checked"}, group: Group \cup {None},
        name: Name \cup {None}, parent: Group \cup {None}, above: Group \cup {None},
        stale: BOOLEAN]

TypeOK ==
  /\ Root \in groups /\ groups \subseteq issued /\ issued \subseteq Group
  /\ parent \in [Group -> groups \cup {None}]
  /\ \A g \in Group : parent[g] # None <=> g \in groups \ {Root}
  /\ name \in [Group -> Name \cup {0}]
  /\ member \subseteq Host \X (groups \ {Root})
  /\ gparam \subseteq groups
  /\ hparam \subseteq Host
  /\ req \in [Worker -> Req]
  /\ \A w \in Worker : req[w] # NoReq => req[w].group \in Group \ {Root}

(* No groups are one another's ancestors: among any of them, one has its   *)
(* parent elsewhere.                                                       *)
Tree == \A S \in SUBSET (groups \ {Root}) : S # {} => \E x \in S : parent[x] \notin S

(* The groups stay one tree under the global group: no step takes that     *)
(* away except the commit of a reparent that had loaded its new parent     *)
(* before another reparent committed (groups/service.py update_group).     *)
TreeKept ==
  [][Tree => Tree' \/ \E w \in Worker : req[w].stale /\ UpdateCommit(w)]_vars

(* Effective membership is the mirror of inheritance: a host is listed     *)
(* under a group exactly when that group contributes to its parameters     *)
(* (groups/resolution.py subtree_ids, ancestor_chain).                     *)
MembershipMirrorsInheritance ==
  Tree => \A h \in Host :
    LET contributing == Contributing(h) IN
    \A g \in groups : h \in EffectiveMembers(g) <=> g \in contributing

(* The list of members, the count on the tree page, the reasons on the     *)
(* group page and the search for hosts of a group agree, and every reason  *)
(* given is a group of this subtree that the host has joined, or the host  *)
(* is in no group and this is the global one.                              *)
ViewsAgree ==
  Tree => \A g \in groups :
    LET why     == Sources(g)
        members == EffectiveMembers(g)
    IN
    /\ EffectiveCount(g) = Cardinality(members)
    /\ DOMAIN why = members /\ Found(g) = members
    /\ \A h \in DOMAIN why :
         /\ \A x \in why[h] : g \in Chain(x) /\ x \in MemberOf(h)
         /\ why[h] = {} => g = Root /\ MemberOf(h) = {}

(* The nearest setting wins (groups/resolution.py, "a child overrides its  *)
(* parent", "the host's own parameters override everything"): when the     *)
(* source is a group, every other contributing group that sets the         *)
(* parameter is less deep, or as deep under an earlier name, and when      *)
(* there is no source nobody sets it.                                      *)
NearestWins ==
  Tree => \A h \in Host :
    LET source  == Effective(h)
        setters == Contributing(h) \cap gparam
    IN /\ source = h <=> h \in hparam
       /\ source = None => setters = {}
       /\ source \in Group =>
            /\ source \in setters
            /\ \A g \in setters \ {source} :
                 \/ Depth(g) < Depth(source)
                 \/ Depth(g) = Depth(source) /\ name[g] < name[source]

(* Reparenting a group changes the members of nobody but its old and its   *)
(* new ancestors, and of those only where the two chains differ            *)
(* (groups/service.py update_group, list_effective_member_host_ids).       *)
ReparentIsLocal ==
  [][\A g \in groups :
       groups' = groups /\ parent'[g] # parent[g] /\ Tree /\ Tree' =>
         \A x \in groups :
           (x \in Chain(g) <=> x \in Chain(g)') => EffectiveMembers(x)' = EffectiveMembers(x)]_vars
=============================================================================
