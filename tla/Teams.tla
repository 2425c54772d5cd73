------------------------------- MODULE Teams -------------------------------
(***************************************************************************)
(* Teams, their members and the ownership of hosts (teams/, the owners of  *)
(* hosts/service.py).                                                      *)
(*                                                                         *)
(* A request has its authority checked in one transaction and is carried   *)
(* out in the next.  What an operation decides on the row it writes, or on *)
(* a unique or foreign key, is one action; what it decides on other rows   *)
(* (the team's admins, the team's hosts, the host's status) is read in one *)
(* action and committed in another, with anything in between.              *)
(* teams and hosts carry a version counter; team_memberships and the two   *)
(* owner tables do not.  Names and descriptions decide nothing here.       *)
(***************************************************************************)
CONSTANTS User, Team, Host, Worker, None,
          OrgAdmin   \* users.is_admin

ASSUME OrgAdminsAreUsers == OrgAdmin \subseteq User
ASSUME NoneIsNothing == None \notin User \cup Team \cup Host

VARIABLES team,      \* teams: absent, live, deleted
          role,      \* team_memberships: none, member or admin, by team and user
          gone,      \* users that were deleted, which leaves their rows behind
          host,      \* hosts: active (or provisioning), decommissioned, deleted
          owns,      \* host_owner_users and host_owner_teams
          tx         \* requests between two of their statements

vars == <<team, role, gone, host, owns, tx>>

Owner == User \cup Team
TeamOp == {"demote", "remove", "delete"}
HostOp == {"give", "take"}
Scope == {"idle", "org", "team", "host"}

(* One request: what it may do or is about to write, the team or host and  *)
(* the user or owner it is about, and whether what it read has changed.    *)
Tx == [op : Scope \cup TeamOp \cup HostOp, on : Team \cup Host \cup {None},
       who : Owner \cup {None}, stale : BOOLEAN]
Idle == [op |-> "idle", on |-> None, who |-> None, stale |-> FALSE]
At(op, on, who) == [op |-> op, on |-> on, who |-> who, stale |-> FALSE]

IsAdmin(t, u) == role[t][u] = "admin"

(* Mutant of OthersRemain: members count.                                  *)
SomeoneRemains(t, u) == \E x \in User \ {u} : role[t][x] # "none"

(* _count_team_admins is more than one, and u is among them.               *)
OthersRemain(t, u) == \E x \in User \ {u} : IsAdmin(t, x)

(* Mutant of OwnsActive: the hosts of another status are the active ones.  *)
OwnsRetired(t) == \E h \in Host : <<h, t>> \in owns /\ host[h] = "decommissioned"

(* The hosts that delete_team looks for.                                   *)
OwnsActive(t) == \E h \in Host : <<h, t>> \in owns /\ host[h] = "active"

(* user_can_read *)
CanRead(u, h) ==
  \/ u \in OrgAdmin
  \/ <<h, u>> \in owns
  \/ \E t \in Team : <<h, t>> \in owns /\ role[t][u] # "none"

(* w is done; the requests in Fail will find their row gone or newer, those *)
(* in Stale decided on what is no longer so.                               *)
Done(w, Fail, Stale) ==
  [v \in Worker |->
     IF v = w \/ v \in Fail THEN Idle
     ELSE IF v \in Stale THEN [tx[v] EXCEPT !.stale = TRUE] ELSE tx[v]]

Doing(ops, on) == {v \in Worker : tx[v].op \in ops /\ tx[v].on = on}
About(who) == {v \in Worker : tx[v].who = who}

-----------------------------------------------------------------------------
(* require_admin, _require_admin_ui                                        *)
AskOrg(w, u) ==
  /\ tx[w] = Idle /\ u \in OrgAdmin
  /\ tx' = [tx EXCEPT ![w] = At("org", None, None)]
  /\ UNCHANGED <<team, role, gone, host, owns>>

(* _require_team_admin_or_org_admin *)
AskTeam(w, u, t) ==
  /\ tx[w] = Idle /\ (u \in OrgAdmin \/ IsAdmin(t, u))
  /\ tx' = [tx EXCEPT ![w] = At("team", t, None)]
  /\ UNCHANGED <<team, role, gone, host, owns>>

(* _require_can_manage *)
MayManage(u, h) == host[h] # "deleted" /\ CanRead(u, h)

(* _require_owner_or_admin: an administrator's host is not looked at.      *)
AskHost(w, u, h) ==
  /\ tx[w] = Idle /\ (u \in OrgAdmin \/ MayManage(u, h))
  /\ tx' = [tx EXCEPT ![w] = At("host", h, None)]
  /\ UNCHANGED <<team, role, gone, host, owns>>

(* A refusal, an error, a lost connection, a request that changes nothing. *)
Rollback(w) ==
  /\ tx[w] # Idle
  /\ tx' = [tx EXCEPT ![w] = Idle]
  /\ UNCHANGED <<team, role, gone, host, owns>>

-----------------------------------------------------------------------------
(* teams/service.py *)
CreateTeam(w, t) ==
  /\ tx[w].op = "org" /\ team[t] = "absent"
  /\ team' = [team EXCEPT ![t] = "live"]
  /\ tx' = Done(w, {}, {})
  /\ UNCHANGED <<role, gone, host, owns>>

(* update_team: a newer row, so a deletion that read the old one fails.    *)
UpdateTeam(w, t) ==
  /\ tx[w].op = "team" /\ tx[w].on = t /\ team[t] = "live"
  /\ tx' = Done(w, Doing({"delete"}, t), {})
  /\ UNCHANGED <<team, role, gone, host, owns>>

AddMember(w, t, u, r) ==
  /\ tx[w].op = "team" /\ tx[w].on = t
  /\ team[t] = "live" /\ u \notin gone /\ role[t][u] = "none"
  /\ role' = [role EXCEPT ![t][u] = r]
  /\ tx' = Done(w, {}, {})
  /\ UNCHANGED <<team, gone, host, owns>>

(* update_member_role to admin: who read the row as a member's is late.    *)
Promote(w, t, u) ==
  /\ tx[w].op = "team" /\ tx[w].on = t /\ role[t][u] = "member"
  /\ role' = [role EXCEPT ![t][u] = "admin"]
  /\ tx' = Done(w, {}, Doing({"demote", "remove"}, t) \cap About(u))
  /\ UNCHANGED <<team, gone, host, owns>>

(* Those that counted u among the admins of t.                             *)
Counted(t, u) == IF IsAdmin(t, u) THEN Doing({"demote", "remove"}, t) \ About(u) ELSE {}

(* update_member_role to member: count, ...                                *)
DemoteRead(w, t, u) ==
  /\ tx[w].op = "team" /\ tx[w].on = t
  /\ IsAdmin(t, u) /\ OthersRemain(t, u)
  /\ tx' = [tx EXCEPT ![w] = At("demote", t, u)]
  /\ UNCHANGED <<team, role, gone, host, owns>>

(* ... and write a row that is still there.                                *)
DemoteCommit(w) ==
  LET t == tx[w].on  u == tx[w].who IN
  /\ tx[w].op = "demote"
  /\ role' = [role EXCEPT ![t][u] = "member"]
  /\ tx' = Done(w, {}, Counted(t, u))
  /\ UNCHANGED <<team, gone, host, owns>>

(* remove_member: count if the row is an admin's, ...                      *)
RemoveRead(w, t, u) ==
  /\ tx[w].op = "team" /\ tx[w].on = t /\ role[t][u] # "none"
  /\ IsAdmin(t, u) => OthersRemain(t, u)
  /\ tx' = [tx EXCEPT ![w] = At("remove", t, u)]
  /\ UNCHANGED <<team, role, gone, host, owns>>

(* ... and delete it: whoever else read it finds nothing.                  *)
RemoveCommit(w) ==
  LET t == tx[w].on  u == tx[w].who IN
  /\ tx[w].op = "remove"
  /\ role' = [role EXCEPT ![t][u] = "none"]
  /\ tx' = Done(w, Doing({"demote", "remove"}, t) \cap About(u), Counted(t, u))
  /\ UNCHANGED <<team, gone, host, owns>>

(* delete_team: look for active hosts, ...                                 *)
DeleteRead(w, t) ==
  /\ tx[w].op = "org" /\ team[t] = "live" /\ ~OwnsActive(t)
  /\ tx' = [tx EXCEPT ![w] = At("delete", t, None)]
  /\ UNCHANGED <<team, role, gone, host, owns>>

(* Mutant of DeleteCommit: the owner rows stay.                            *)
DeleteMembersOnly(w) ==
  LET t == tx[w].on IN
  /\ tx[w].op = "delete"
  /\ team' = [team EXCEPT ![t] = "deleted"]
  /\ role' = [role EXCEPT ![t] = [u \in User |-> "none"]]
  /\ tx' = Done(w, Doing(TeamOp, t), {})
  /\ UNCHANGED <<gone, host, owns>>

(* ... and delete the row, memberships and ownership with it.              *)
DeleteCommit(w) ==
  LET t == tx[w].on IN
  /\ tx[w].op = "delete"
  /\ team' = [team EXCEPT ![t] = "deleted"]
  /\ role' = [role EXCEPT ![t] = [u \in User |-> "none"]]
  /\ owns' = {x \in owns : x[2] # t}
  /\ tx' = Done(w, Doing(TeamOp, t), {})
  /\ UNCHANGED <<gone, host>>

(* users/service.py delete_user, which leaves memberships and ownership.   *)
DeleteUser(w, u) ==
  /\ tx[w].op = "org" /\ u \notin gone
  /\ gone' = gone \cup {u}
  /\ tx' = Done(w, {}, {})
  /\ UNCHANGED <<team, role, host, owns>>

-----------------------------------------------------------------------------
(* hosts/service.py *)

(* decommission_host *)
Decommission(w, h) ==
  /\ tx[w].op = "org" /\ host[h] = "active"
  /\ host' = [host EXCEPT ![h] = "decommissioned"]
  /\ tx' = Done(w, {}, Doing(HostOp, h))
  /\ UNCHANGED <<team, role, gone, owns>>

(* delete_host_record, by an administrator or the sweep of stale hosts.    *)
DeleteHost(h) ==
  /\ host[h] # "deleted"
  /\ host' = [host EXCEPT ![h] = "deleted"]
  /\ owns' = {x \in owns : x[1] # h}
  /\ UNCHANGED <<team, role, gone, tx>>

Exists(o) == IF o \in Team THEN team[o] = "live" ELSE o \notin gone

(* Mutant of GiveRead: the status is not looked at.                        *)
GiveAny(w, h, o) ==
  /\ tx[w].op = "host" /\ tx[w].on = h
  /\ host[h] # "deleted" /\ Exists(o) /\ <<h, o>> \notin owns
  /\ tx' = [tx EXCEPT ![w] = At("give", h, o)]
  /\ UNCHANGED <<team, role, gone, host, owns>>

(* add_user_owner, add_team_owner: the host is not frozen, the owner is    *)
(* there and not yet an owner, ...                                         *)
GiveRead(w, h, o) ==
  /\ tx[w].op = "host" /\ tx[w].on = h
  /\ host[h] = "active" /\ Exists(o) /\ <<h, o>> \notin owns
  /\ tx' = [tx EXCEPT ![w] = At("give", h, o)]
  /\ UNCHANGED <<team, role, gone, host, owns>>

(* ... and the INSERT, which only asks for the rows it points at and for   *)
(* the pair to be new.  delete_team may have looked just before.           *)
GiveCommit(w) ==
  LET h == tx[w].on  o == tx[w].who IN
  /\ tx[w].op = "give"
  /\ host[h] # "deleted" /\ (o \in Team => team[o] = "live") /\ <<h, o>> \notin owns
  /\ owns' = owns \cup {<<h, o>>}
  /\ tx' = Done(w, {}, Doing({"delete"}, o))
  /\ UNCHANGED <<team, role, gone, host>>

(* remove_user_owner, remove_team_owner: the status, ...                   *)
TakeRead(w, h, o) ==
  /\ tx[w].op = "host" /\ tx[w].on = h /\ host[h] = "active"
  /\ tx' = [tx EXCEPT ![w] = At("take", h, o)]
  /\ UNCHANGED <<team, role, gone, host, owns>>

(* ... and the DELETE.                                                     *)
TakeCommit(w) ==
  /\ tx[w].op = "take"
  /\ owns' = owns \ {<<tx[w].on, tx[w].who>>}
  /\ tx' = Done(w, {}, {})
  /\ UNCHANGED <<team, role, gone, host>>

-----------------------------------------------------------------------------
Init ==
  /\ team = [t \in Team |-> "absent"]
  /\ role = [t \in Team |-> [u \in User |-> "none"]]
  /\ gone = {}
  /\ host = [h \in Host |-> "active"]
  /\ owns = {}
  /\ tx = [w \in Worker |-> Idle]

Next ==
  \/ \E w \in Worker, t \in Team, u \in User :
       \/ AskTeam(w, u, t) \/ Promote(w, t, u)
       \/ \E r \in {"member", "admin"} : AddMember(w, t, u, r)
       \/ DemoteRead(w, t, u) \/ RemoveRead(w, t, u)
  \/ \E w \in Worker, t \in Team : CreateTeam(w, t) \/ UpdateTeam(w, t) \/ DeleteRead(w, t)
  \/ \E w \in Worker, u \in User : AskOrg(w, u) \/ DeleteUser(w, u)
  \/ \E w \in Worker, h \in Host :
       \/ \E u \in User : AskHost(w, u, h)
       \/ \E o \in Owner : GiveRead(w, h, o) \/ TakeRead(w, h, o)
       \/ Decommission(w, h)
  \/ \E w \in Worker :
       \/ DemoteCommit(w) \/ RemoveCommit(w) \/ DeleteCommit(w)
       \/ GiveCommit(w) \/ TakeCommit(w) \/ Rollback(w)
  \/ \E h \in Host : DeleteHost(h)

Spec == Init /\ [][Next]_vars

-----------------------------------------------------------------------------
(* Types, and that memberships and ownership belong to teams and hosts     *)
(* that exist.                                                             *)
TypeOK ==
  /\ team \in [Team -> {"absent", "live", "deleted"}]
  /\ role \in [Team -> [User -> {"none", "member", "admin"}]]
  /\ gone \in SUBSET User
  /\ host \in [Host -> {"active", "decommissioned", "deleted"}]
  /\ owns \in SUBSET (Host \X Owner)
  /\ tx \in [Worker -> Tx]
  /\ \A t \in Team, u \in User : role[t][u] # "none" => team[t] = "live"
  /\ \A x \in owns : host[x[1]] # "deleted" /\ (x[2] \in Team => team[x[2]] = "live")

(* The requests this step carried out although what they read had changed. *)
Late(ops, on) ==
  \E w \in Worker : tx[w].op \in ops /\ tx[w].on = on /\ tx[w].stale /\ tx'[w] = Idle

LiveAdmins(t) == {u \in User \ gone : IsAdmin(t, u)}
LostAdmins(t) == {u \in gone : IsAdmin(t, u)}

(* A team that lives on keeps an admin who can sign in (update_member_role,*)
(* remove_member), with three ways out: the request counted before another *)
(* admin went or before its target became one; the admin's account is      *)
(* deleted; or a deleted account is the admin that was counted.            *)
TeamAdminKept ==
  [][\A t \in Team :
       LiveAdmins(t) # {} /\ LiveAdmins(t)' = {} /\ team'[t] = "live" =>
         Late({"demote", "remove"}, t) \/ gone' # gone \/ LostAdmins(t) # {}]_vars

(* An active host loses its team only when somebody takes it away or the   *)
(* host goes: a team is not deleted under the hosts it owns (delete_team), *)
(* unless the host was given to it after delete_team had looked.           *)
HostKeepsTeam ==
  [][\A h \in Host, t \in Team :
       <<h, t>> \in owns \ owns' /\ host[h] = "active" =>
         \/ \E w \in Worker : tx[w] = [At("take", h, t) EXCEPT !.stale = tx[w].stale]
                              /\ tx'[w] = Idle
         \/ host'[h] = "deleted"
         \/ Late({"delete"}, t)]_vars

(* The owners of a decommissioned host stay as they are ("ownership is     *)
(* frozen"), but for a change that looked before it was decommissioned and *)
(* for the teams that are deleted, which ask about other hosts only.       *)
FrozenOwnership ==
  [][\A h \in Host, o \in Owner :
       /\ host[h] = "decommissioned" /\ host'[h] = "decommissioned"
       /\ ~(<<h, o>> \in owns <=> <<h, o>> \in owns')
       => Late(HostOp, h) \/ (o \in Team /\ team'[o] = "deleted")]_vars
=============================================================================
