------------------------------ MODULE Accounts ------------------------------
(***************************************************************************)
(* Users, administrators and their sessions (users/, auth/, core/deps.py). *)
(*                                                                         *)
(* A request is authenticated in one transaction, its authority is checked *)
(* in a second and it is carried out in a third.  users carries a version  *)
(* counter: of two transactions that read one row, the second to write it  *)
(* fails.  session_tokens carries none.  Handlers that decide on the row   *)
(* they write are one action; those that decide on other rows, by counting *)
(* administrators or by collecting sessions, are one action per statement. *)
(* An e-mail address is its user: it is unique, and a deleted user keeps   *)
(* it.  Names and passwords decide nothing here.                           *)
(***************************************************************************)
CONSTANTS User,
          Root,      \* the bootstrap administrator
          Session, Worker, None

ASSUME RootIsAUser == Root \in User
ASSUME NoneIsNobody == None \notin User

VARIABLES user,      \* users: absent, live, or deleted (deleted_at is set)
          admin,     \* users.is_admin, which a deletion leaves alone
          holder,    \* session_tokens.user_id, None before the row exists
          live,      \* sessions neither revoked nor expired
          tx,        \* handlers between two of their transactions or statements
          late       \* history: sessions whose login straddled its user's deletion

vars == <<user, admin, holder, live, tx, late>>

Status == {"absent", "live", "deleted"}
Op == {"idle", "known", "admin", "demote", "delete", "deleting", "login"}

(* One request: what it is at, the user it is about, the sessions that     *)
(* delete_user collected, and whether what it decided on has changed.      *)
Tx == [op : Op, on : User \cup {None}, seen : SUBSET Session, stale : BOOLEAN]
Idle == [op |-> "idle", on |-> None, seen |-> {}, stale |-> FALSE]
At(op, u) == [Idle EXCEPT !.op = op, !.on = u]

(* count_active_admins *)
Admins == {u \in admin : user[u] = "live"}

(* Mutant of SessionsOf: only other devices, never the only session.       *)
SessionsButOne(u) ==
  {s \in live : holder[s] = u /\ \E x \in live : x # s /\ holder[x] = u}

(* revoke_all_user_sessions *)
SessionsOf(u) == {s \in live : holder[s] = u}

(* The row of u is written and not committed by nobody but w.              *)
RowFree(u, w) == \A v \in Worker \ {w} : ~(tx[v].op = "deleting" /\ tx[v].on = u)

(* w commits a write of u's row: whoever else read it will fail.           *)
Committed(w, u) ==
  [v \in Worker |->
     IF v = w \/ (tx[v].op \in {"demote", "delete"} /\ tx[v].on = u) THEN Idle ELSE tx[v]]

Outdated(t, W) ==
  [v \in Worker |-> IF v \in W THEN [t[v] EXCEPT !.stale = TRUE] ELSE t[v]]

(* The requests that counted administrators before u stopped being one.    *)
Counted(w, u) ==
  IF u \in Admins
  THEN {v \in Worker \ {w} : tx[v].op \in {"demote", "delete", "deleting"} /\ tx[v].on # u}
  ELSE {}

-----------------------------------------------------------------------------
(* current_actor: the token is looked up, its user is not.                 *)
Authenticate(w, s) ==
  /\ tx[w] = Idle /\ s \in live
  /\ tx' = [tx EXCEPT ![w] = At("known", holder[s])]
  /\ UNCHANGED <<user, admin, holder, live, late>>

(* require_admin, and by_admin in update_user's route.                     *)
RequireAdmin(w) ==
  /\ tx[w].op = "known" /\ tx[w].on \in admin
  /\ tx' = [tx EXCEPT ![w] = At("admin", None)]
  /\ UNCHANGED <<user, admin, holder, live, late>>

(* A refusal, an error, a lost connection, the end of a read.              *)
Rollback(w) ==
  /\ tx[w] # Idle
  /\ tx' = [tx EXCEPT ![w] = Idle]
  /\ UNCHANGED <<user, admin, holder, live, late>>

-----------------------------------------------------------------------------
(* users/service.py *)

(* Mutant of CreateUser: the flag is stored and the row is not.            *)
CreateUnsaved(w, u, isAdmin) ==
  /\ tx[w].op = "admin" /\ user[u] = "absent"
  /\ admin' = IF isAdmin THEN admin \cup {u} ELSE admin
  /\ tx' = [tx EXCEPT ![w] = Idle]
  /\ UNCHANGED <<user, holder, live, late>>

CreateUser(w, u, isAdmin) ==
  /\ tx[w].op = "admin" /\ user[u] = "absent"
  /\ user' = [user EXCEPT ![u] = "live"]
  /\ admin' = IF isAdmin THEN admin \cup {u} ELSE admin
  /\ tx' = [tx EXCEPT ![w] = Idle]
  /\ UNCHANGED <<holder, live, late>>

(* The route's checks: administrators change anybody, users themselves but *)
(* for is_admin.                                                           *)
MayUpdate(w, u, isAdmin) ==
  \/ tx[w].op = "admin"
  \/ tx[w].op = "known" /\ tx[w].on = u /\ (u \in admin <=> isAdmin)

(* update_user: anything that leaves is_admin as it is, or sets it.        *)
UpdateUser(w, u, isAdmin) ==
  /\ MayUpdate(w, u, isAdmin) /\ (u \in admin => isAdmin)
  /\ user[u] = "live" /\ RowFree(u, w)
  /\ admin' = IF isAdmin THEN admin \cup {u} ELSE admin
  /\ tx' = Committed(w, u)
  /\ UNCHANGED <<user, holder, live, late>>

(* Mutant of OthersRemain: the count is compared with zero.                *)
SomeRemain(u) == Admins # {}

(* The count is more than one and u is among them.                         *)
OthersRemain(u) == Admins \ {u} # {}

(* update_user, clearing is_admin: read the row, count, ...                *)
DemoteRead(w, u) ==
  /\ tx[w].op = "admin" /\ u \in Admins /\ OthersRemain(u)
  /\ tx' = [tx EXCEPT ![w] = At("demote", u)]
  /\ UNCHANGED <<user, admin, holder, live, late>>

(* ... and write the flag, of a row nobody has written since.              *)
DemoteCommit(w) ==
  LET u == tx[w].on IN
  /\ tx[w].op = "demote" /\ RowFree(u, w)
  /\ admin' = admin \ {u}
  /\ tx' = Outdated(Committed(w, u), Counted(w, u))
  /\ UNCHANGED <<user, holder, live, late>>

(* delete_user: read the row, count if it is an administrator's, ...       *)
DeleteRead(w, u) ==
  /\ tx[w].op = "admin" /\ user[u] = "live"
  /\ u \in admin => OthersRemain(u)
  /\ tx' = [tx EXCEPT ![w] = At("delete", u)]
  /\ UNCHANGED <<user, admin, holder, live, late>>

(* ... set deleted_at, which the SELECT of the sessions flushes, ...       *)
DeleteSelect(w) ==
  LET u == tx[w].on IN
  /\ tx[w].op = "delete" /\ RowFree(u, w)
  /\ tx' = [tx EXCEPT ![w].op = "deleting", ![w].seen = SessionsOf(u)]
  /\ UNCHANGED <<user, admin, holder, live, late>>

(* ... and commit that together with the end of those sessions.            *)
DeleteCommit(w) ==
  LET u == tx[w].on
      logins == {v \in Worker : tx[v].op = "login" /\ tx[v].on = u}
  IN
  /\ tx[w].op = "deleting"
  /\ user' = [user EXCEPT ![u] = "deleted"]
  /\ live' = live \ tx[w].seen
  /\ tx' = Outdated(Committed(w, u), Counted(w, u) \cup logins)
  /\ UNCHANGED <<admin, holder, late>>

-----------------------------------------------------------------------------
(* auth/service.py *)

(* login: the row is read and the password verified, ...                   *)
LoginRead(w, u) ==
  /\ tx[w] = Idle /\ user[u] = "live"
  /\ tx' = [tx EXCEPT ![w] = At("login", u)]
  /\ UNCHANGED <<user, admin, holder, live, late>>

(* ... and a session inserted, whatever has become of the user: a soft     *)
(* delete leaves the row its foreign key points at.                        *)
LoginCommit(w, s) ==
  LET u == tx[w].on IN
  /\ tx[w].op = "login" /\ holder[s] = None
  /\ holder' = [holder EXCEPT ![s] = u]
  /\ live' = live \cup {s}
  /\ late' = IF tx[w].stale \/ ~RowFree(u, w) THEN late \cup {s} ELSE late
  /\ tx' = [tx EXCEPT ![w] = Idle]
  /\ UNCHANGED <<user, admin>>

(* logout, or the passing of expires_at.                                   *)
EndSession(s) ==
  /\ s \in live
  /\ live' = live \ {s}
  /\ UNCHANGED <<user, admin, holder, tx, late>>

-----------------------------------------------------------------------------
(* _bootstrap_admin has run.                                               *)
Init ==
  /\ user = [u \in User |-> IF u = Root THEN "live" ELSE "absent"]
  /\ admin = {Root}
  /\ holder = [s \in Session |-> None]
  /\ live = {}
  /\ tx = [w \in Worker |-> Idle]
  /\ late = {}

Next ==
  \/ \E w \in Worker :
       \/ \E s \in Session : Authenticate(w, s) \/ LoginCommit(w, s)
       \/ \E u \in User : DemoteRead(w, u) \/ DeleteRead(w, u) \/ LoginRead(w, u)
       \/ \E u \in User, isAdmin \in BOOLEAN :
            CreateUser(w, u, isAdmin) \/ UpdateUser(w, u, isAdmin)
       \/ RequireAdmin(w) \/ DemoteCommit(w) \/ DeleteSelect(w) \/ DeleteCommit(w)
       \/ Rollback(w)
  \/ \E s \in Session : EndSession(s)

Spec == Init /\ [][Next]_vars

-----------------------------------------------------------------------------
(* Types, and that flags and sessions belong to users that exist.          *)
TypeOK ==
  /\ user \in [User -> Status]
  /\ admin \in SUBSET User /\ \A u \in admin : user[u] # "absent"
  /\ holder \in [Session -> User \cup {None}]
  /\ live \in SUBSET Session /\ \A s \in live : holder[s] # None
  /\ tx \in [Worker -> Tx]
  /\ late \in SUBSET Session

(* A deletion ends its user's sessions for good (delete_user,              *)
(* revoke_all_user_sessions): current_actor never looks at deleted_at, so  *)
(* a session that lives on still acts as its user, as an administrator if  *)
(* it was one.  The one way out is a login that read the user before the   *)
(* deletion committed and inserted its session after it looked for them.   *)
SessionsEnd == \A s \in live : user[holder[s]] = "deleted" => s \in late

(* The last administrator is never lost (update_user, delete_user), except *)
(* to a request that counted before another administrator was lost: what   *)
(* else overlaps, a promotion, a new user or a second deletion of the same *)
(* one, does not get past the guard.                                       *)
AdminKept ==
  [][Admins # {} /\ Admins' = {} =>
       \E w \in Worker : /\ tx[w].op \in {"demote", "deleting"} /\ tx[w].stale
                         /\ tx'[w] = Idle]_vars
=============================================================================
