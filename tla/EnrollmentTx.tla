---------------------------- MODULE EnrollmentTx ----------------------------
(***************************************************************************)
(* The transactions that create, exchange, revoke, retire and delete agent *)
(* credentials, statement by statement under PostgreSQL READ COMMITTED     *)
(* (core/db.py sets no isolation level).                                   *)
(*                                                                         *)
(* A worker is one request handler, or the background sweep, between       *)
(* `session.begin()` and its commit.  tx[w] is what it has read and what   *)
(* it has written and not committed.  A SELECT sees committed rows only.   *)
(* An UPDATE or DELETE waits for a row another worker has written, then    *)
(* judges its WHERE clause against the row as committed.  Inserting a      *)
(* token holds a key-share lock on its host, which a DELETE of the host    *)
(* waits for.  `hosts` carries a version counter (version_id_col): a write *)
(* of a host row fails, and rolls everything back, when another commit has *)
(* written the row since this worker read it.  The counter itself is       *)
(* abstracted to tx[w].old, the hosts worker w has read that have been     *)
(* written since.                                                          *)
(***************************************************************************)
EXTENDS FiniteSets

CONSTANTS Host, Enr, Token, Worker,
          HostOf,      \* the host each enrollment is for (never changes)
          None

ASSUME HostOfType == HostOf \in [Enr -> Host]
ASSUME NoneIsNew == None \notin Host \cup Enr \cup Token

VARIABLES hst,    \* hosts.status, "absent" before the insert, "gone" after the delete
          beat,   \* hosts.last_heartbeat_at is not null
          enr,    \* agent_enrollments rows
          tok,    \* agent_tokens rows
          tx      \* open transactions

vars == <<hst, beat, enr, tok, tx>>

-----------------------------------------------------------------------------
(* Rows.  `age` is the clock as an enrollment sees it: "valid" before      *)
(* expires_at, "expired" after it, "stale" once the sweep's grace period   *)
(* has passed as well.  tok[t].bumped records whether the commit that      *)
(* inserted t also wrote the host row; no code reads it.                   *)

HostStatus == {"provisioning", "active", "decommissioned"}

NoEnr == [row |-> "absent", used |-> FALSE, revoked |-> FALSE, age |-> "valid"]
NoTok == [row |-> "absent", enr |-> None, bumped |-> FALSE]

Idle == [pc |-> "idle", enr |-> None, hosts |-> {}, old |-> {}, toks |-> {},
         enrs |-> {}, new |-> None, dirty |-> FALSE]

Exists(h) == hst[h] \in HostStatus

EnrsOf(h) == {e \in Enr : HostOf[e] = h}

(* Every agent_tokens row of a host, revoked ones included.                *)
TokenRows(h) ==
  {t \in Token : tok[t].row \in {"live", "revoked"} /\ HostOf[tok[t].enr] = h}

LiveTokens(h) == {t \in TokenRows(h) : tok[t].row = "live"}

(* Mutant of RevokeLive: retire tokens by deleting their rows.             *)
DeleteLive(T) ==
  [t \in Token |-> IF t \in T /\ tok[t].row = "live" THEN NoTok ELSE tok[t]]

(* agent_tokens after revoking those of T that are still live.             *)
RevokeLive(T) ==
  [t \in Token |-> IF t \in T /\ tok[t].row = "live"
                   THEN [tok[t] EXCEPT !.row = "revoked"] ELSE tok[t]]

(* Mutant of EverEnrolled: a revoked token does not count.                 *)
HasAgent(h) == LiveTokens(h) # {}

(* hosts/removal.py was_ever_enrolled                                      *)
EverEnrolled(h) == TokenRows(h) # {}

-----------------------------------------------------------------------------
(* Locks, read off the open transactions.                                  *)

LockedEnrs(w) ==
  IF tx[w].pc \in {"claimed", "selected", "flushed"} THEN {tx[w].enr} ELSE {}

LockedToks(w) ==
  IF tx[w].pc \in {"flushed", "goodbyeEnrs"} THEN tx[w].toks ELSE {}

SharedHosts(w) == IF tx[w].pc = "flushed" THEN {HostOf[tx[w].enr]} ELSE {}

EnrFree(w, E) == \A v \in Worker \ {w} : LockedEnrs(v) \cap E = {}
TokFree(w, T) == \A v \in Worker \ {w} : LockedToks(v) \cap T = {}

(* The rows a DELETE of the hosts H cascades to are locked by nobody else. *)
CascadeFree(w, H) ==
  \A h \in H :
    /\ EnrFree(w, EnrsOf(h))
    /\ TokFree(w, TokenRows(h))
    /\ \A v \in Worker \ {w} : h \notin SharedHosts(v)

(* Mutant of Unmoved: no version_id_col.                                   *)
Unversioned(w) == TRUE

(* The version check of a flushed host UPDATE or DELETE.                   *)
Unmoved(w) == tx[w].old = {}

(* The open transactions after a commit that wrote the hosts H.            *)
Outdate(H) == [v \in Worker |-> [tx[v] EXCEPT !.old = @ \cup (H \cap tx[v].hosts)]]

Open(w, r)    == tx' = [tx EXCEPT ![w] = r]
Commit(w, H)  == tx' = [Outdate(H) EXCEPT ![w] = Idle]
Advance(w, p) == tx' = [tx EXCEPT ![w].pc = p]

(* Rolled back: an error raised by the handler or by the flush (a stale    *)
(* version, a foreign key), a deadlock victim, a dropped connection.       *)
Rollback(w) ==
  /\ tx[w].pc # "idle"
  /\ tx' = [tx EXCEPT ![w] = Idle]
  /\ UNCHANGED <<hst, beat, enr, tok>>

-----------------------------------------------------------------------------
(* Single-transaction operations that need no interleaving of their own:   *)
(* an insert, or one versioned read-modify-write of the host row, which    *)
(* commits only if nobody wrote the row in between.                        *)

(* hosts/service.py create_host *)
CreateHost(h, s) ==
  /\ hst[h] = "absent"
  /\ s \in {"provisioning", "active"}
  /\ hst' = [hst EXCEPT ![h] = s]
  /\ UNCHANGED <<beat, enr, tok, tx>>

(* agents/service.py create_enrollment: inserts a row, leaves the host's   *)
(* version alone.                                                          *)
CreateEnrollment(e) ==
  /\ enr[e].row = "absent"
  /\ Exists(HostOf[e])
  /\ enr' = [enr EXCEPT ![e].row = "open"]
  /\ UNCHANGED <<hst, beat, tok, tx>>

(* hosts/service.py update_host, the status change.                        *)
UpdateHost(h, s) ==
  /\ hst[h] \in {"provisioning", "active"}
  /\ s \in {"provisioning", "active"} \ {hst[h]}
  /\ hst' = [hst EXCEPT ![h] = s]
  /\ tx' = Outdate({h})
  /\ UNCHANGED <<beat, enr, tok>>

(* hosts/service.py decommission_host: credentials are left alone.         *)
DecommissionHost(h) ==
  /\ hst[h] \in {"provisioning", "active"}
  /\ hst' = [hst EXCEPT ![h] = "decommissioned"]
  /\ tx' = Outdate({h})
  /\ UNCHANGED <<beat, enr, tok>>

(* agents/service.py record_heartbeat, the running state.  The token was   *)
(* checked in an earlier transaction (core/deps.py current_actor) and may  *)
(* have been revoked since.                                                *)
Heartbeat(h) ==
  /\ Exists(h)
  /\ EverEnrolled(h)
  /\ beat' = [beat EXCEPT ![h] = TRUE]
  /\ tx' = Outdate({h})
  /\ UNCHANGED <<hst, enr, tok>>

(* The clock passes expires_at, then expires_at + grace.  Nothing reads    *)
(* the age of a used enrollment, so it stays as it was.                    *)
Age(e) ==
  /\ enr[e].row = "open"
  /\ ~enr[e].used
  /\ enr[e].age # "stale"
  /\ enr' = [enr EXCEPT ![e].age = IF @ = "valid" THEN "expired" ELSE "stale"]
  /\ UNCHANGED <<hst, beat, tok, tx>>

-----------------------------------------------------------------------------
(* agents/service.py consume_enrollment, with auth/service.py              *)
(* mint_agent_token.                                                       *)

(* SELECT the enrollment; refuse it if revoked, expired or used.           *)
ExchangeRead(w, e) ==
  /\ tx[w].pc = "idle"
  /\ enr[e].row = "open"
  /\ ~enr[e].revoked
  /\ enr[e].age = "valid"
  /\ ~enr[e].used
  /\ Open(w, [Idle EXCEPT !.pc = "read", !.enr = e])
  /\ UNCHANGED <<hst, beat, enr, tok>>

(* Mutant of Claimable: the WHERE clause names the row only.               *)
ClaimableById(e) == enr[e].row = "open"

(* WHERE id = e AND used_at IS NULL, on the row as committed.  revoked_at  *)
(* and expires_at are not looked at again.                                 *)
Claimable(e) == enr[e].row = "open" /\ ~enr[e].used

(* Mutant of ExchangeClaim: the claim is committed on its own.             *)
ExchangeClaimEagerly(w) ==
  /\ tx[w].pc = "read"
  /\ EnrFree(w, {tx[w].enr})
  /\ Claimable(tx[w].enr)
  /\ enr' = [enr EXCEPT ![tx[w].enr].used = TRUE]
  /\ Advance(w, "claimed")
  /\ UNCHANGED <<hst, beat, tok>>

(* Mutant of ExchangeClaim: a lost claim is tried again, not refused.      *)
ExchangeClaimRetrying(w) ==
  /\ tx[w].pc = "read"
  /\ EnrFree(w, {tx[w].enr})
  /\ Claimable(tx[w].enr)
  /\ Advance(w, "claimed")
  /\ UNCHANGED <<hst, beat, enr, tok>>

(* UPDATE .. SET used_at; no row updated means somebody else consumed it,  *)
(* or it went with its host, and the exchange is refused.                  *)
ExchangeClaim(w) ==
  /\ tx[w].pc = "read"
  /\ EnrFree(w, {tx[w].enr})
  /\ IF Claimable(tx[w].enr) THEN Advance(w, "claimed") ELSE Open(w, Idle)
  /\ UNCHANGED <<hst, beat, enr, tok>>

(* SELECT the host's tokens that are not revoked.                          *)
ExchangeSelect(w) ==
  /\ tx[w].pc = "claimed"
  /\ Open(w, [tx[w] EXCEPT !.pc = "selected",
                           !.toks = LiveTokens(HostOf[tx[w].enr])])
  /\ UNCHANGED <<hst, beat, enr, tok>>

(* Flushed by the SELECT of the host: revoke those tokens by primary key,  *)
(* insert the new one, which needs the host row, and read the host.        *)
ExchangeFlush(w, t) ==
  LET h == HostOf[tx[w].enr] IN
  /\ tx[w].pc = "selected"
  /\ Exists(h)
  /\ TokFree(w, tx[w].toks)
  /\ tok[t].row = "absent"
  /\ \A v \in Worker : tx[v].new # t
  /\ Open(w, [tx[w] EXCEPT !.pc = "flushed", !.new = t, !.hosts = {h},
                           !.dirty = (hst[h] = "provisioning")])
  /\ UNCHANGED <<hst, beat, enr, tok>>

(* Mutant of Minted: the token is not tied to its enrollment.              *)
MintedLoose(w) == [row |-> "live", enr |-> None, bumped |-> tx[w].dirty]

(* The token row an exchange inserts.                                      *)
Minted(w) == [row |-> "live", enr |-> tx[w].enr, bumped |-> tx[w].dirty]

(* Set a provisioning host active, and commit.  The host UPDATE carries    *)
(* the version that was read.                                              *)
ExchangeCommit(w) ==
  LET h    == HostOf[tx[w].enr]
      bump == tx[w].dirty
  IN
  /\ tx[w].pc = "flushed"
  /\ bump => Unmoved(w)
  /\ enr' = [enr EXCEPT ![tx[w].enr].used = TRUE]
  /\ tok' = [RevokeLive(tx[w].toks) EXCEPT ![tx[w].new] = Minted(w)]
  /\ hst' = IF bump THEN [hst EXCEPT ![h] = "active"] ELSE hst
  /\ Commit(w, IF bump THEN {h} ELSE {})
  /\ UNCHANGED beat

-----------------------------------------------------------------------------
(* agents/service.py revoke_enrollment: the check, then an UPDATE by       *)
(* primary key that no longer looks at used_at or revoked_at.              *)

RevokeRead(w, e) ==
  /\ tx[w].pc = "idle"
  /\ enr[e].row = "open"
  /\ ~enr[e].revoked
  /\ ~enr[e].used
  /\ Open(w, [Idle EXCEPT !.pc = "revoke", !.enr = e])
  /\ UNCHANGED <<hst, beat, enr, tok>>

RevokeCommit(w) ==
  /\ tx[w].pc = "revoke"
  /\ EnrFree(w, {tx[w].enr})
  /\ enr[tx[w].enr].row = "open"
  /\ enr' = [enr EXCEPT ![tx[w].enr].revoked = TRUE]
  /\ Commit(w, {})
  /\ UNCHANGED <<hst, beat, tok>>

-----------------------------------------------------------------------------
(* hosts/removal.py complete, run by an agent_removed goodbye.             *)

(* Read the host; start UPDATE agent_tokens WHERE revoked_at IS NULL.  The *)
(* statement's snapshot fixes which rows it will visit.  `dirty`: some     *)
(* agent column of the host row is set, so clearing it is a change; a host *)
(* that has heartbeated has one.                                           *)
GoodbyeRead(w, h, dirty) ==
  /\ tx[w].pc = "idle"
  /\ Exists(h)
  /\ EverEnrolled(h)
  /\ beat[h] => dirty
  /\ Open(w, [Idle EXCEPT !.pc = "goodbyeToks", !.hosts = {h},
                          !.toks = LiveTokens(h), !.dirty = dirty])
  /\ UNCHANGED <<hst, beat, enr, tok>>

(* Its rows are free: it revokes those not revoked meanwhile.  Then UPDATE *)
(* agent_enrollments takes its snapshot of the unused, unrevoked rows.     *)
GoodbyeTokens(w) ==
  /\ tx[w].pc = "goodbyeToks"
  /\ TokFree(w, tx[w].toks)
  /\ Open(w, [tx[w] EXCEPT
       !.pc = "goodbyeEnrs",
       !.enrs = {e \in Enr : /\ HostOf[e] \in tx[w].hosts
                             /\ enr[e].row = "open"
                             /\ ~enr[e].used
                             /\ ~enr[e].revoked}])
  /\ UNCHANGED <<hst, beat, enr, tok>>

(* The enrollment rows are free: revoke those still unused, clear the host *)
(* row and commit.  The host UPDATE is versioned, and not emitted when no  *)
(* column changes; the history row inserted needs the host to exist.       *)
GoodbyeCommit(w) ==
  LET revoked == {e \in tx[w].enrs : enr[e].row = "open" /\ ~enr[e].used}
      written == IF tx[w].dirty THEN tx[w].hosts ELSE {}
  IN
  /\ tx[w].pc = "goodbyeEnrs"
  /\ EnrFree(w, tx[w].enrs)
  /\ \A h \in tx[w].hosts : Exists(h)
  /\ tx[w].dirty => Unmoved(w)
  /\ tok' = RevokeLive(tx[w].toks)
  /\ enr' = [e \in Enr |-> IF e \in revoked
                           THEN [enr[e] EXCEPT !.revoked = TRUE] ELSE enr[e]]
  /\ beat' = [h \in Host |-> beat[h] /\ h \notin written]
  /\ Commit(w, written)
  /\ UNCHANGED hst

-----------------------------------------------------------------------------
(* hosts/removal.py delete_host_record and hosts/cleanup.py sweep.         *)

(* Mutant of DropEnrollments: no ON DELETE CASCADE.                        *)
KeepEnrollments(H) == enr

(* agent_enrollments after the cascade from hosts H.                       *)
DropEnrollments(H) ==
  [e \in Enr |-> IF HostOf[e] \in H /\ enr[e].row = "open"
                 THEN [enr[e] EXCEPT !.row = "gone"] ELSE enr[e]]

(* Deleting hosts H in one commit: each DELETE carries the version that    *)
(* was read, and cascades to enrollments and tokens.                       *)
DeleteHosts(w, H) ==
  /\ CascadeFree(w, H)
  /\ Unmoved(w)
  /\ \A h \in H : Exists(h)
  /\ hst' = [h \in Host |-> IF h \in H THEN "gone" ELSE hst[h]]
  /\ enr' = DropEnrollments(H)
  /\ tok' = [t \in Token |-> IF \E h \in H : t \in TokenRows(h)
                             THEN [tok[t] EXCEPT !.row = "gone"] ELSE tok[t]]
  /\ Commit(w, H)
  /\ UNCHANGED beat

(* An administrator: read the host and its token rows, refuse if any.      *)
DeleteRead(w, h) ==
  /\ tx[w].pc = "idle"
  /\ Exists(h)
  /\ ~EverEnrolled(h)
  /\ Open(w, [Idle EXCEPT !.pc = "delete", !.hosts = {h}])
  /\ UNCHANGED <<hst, beat, enr, tok>>

DeleteCommit(w) ==
  /\ tx[w].pc = "delete"
  /\ DeleteHosts(w, tx[w].hosts)

(* hosts/cleanup.py find_stale: one statement over all hosts.              *)
Stale(h) ==
  LET rows == {e \in EnrsOf(h) : enr[e].row = "open"} IN
  /\ Exists(h)
  /\ ~beat[h]
  /\ ~EverEnrolled(h)
  /\ rows # {}
  /\ \A e \in rows : ~enr[e].used /\ enr[e].age = "stale"

(* The background loop (main.py _stale_host_cleanup_loop) of a server      *)
(* process starts a sweep.                                                 *)
SweepRead(w) ==
  LET found == {h \in Host : Stale(h)} IN
  /\ tx[w].pc = "idle"
  /\ found # {}
  /\ Open(w, [Idle EXCEPT !.pc = "sweep", !.hosts = found])
  /\ UNCHANGED <<hst, beat, enr, tok>>

(* Every host is checked again for tokens before its delete; one that has  *)
(* any raises, and the whole sweep rolls back.                             *)
SweepCheck(w) ==
  /\ tx[w].pc = "sweep"
  /\ IF \E h \in tx[w].hosts : EverEnrolled(h)
     THEN Open(w, Idle)
     ELSE Advance(w, "sweepDelete")
  /\ UNCHANGED <<hst, beat, enr, tok>>

SweepCommit(w) ==
  /\ tx[w].pc = "sweepDelete"
  /\ DeleteHosts(w, tx[w].hosts)

-----------------------------------------------------------------------------
(* The statement worker w is at can only fail: a foreign key without its   *)
(* row, an UPDATE or DELETE by primary key that finds nothing, a version   *)
(* that moved.                                                             *)
Failed(w) ==
  LET lost == \E h \in tx[w].hosts : ~Exists(h)
      moved == ~Unmoved(w)
  IN CASE tx[w].pc = "selected"    -> ~Exists(HostOf[tx[w].enr])
       [] tx[w].pc = "flushed"     -> tx[w].dirty /\ moved
       [] tx[w].pc = "revoke"      -> enr[tx[w].enr].row # "open"
       [] tx[w].pc = "goodbyeEnrs" -> lost \/ (tx[w].dirty /\ moved)
       [] tx[w].pc \in {"delete", "sweepDelete"} -> lost \/ moved
       [] OTHER -> FALSE

(* Worker w waits for a row worker v has locked.                           *)
WaitsFor(w, v) ==
  /\ v # w
  /\ \/ /\ tx[w].pc \in {"read", "revoke"}
        /\ tx[w].enr \in LockedEnrs(v)
     \/ /\ tx[w].pc \in {"selected", "goodbyeToks"}
        /\ tx[w].toks \cap LockedToks(v) # {}
     \/ /\ tx[w].pc = "goodbyeEnrs"
        /\ tx[w].enrs \cap LockedEnrs(v) # {}

(* PostgreSQL's deadlock detector: w is one of a set of workers that wait  *)
(* for one another.                                                        *)
Deadlocked(w) ==
  \E D \in SUBSET Worker :
    /\ w \in D
    /\ \A x \in D : \E y, z \in D : WaitsFor(x, y) /\ WaitsFor(z, x)

ExchangeStep(w) ==
  \/ ExchangeClaim(w)
  \/ ExchangeSelect(w)
  \/ \E t \in Token : ExchangeFlush(w, t)
  \/ ExchangeCommit(w)

GoodbyeStep(w) == GoodbyeTokens(w) \/ GoodbyeCommit(w)

SweepStep(w) == SweepCheck(w) \/ SweepCommit(w)

Step(w) ==
  ExchangeStep(w) \/ RevokeCommit(w) \/ GoodbyeStep(w) \/ DeleteCommit(w) \/ SweepStep(w)

Begin(w) ==
  \/ \E e \in Enr : ExchangeRead(w, e) \/ RevokeRead(w, e)
  \/ \E h \in Host : DeleteRead(w, h) \/ \E d \in BOOLEAN : GoodbyeRead(w, h, d)
  \/ SweepRead(w)

HostStep(h) ==
  \/ \E s \in HostStatus : CreateHost(h, s) \/ UpdateHost(h, s)
  \/ DecommissionHost(h)
  \/ Heartbeat(h)

EnrStep(e) == CreateEnrollment(e) \/ Age(e)

Init ==
  /\ hst = [h \in Host |-> "absent"]
  /\ beat = [h \in Host |-> FALSE]
  /\ enr = [e \in Enr |-> NoEnr]
  /\ tok = [t \in Token |-> NoTok]
  /\ tx = [w \in Worker |-> Idle]

Next ==
  \/ \E h \in Host : HostStep(h)
  \/ \E e \in Enr : EnrStep(e)
  \/ \E w \in Worker : Begin(w) \/ Step(w) \/ Rollback(w)

Spec == Init /\ [][Next]_vars

(* A handler runs straight through its statements; row locks are granted   *)
(* in the order they are asked for, so a waiter is not overtaken for ever  *)
(* (strong fairness); a failing statement rolls back and the database      *)
(* breaks a deadlock.  Nobody is obliged to send a request, and no         *)
(* connection is obliged to drop.                                          *)
Fairness ==
  \A w \in Worker :
    /\ SF_vars(Step(w))
    /\ WF_vars((Failed(w) \/ Deadlocked(w)) /\ Rollback(w))

FairSpec == Spec /\ Fairness

-----------------------------------------------------------------------------
(* Type invariant: rows and open transactions have their shapes.           *)
Pc == {"idle", "read", "claimed", "selected", "flushed", "revoke", "goodbyeToks",
       "goodbyeEnrs", "delete", "sweep", "sweepDelete"}

EnrRow == [row: {"absent", "open", "gone"}, used: BOOLEAN, revoked: BOOLEAN,
           age: {"valid", "expired", "stale"}]

TokRow == [row: {"absent", "live", "revoked", "gone"}, enr: Enr \cup {None},
           bumped: BOOLEAN]

Tx == [pc: Pc, enr: Enr \cup {None}, hosts: SUBSET Host, old: SUBSET Host,
       toks: SUBSET Token, enrs: SUBSET Enr, new: Token \cup {None}, dirty: BOOLEAN]

TypeOK ==
  /\ hst \in [Host -> HostStatus \cup {"absent", "gone"}]
  /\ beat \in [Host -> BOOLEAN]
  /\ enr \in [Enr -> EnrRow]
  /\ tok \in [Token -> TokRow]
  /\ \A t \in Token : tok[t].row = "absent" <=> tok[t].enr = None
  /\ tx \in [Worker -> Tx]

(* An enrollment is exchanged at most once, whatever overlaps: two agent   *)
(* tokens never come from the same enrollment, committed or about to be    *)
(* (agents/service.py consume_enrollment, "Atomic against concurrent       *)
(* consumption").                                                          *)
SingleUse ==
  /\ \A t, u \in Token :
       tok[t].row # "absent" /\ tok[u].row # "absent" /\ tok[t].enr = tok[u].enr => t = u
  /\ \A w, v \in Worker :
       tx[w].pc = "flushed" /\ tx[v].pc = "flushed" /\ tx[w].enr = tx[v].enr => w = v

(* An enrollment is spent exactly when the token it bought is in the       *)
(* database: no crash, rollback or lost race burns a one-time secret for   *)
(* nothing, and no token exists that did not spend one.                    *)
SpentForAToken ==
  \A e \in Enr :
    enr[e].used <=> \E t \in Token : tok[t].row # "absent" /\ tok[t].enr = e

(* Credentials never outlive their host: a token or an open enrollment     *)
(* belongs to a host record that exists, even when the exchange or the     *)
(* creation overlapped the deletion of the host.                           *)
NoOrphanCredential ==
  /\ \A e \in Enr : enr[e].row = "open" => Exists(HostOf[e])
  /\ \A t \in Token : tok[t].row \in {"live", "revoked"} =>
       /\ enr[tok[t].enr].row = "open"
       /\ Exists(HostOf[tok[t].enr])

(* Decommissioning is final: no handler that read the host before it was   *)
(* decommissioned writes an earlier status back (consume_enrollment sets   *)
(* "active" from what it read; only the version check stands between).     *)
DecommissionIsFinal ==
  [][\A h \in Host : hst[h] = "decommissioned" => hst'[h] \in {"decommissioned", "gone"}]_vars

(* A record whose agent enrolled while it was provisioning is never hard-  *)
(* deleted, by an administrator or by the sweep, however the two overlap:  *)
(* the exchange wrote the host row, so the delete's version is old.        *)
ProvisionedHostSurvives ==
  [][\A h \in Host : Exists(h) /\ hst'[h] = "gone" =>
       \A t \in TokenRows(h) : ~tok[t].bumped]_vars

(* The statements implement the indivisible credential operations of       *)
(* Credentials: locks, snapshots and rollbacks are invisible there.        *)
MintedFor(e) == {t \in Token : tok[t].row # "absent" /\ tok[t].enr = e}

TheToken(T) == IF T = {} THEN None ELSE CHOOSE t \in T : TRUE

Abstract == INSTANCE Credentials WITH
  issued  <- {e \in Enr : enr[e].row # "absent"},
  dropped <- {e \in Enr : enr[e].row = "gone"},
  spent   <- [e \in Enr |-> TheToken(MintedFor(e))],
  live    <- {t \in Token : tok[t].row = "live"},
  retired <- {t \in Token : tok[t].row \in {"revoked", "gone"}}

ImplementsCredentials == Abstract!Spec

(* Every request ends: no chain of row locks, version conflicts and        *)
(* deadlock victims keeps a handler or the sweep waiting for ever.         *)
EveryRequestEnds ==
  \A w \in Worker : tx[w].pc # "idle" ~> tx[w].pc = "idle"
=============================================================================
