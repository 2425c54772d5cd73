---------------------------- MODULE ServerUpdate ----------------------------
(***************************************************************************)
(* The server's self-update: the handlers that queue a server_updates row  *)
(* and launch an updater (updates/system.py, updates/routes.py), and the   *)
(* updater process (updater/), which survives the restart it causes and    *)
(* rolls the release and the database back when a step fails.              *)
(*                                                                         *)
(* A run r is one accepted request: its row, the handler that inserts it   *)
(* and the updater that handler launches share the number r, in the order  *)
(* of created_at.  An updater picks the newest queued row, which need not  *)
(* be its own.  Time enters only through Overdue: no step of a handler or  *)
(* an updater has a deadline that is_abandoned could rely on.              *)
(***************************************************************************)
EXTENDS Integers, FiniteSets

CONSTANTS MaxRun,      \* bound on accepted requests
          MaxVersion,  \* releases are 1..MaxVersion, 1 is installed
          MaxOrphan    \* bound on commands outliving their time limit at once

ASSUME BoundsAssumption ==
  MaxRun \in Nat \ {0} /\ MaxVersion \in Nat \ {0} /\ MaxOrphan \in Nat

Run == 1..MaxRun
Version == 1..MaxVersion

VARIABLES row,      \* the server_updates table
          req,      \* request handlers
          upd,      \* updater processes
          dump,     \* each live updater's dump file: the database it holds
          code,     \* the release checked out in install_dir
          venv,     \* the release the virtualenv is synced to, 0 when to none
          schema,   \* the release the database is migrated to
          server,   \* the release the service runs, 0 when it is down
          intact,   \* no pg_restore has stopped half-way
          orphan,   \* commands still running after their updater gave up on them
          flaw      \* history: the unguarded windows this behaviour went through

vars == <<row, req, upd, dump, code, venv, schema, server, intact, orphan, flaw>>

release == <<code, venv, schema, server>>

-----------------------------------------------------------------------------
(* updates/models.py                                                       *)

Terminal == {"success", "rolled_back", "failed"}

(* The stages of an update: the status reported, then a command.           *)
Forward == {"checking_out", "syncing", "migrating", "restarting", "verifying"}

(* The rollback reports once and runs five commands.                       *)
Backward == {"rolling_back", "r_sync", "r_restore", "r_restart", "r_verify"}

Status == {"absent", "queued", "snapshotting", "rolling_back"} \cup Forward \cup Terminal

NoRow == [status |-> "absent", from |-> 0, to |-> 0, started |-> FALSE, overdue |-> FALSE]
NoReq == [pc |-> "none", to |-> 0, seen |-> 0, reap |-> FALSE]
NoUpd == [pc |-> "none", row |-> 0, from |-> 0, to |-> 0, old |-> 0, told |-> FALSE]
NoDump == [taken |-> FALSE, row |-> [r \in Run |-> NoRow], schema |-> 0]

ReqOver == [NoReq EXCEPT !.pc = "done"]
UpdOver == [NoUpd EXCEPT !.pc = "ended"]

Exists(r) == r # 0 /\ row[r].status # "absent"
Finished(r) == row[r].status \in Terminal

Newest(R) == CHOOSE r \in R : \A s \in R : s <= r

(* system.py latest_update; 0 when the table is empty.                     *)
Latest == IF \E r \in Run : Exists(r) THEN Newest({r \in Run : Exists(r)}) ELSE 0

Queued == {r \in Run : row[r].status = "queued"}

(* Mutant of Abandoned: only a run that started can be given up.           *)
AbandonedStarted(r) == ~Finished(r) /\ row[r].overdue /\ row[r].started

(* Mutant of Abandoned: a finished run can be reaped as well.              *)
AbandonedAnyway(r) == row[r].overdue

(* system.py is_abandoned.  `overdue`: more than ABANDONED_QUEUED_SECONDS  *)
(* since created_at, or ABANDONED_RUNNING_SECONDS since started_at.        *)
Abandoned(r) == ~Finished(r) /\ row[r].overdue

Live(u) == upd[u].pc \notin {"none", "ended"}

(* Some process may still act on run r.                                    *)
InUse(r) ==
  \/ \E u \in Run : Live(u) /\ (upd[u].pc = "boot" \/ upd[u].row = r)
  \/ \E q \in Run : req[q].pc \in {"inserted", "failing"}

(* The clock passes an abandonment limit.                                  *)
Overdue(r) ==
  /\ Exists(r)
  /\ ~Finished(r)
  /\ ~row[r].overdue
  /\ row' = [row EXCEPT ![r].overdue = TRUE]
  /\ UNCHANGED <<req, upd, dump, release, intact, orphan, flaw>>

-----------------------------------------------------------------------------
(* updates/routes.py start_server_update (and ui/routes.py                 *)
(* settings_update_server).                                                *)

(* Mutant of Blocking: a row being rolled back no longer counts.           *)
BlockingForward(r) ==
  Exists(r) /\ ~Finished(r) /\ ~Abandoned(r) /\ row[r].status # "rolling_back"

(* The latest row r stops a new request.                                   *)
Blocking(r) == Exists(r) /\ ~Finished(r) /\ ~Abandoned(r)

(* request_server_update: read the latest row, refuse if it is a live run. *)
(* Nothing is locked.                                                      *)
Request(r, v) ==
  LET last == Latest
      reap == Exists(last) /\ Abandoned(last)
  IN
  /\ intact
  /\ server # 0
  /\ req[r].pc = "none"
  /\ \A q \in Run : q < r => req[q].pc # "none"
  /\ v > server
  /\ ~Blocking(last)
  /\ req' = [req EXCEPT ![r] = [pc |-> "checked", to |-> v, seen |-> last, reap |-> reap]]
  /\ flaw' = IF reap /\ InUse(last) THEN flaw \cup {"reaped"} ELSE flaw
  /\ UNCHANGED <<row, upd, dump, release, intact, orphan>>

(* Flush and commit: _reap_if_abandoned marks the row it read failed,      *)
(* whatever has become of it since, and the new row is queued.             *)
Insert(r) ==
  LET new    == [status |-> "queued", from |-> server, to |-> req[r].to,
                 started |-> FALSE, overdue |-> FALSE]
      reaped == IF req[r].reap THEN [row EXCEPT ![req[r].seen].status = "failed"] ELSE row
  IN
  /\ intact
  /\ req[r].pc = "checked"
  /\ req[r].reap => Exists(req[r].seen)
  /\ row' = [reaped EXCEPT ![r] = new]
  /\ req' = [req EXCEPT ![r].pc = "inserted"]
  /\ flaw' = IF Latest # req[r].seen THEN flaw \cup {"race"} ELSE flaw
  /\ UNCHANGED <<upd, dump, release, intact, orphan>>

(* launch_updater: systemd-run starts the unit.                            *)
Launch(r) ==
  /\ req[r].pc = "inserted"
  /\ upd' = [upd EXCEPT ![r].pc = "boot"]
  /\ req' = [req EXCEPT ![r] = ReqOver]
  /\ UNCHANGED <<row, dump, release, intact, orphan, flaw>>

(* It fails: fail_update_by_id reads the row ...                           *)
LaunchFails(r) ==
  /\ intact
  /\ req[r].pc = "inserted"
  /\ req' = [req EXCEPT ![r] = IF Exists(r) /\ ~Finished(r)
                              THEN [@ EXCEPT !.pc = "failing"] ELSE ReqOver]
  /\ UNCHANGED <<row, upd, dump, release, intact, orphan, flaw>>

(* ... and writes it failed.                                               *)
FailRow(r) ==
  /\ intact
  /\ req[r].pc = "failing"
  /\ Exists(r)
  /\ row' = [row EXCEPT ![r].status = "failed"]
  /\ req' = [req EXCEPT ![r] = ReqOver]
  /\ UNCHANGED <<upd, dump, release, intact, orphan, flaw>>

(* A handler ends where it is: its client or the database went away.       *)
Drop(r) ==
  /\ req[r].pc \in {"checked", "inserted", "failing"}
  /\ req' = [req EXCEPT ![r] = ReqOver]
  /\ UNCHANGED <<row, upd, dump, release, intact, orphan, flaw>>

(* A restart of the service takes every handler in flight with it.         *)
HandlersOver == [r \in Run |-> IF req[r].pc = "none" THEN NoReq ELSE ReqOver]

(* systemd or an operator restarts the service: it runs what is checked    *)
(* out.                                                                    *)
RestartServer ==
  /\ server # code
  /\ server' = code
  /\ req' = HandlersOver
  /\ UNCHANGED <<row, upd, dump, code, venv, schema, intact, orphan, flaw>>

-----------------------------------------------------------------------------
(* updater/__main__.py _main                                               *)

Goto(u, p) == upd' = [upd EXCEPT ![u].pc = p, ![u].told = FALSE]

End(u) == upd' = [upd EXCEPT ![u] = UpdOver] /\ dump' = [dump EXCEPT ![u] = NoDump]

(* The newest queued row, read without claiming it.                        *)
Pick(u) ==
  LET r == Newest(Queued)
      picked == [NoUpd EXCEPT !.pc = "picked", !.row = r,
                              !.from = row[r].from, !.to = row[r].to]
  IN
  /\ intact
  /\ upd[u].pc = "boot"
  /\ upd' = [upd EXCEPT ![u] = IF Queued = {} THEN UpdOver ELSE picked]
  /\ UNCHANGED <<row, req, dump, release, intact, orphan, flaw>>

(* UPDATE .. SET started_at WHERE id = ..                                  *)
Start(u) ==
  LET r == upd[u].row IN
  /\ intact
  /\ upd[u].pc = "picked"
  /\ row' = IF Exists(r) THEN [row EXCEPT ![r].started = TRUE, ![r].overdue = FALSE] ELSE row
  /\ Goto(u, "check")
  /\ UNCHANGED <<req, dump, release, intact, orphan, flaw>>

-----------------------------------------------------------------------------
(* updater/orchestrator.py run_update and updater/status.py DbReporter     *)

(* DbReporter.set: an unconditional UPDATE by id.                          *)
Report(u) ==
  LET r == upd[u].row
      s == upd[u].pc
  IN
  /\ intact
  /\ ~upd[u].told
  /\ s \in Status \ {"absent", "queued"}
  /\ row' = IF Exists(r) THEN [row EXCEPT ![r].status = s] ELSE row
  /\ IF s \in Terminal
     THEN End(u)
     ELSE upd' = [upd EXCEPT ![u].told = TRUE] /\ UNCHANGED dump
  /\ UNCHANGED <<req, release, intact, orphan, flaw>>

(* A status that cannot be written.  run_update's try covers the stages    *)
(* and "success", _rollback's covers its outcome; elsewhere the updater    *)
(* dies, which is Crash.                                                   *)
ReportFails(u) ==
  /\ ~upd[u].told
  /\ \/ upd[u].pc \in Forward \cup {"success"} /\ Goto(u, "rolling_back")
     \/ upd[u].pc = "rolled_back" /\ Goto(u, "failed")
  /\ UNCHANGED <<row, req, dump, release, intact, orphan, flaw>>

(* Mutant of CheckTree: the commit to come back to is not remembered.      *)
CheckTreeOnly(u) ==
  /\ upd[u].pc = "check"
  /\ Goto(u, "failed") \/ Goto(u, "snapshotting")
  /\ UNCHANGED <<row, req, dump, release, intact, orphan, flaw>>

(* Refuse a dirty working tree; remember the commit to come back to.       *)
CheckTree(u) ==
  /\ upd[u].pc = "check"
  /\ \/ Goto(u, "failed")
     \/ upd' = [upd EXCEPT ![u].pc = "snapshotting", ![u].told = FALSE, ![u].old = code]
  /\ UNCHANGED <<row, req, dump, release, intact, orphan, flaw>>

(* Mutant of TakeDump: a failed pg_dump is ignored.                        *)
TakeDumpOrNot(u) ==
  /\ upd[u].pc = "snapshotting"
  /\ upd[u].told
  /\ \/ dump' = [dump EXCEPT ![u] = [taken |-> TRUE, row |-> row, schema |-> schema]]
     \/ UNCHANGED dump
  /\ Goto(u, "checking_out")
  /\ UNCHANGED <<row, req, release, intact, orphan, flaw>>

(* pg_dump; when it fails nothing has changed and the run just fails.      *)
TakeDump(u) ==
  /\ upd[u].pc = "snapshotting"
  /\ upd[u].told
  /\ \/ /\ intact
        /\ dump' = [dump EXCEPT ![u] = [taken |-> TRUE, row |-> row, schema |-> schema]]
        /\ Goto(u, "checking_out")
     \/ /\ Goto(u, "failed")
        /\ UNCHANGED dump
  /\ UNCHANGED <<row, req, release, intact, orphan, flaw>>

(* updater/shell.py: the command of each stage, with what it is told or    *)
(* finds in place when it starts.                                          *)
Command(u) ==
  LET p == upd[u].pc
      command(k, v) == [kind |-> k, ver |-> v, from |-> IF k = "restore" THEN dump[u] ELSE NoDump]
  IN
  CASE p = "checking_out" -> command("checkout", upd[u].to)
    [] p = "rolling_back" -> command("checkout", upd[u].old)
    [] p \in {"syncing", "r_sync"} -> command("sync", code)
    [] p = "migrating" -> command("migrate", code)
    [] p \in {"restarting", "r_restart"} -> command("restart", 0)
    [] p = "r_restore" -> command("restore", 0)

(* What it does.  The service comes up on what is checked out, or does not *)
(* come up.  pg_restore --clean puts back every table as dumped,           *)
(* server_updates included.                                                *)
Takes(c) ==
  \/ c.kind = "checkout" /\ code' = c.ver /\ UNCHANGED <<row, req, venv, schema, server>>
  \/ c.kind = "sync" /\ venv' = c.ver /\ UNCHANGED <<row, req, code, schema, server>>
  \/ c.kind = "migrate" /\ schema' = c.ver /\ UNCHANGED <<row, req, code, venv, server>>
  \/ /\ c.kind = "restart"
     /\ server' \in {code, 0}
     /\ req' = HandlersOver
     /\ UNCHANGED <<row, code, venv, schema>>
  \/ /\ c.kind = "restore"
     /\ row' = c.from.row
     /\ schema' = c.from.schema
     /\ UNCHANGED <<req, code, venv, server>>

(* Mutant of Following: the rollback does not sync the old release.        *)
FollowingUnsynced(p) ==
  [checking_out |-> "syncing", syncing |-> "migrating", migrating |-> "restarting",
   restarting |-> "verifying", rolling_back |-> "r_restore", r_sync |-> "r_restore",
   r_restore |-> "r_restart", r_restart |-> "r_verify"][p]

(* The stage after each stage that runs a command.                         *)
Following(p) ==
  [checking_out |-> "syncing", syncing |-> "migrating", migrating |-> "restarting",
   restarting |-> "verifying", rolling_back |-> "r_sync", r_sync |-> "r_restore",
   r_restore |-> "r_restart", r_restart |-> "r_verify"][p]

(* At the command of its stage.                                            *)
Running(u) ==
  \/ upd[u].told /\ upd[u].pc \in (Forward \ {"verifying"}) \cup {"rolling_back"}
  \/ upd[u].pc \in {"r_sync", "r_restore", "r_restart"}

GiveUp(u) == Goto(u, IF upd[u].pc \in Forward THEN "rolling_back" ELSE "failed")

CommandDone(u) ==
  /\ Running(u)
  /\ upd[u].pc \in {"migrating", "r_restore"} => intact
  /\ Takes(Command(u))
  /\ Goto(u, Following(upd[u].pc))
  /\ UNCHANGED <<dump, intact, orphan, flaw>>

(* What a command that stops half-way leaves: a virtualenv of no release,  *)
(* a service that is down, tables that are missing.  git checkout and      *)
(* alembic upgrade (one transaction) take effect as a whole.               *)
StopsHalfway(c) ==
  \/ c.kind = "sync" /\ venv' = 0 /\ UNCHANGED <<req, server, intact>>
  \/ c.kind = "restart" /\ server' = 0 /\ req' = HandlersOver /\ UNCHANGED <<venv, intact>>
  \/ c.kind = "restore" /\ intact' = FALSE /\ UNCHANGED <<req, venv, server>>

(* A command that exits non-zero has done nothing, half of its work or, as *)
(* pg_restore does after errors it goes past, all of it.                   *)
CommandFails(u) ==
  /\ Running(u)
  /\ GiveUp(u)
  /\ \/ UNCHANGED <<row, req, release, intact>>
     \/ StopsHalfway(Command(u)) /\ UNCHANGED <<row, code, schema>>
     \/ /\ upd[u].pc \in {"migrating", "r_restore"} => intact
        /\ Takes(Command(u)) /\ UNCHANGED intact
  /\ UNCHANGED <<dump, orphan, flaw>>

(* ShellRunner._run gives a command 1800 seconds and then stops waiting    *)
(* for it; the command itself is not killed ...                            *)
CommandTimesOut(u) ==
  /\ Running(u)
  /\ Cardinality(orphan) < MaxOrphan
  /\ orphan' = orphan \cup {Command(u)}
  /\ flaw' = flaw \cup {"timeout"} \cup (IF upd[u].pc = "r_restore" THEN {"late"} ELSE {})
  /\ GiveUp(u)
  /\ UNCHANGED <<row, req, dump, release, intact>>

(* ... and completes later.                                                *)
OrphanDone(c) ==
  /\ c \in orphan
  /\ c.kind \in {"migrate", "restore"} => intact
  /\ Takes(c)
  /\ orphan' = orphan \ {c}
  /\ UNCHANGED <<upd, dump, intact, flaw>>

(* shell.py wait_healthy: /readyz answers with the expected version.       *)
Healthy(v) == server = v

(* The health check; it may also time out on a healthy server.             *)
Verify(u) ==
  /\ \/ /\ upd[u].pc = "verifying" /\ upd[u].told
        /\ \/ Healthy(upd[u].to) /\ Goto(u, "success")
           \/ Goto(u, "rolling_back")
     \/ /\ upd[u].pc = "r_verify"
        /\ \/ Healthy(upd[u].from) /\ Goto(u, "rolled_back")
           \/ Goto(u, "failed")
  /\ UNCHANGED <<row, req, dump, release, intact, orphan, flaw>>

(* The process dies: killed, or an exception nothing catches (a status or  *)
(* dump path it cannot write, a git command before the first report).      *)
Crash(u) ==
  /\ Live(u)
  /\ End(u)
  /\ UNCHANGED <<row, req, release, intact, orphan, flaw>>

-----------------------------------------------------------------------------
Handler(r) ==
  \/ \E v \in Version : Request(r, v)
  \/ Insert(r) \/ Launch(r) \/ LaunchFails(r) \/ FailRow(r) \/ Drop(r)

Updater(u) ==
  \/ Pick(u) \/ Start(u) \/ Report(u) \/ ReportFails(u) \/ CheckTree(u) \/ TakeDump(u)
  \/ CommandDone(u) \/ CommandFails(u) \/ CommandTimesOut(u)
  \/ Verify(u) \/ Crash(u)

Init ==
  /\ row = [r \in Run |-> NoRow]
  /\ req = [r \in Run |-> NoReq]
  /\ upd = [u \in Run |-> NoUpd]
  /\ dump = [u \in Run |-> NoDump]
  /\ code = 1 /\ venv = 1 /\ schema = 1 /\ server = 1
  /\ intact = TRUE
  /\ orphan = {}
  /\ flaw = {}

Next ==
  \/ \E r \in Run : Handler(r) \/ Updater(r) \/ Overdue(r)
  \/ \E c \in orphan : OrphanDone(c)
  \/ RestartServer

Spec == Init /\ [][Next]_vars

(* Only the clock is sure to advance: handlers and updaters may die.       *)
FairSpec == Spec /\ \A r \in Run : WF_vars(Overdue(r))

-----------------------------------------------------------------------------
(* Type invariant: rows, processes and releases have their shapes; in      *)
(* particular the release checked out is always a release.                 *)
RowType == [status: Status, from: 0..MaxVersion, to: 0..MaxVersion,
            started: BOOLEAN, overdue: BOOLEAN]

DumpType == [taken: BOOLEAN, row: [Run -> RowType], schema: 0..MaxVersion]

ReqType == [pc: {"none", "checked", "inserted", "failing", "done"},
            to: 0..MaxVersion, seen: 0..MaxRun, reap: BOOLEAN]

UpdType == [pc: {"none", "boot", "picked", "check", "r_sync", "r_restore", "r_restart",
                 "r_verify", "ended"} \cup (Status \ {"absent", "queued"}),
            row: 0..MaxRun, from: 0..MaxVersion, to: 0..MaxVersion,
            old: 0..MaxVersion, told: BOOLEAN]

CommandType == [kind: {"checkout", "sync", "migrate", "restart", "restore"},
                ver: 0..MaxVersion, from: DumpType]

TypeOK ==
  /\ row \in [Run -> RowType]
  /\ req \in [Run -> ReqType]
  /\ upd \in [Run -> UpdType]
  /\ dump \in [Run -> DumpType]
  /\ code \in Version /\ schema \in Version
  /\ venv \in Version \cup {0} /\ server \in Version \cup {0}
  /\ intact \in BOOLEAN
  /\ orphan \subseteq CommandType
  /\ flaw \subseteq {"race", "reaped", "timeout", "late"}

(* Two updaters run at the same time only if two requests read the table   *)
(* before either inserted its row, a run was given up for abandoned while  *)
(* a process could still act on it, or a pg_restore outlived its time      *)
(* limit and put an old table back later.  In every other behaviour,       *)
(* crashes, failed launches, restarts, other late commands and restores of *)
(* the table included, the guard of request_server_update is enough.       *)
OneUpdater ==
  {"race", "reaped", "late"} \cap flaw = {} => \A u, v \in Run : Live(u) /\ Live(v) => u = v

(* The verdict of a run is true, whatever earlier runs left behind, as     *)
(* long as no command timed out, no two requests raced and no live run was *)
(* reaped (orchestrator.py run_update).  Success: the target release is    *)
(* checked out, synced, migrated to and running.  rolled_back ("restored   *)
(* to current_version"): the release it started from is checked out,       *)
(* synced and running, on the database schema that was dumped.             *)
VerdictIsReal ==
  [][\A u \in Run :
       flaw = {} /\ Report(u) =>
         /\ upd[u].pc = "success" =>
              code = upd[u].to /\ venv = upd[u].to /\ schema = upd[u].to /\ server = upd[u].to
         /\ upd[u].pc = "rolled_back" =>
              /\ code = upd[u].from /\ venv = upd[u].from /\ server = upd[u].from
              /\ schema = dump[u].schema]_vars

(* Nothing of the release changes unless a live updater holds a dump to go *)
(* back to ("nothing changed yet; safe to just fail"), as long as no       *)
(* command timed out, no requests raced and no live run was reaped.        *)
NoChangeWithoutDump ==
  [][flaw = {} /\ <<code, venv, schema>>' # <<code, venv, schema>> =>
       \E u \in Run : Live(u) /\ dump[u].taken]_vars

(* A finished run stays as it finished: neither reaping, a failed launch,  *)
(* a late report nor the restored table changes its verdict, under the     *)
(* same condition.                                                         *)
VerdictStands ==
  [][\A r \in Run : flaw = {} /\ Finished(r) => row'[r].status = row[r].status]_vars

(* No failure wedges the feature: a row that blocks new requests does so   *)
(* for a bounded time only, even if everything that served it is dead      *)
(* (ABANDONED_QUEUED_SECONDS, "one failed launch cannot wedge").           *)
NeverWedged == \A r \in Run : Blocking(r) ~> ~Blocking(r)
=============================================================================
