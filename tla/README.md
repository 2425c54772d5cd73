# sum_server: a verification development

`sum_server` is an asset-inventory server. Agents on machines enroll with a
one-time secret, then send heartbeats and inventory snapshots. Administrators
keep host records, users, teams and a tree of groups with inherited parameters,
and update the server itself and its agents. It is a FastAPI application: every
handler opens one PostgreSQL transaction (`core/db.py get_session` and
`session.begin()`), talks to it through SQLAlchemy's async session, and commits.
No isolation level is set, so transactions run at READ COMMITTED, and any number
of handlers, of several server processes, overlap at every `await`.

All paths below are relative to `src/src/sum_server/`.

## 1. Inventory of the system

| Component | State it keeps | Operations | Interacts with |
|---|---|---|---|
| Enrollments and agent tokens (`agents/service.py`, `auth/service.py`, `hosts/removal.py`, `hosts/cleanup.py`) | `agent_enrollments`, `agent_tokens`, `hosts.status` | create, exchange, revoke, list; mint a token; retire everything on removal; delete a record that never enrolled; sweep stale records | the host row, on its version counter and its foreign keys |
| Heartbeats and directives (`agents/routes.py`, `agents/service.py record_heartbeat`, `hosts/removal.py`, `updates/agent_update.py`, `updates/directive.py`, `hosts/presence.py`) | `hosts.last_heartbeat_at`, `reported_presence`, `boot_id`, `target_agent_version`, `agent_removal_requested_at` | heartbeats and goodbyes, set and clear an update target, request, cancel and complete a removal, derive presence | the agent, over an unreliable network; the binary cache; the change history |
| Agent binary cache (`updates/agent_binary.py`) | one directory per release: a `.part` file, the binary, a checksum sidecar | download once, serve if cached | directives, which name its checksum |
| Server self-update (`updates/system.py`, `updater/`) | `server_updates`; checkout, virtualenv, schema, running service; dump files | request, reap, launch, report; checkout, sync, migrate, restart, verify; roll back | every other component: it restarts the server and restores the database |
| Groups and parameters (`groups/`) | `groups` (a tree), `host_groups`, two parameter tables | create, rename, reparent, delete; join, leave; set and unset parameters; resolve; effective members | hosts, which they name |
| Facts, components, history (`hosts/facts.py`, `components/service.py`, `history/`) | `host_facts`, `components`, `host_changes`, `hosts.hostname` | ingest a snapshot, diff against what is stored, mark removed, append history | agents' inventory requests |
| Users, sessions (`users/`, `auth/service.py`) | `users`, `session_tokens` | create, update, delete (never the last administrator); login, logout, revoke all | teams and ownership |
| Teams and ownership (`teams/`, `hosts/service.py`) | `teams`, `team_memberships`, `host_owner_users`, `host_owner_teams` | create, delete, add, promote, remove members; give and take hosts | users, hosts |
| Release cache (`updates/service.py`, `updates/github.py`) | `available_releases` | periodic refresh | directives and the update form read it |
| Audit log (`core/audit.py`) | `audit_entries` | one insert inside the transaction of every write | everything |
| Web UI (`ui/`) | none of its own | forms over the services above | everything |
| Search and lists (`hosts/search.py`, `core/pagination.py`) | none; a cursor in the reader's hands | one page of users, teams, hosts or the audit log; hosts by filters | every table they read |
| Install script, signing | none | rendering, cryptography | |

### What is hard here

* *Transactions that read, decide and write.* Nothing locks what it reads. Each
  rule that spans two rows (one live token, no cycle, one last administrator, one
  live update) is a check followed by a write, and holds or not depending on what
  the write itself re-evaluates: the `WHERE` of an UPDATE, a unique or foreign key,
  or the version counter (`version_id_col`) of `hosts`, `users` and `teams`,
  which memberships, owners, sessions and components do not have.
* *Agents are remote.* A request is authenticated in one transaction and handled
  in the next; a heartbeat may be delayed, lost, or overtake a goodbye.
* *The updater outlives the server it updates*, and restores the very table it
  reports to; any of its commands may fail, hang or outlive its time limit.
* *A full replacement is not one write.* A snapshot of a host is dozens of SELECTs and
  flushes; two of one host see parts of one another.
* *A list is read over many requests*, while its rows come and go.
* *Files next to rows.* The binary cache renames files while a server may die or
  another request may be writing the same name.

What makes each component correct:

* credentials are single-use, one secret buys one token, none outlives its host,
  a decommissioned host stays so, a machine's record is not deleted under it;
* an update that reports success or rolled_back has done what it says, nothing
  changes without a dump, there is one updater, and no failure blocks updates
  for ever;
* the group tree stays a tree, membership and resolution are two views of one
  relation, the nearest group wins;
* directives do not contradict one another and a removed host is clean;
* a cached binary is the one its checksum describes;
* what a snapshot said is what is stored, a slot holds one component, and the last
  record of history is the present state;
* somebody can always administer the server, and each team;
* a deleted user's sessions end; a host does not lose its team unasked; the owners
  of a decommissioned host stay as they were;
* who reads a list page by page is given every row once.

`PROJECT.json` lists every hazard with its line and, where one exists, the property
that catches it.

## 2. Modules

| Module | What it is |
|---|---|
| `Credentials` | The abstract promise: enrollments are issued, exchanged once for a token in one indivisible step, or dropped; tokens are retired and do not come back. No host, transaction or lock in sight. |
| `EnrollmentTx` | The transactions of the enrollment component, statement by statement. |
| `EnrollmentTx_proofs` | Theorems about it for every value of the constants. |
| `MCEnrollmentTx` | Its instance for TLC: one host, two enrollments, two tokens, two workers. |
| `ServerUpdate` | Request handlers, the `server_updates` table and updater processes. |
| `ServerUpdate_proofs` | Theorems about it for any number of requests, releases and late commands. |
| `MCServerUpdate` | Its instance for TLC. |
| `Groups` | The tree of groups, memberships, parameters, resolution and the views of effective membership. |
| `Groups_proofs` | Theorems about it for any groups, hosts, names and requests. |
| `MCGroups` | Its instance for TLC: the global group and three more. |
| `HostLifecycle` | One host row between its agent and its administrators: heartbeats, goodbyes, reboots, update targets, removal. |
| `HostLifecycle_proofs` | Theorems about it for any number of boots, enrollments, releases and requests on their way. |
| `MCHostLifecycle` | Its instance for TLC. |
| `BinaryCache` | The files of one cached agent release and the requests that stage it. |
| `BinaryCache_proofs` | Theorems about it for any number of requests, uploads and chunks. |
| `MCBinaryCache` | Its instance for TLC. |
| `Accounts` | Users, administrators and sessions, requests between authentication, authority and deed. |
| `Accounts_proofs` | Theorems about it for any users, sessions and workers, and one about `Lists` for any rows and page size. |
| `MCAccounts` | Its instance for TLC. |
| `Teams` | Teams, members and the owners of hosts. |
| `Teams_proofs` | Theorems about it for any users, teams, hosts and workers. |
| `MCTeams` | Its instance for TLC. |
| `Inventory` | The snapshots of one host, one SELECT at a time, and its change history. |
| `Inventory_proofs` | Theorems about it for any serials, slots, facts, snapshots and workers. |
| `MCInventory` | Its instance for TLC. |
| `Lists` | One reader of a list that changes between its pages. |
| `MCLists` | Its instance for TLC. |

The modules share no variables. `EnrollmentTx` and `HostLifecycle` meet at removal
and enrollment: the first has every statement of both and of the host row only its
status and version, the second takes each as one step and has the columns they set
and clear. That a removal leaves no live token behind, whatever overlaps it, is the
first one's business; what a removal leaves on the row is the second one's. `Teams`
takes `delete_user` as one step, of which `Accounts` has every statement; both leave
out what the other has of a user.

### EnrollmentTx

A *worker* is one handler or the background sweep between `begin()` and commit;
`tx[w]` is its program counter, what it has read and what it has written and not
committed. Committed rows are `hst` (hosts.status), `beat` (whether
`last_heartbeat_at` is set), `enr` and `tok`. Locks are not variables: who holds
which row follows from where each worker is (`LockedEnrs`, `LockedToks`,
`SharedHosts`).

| Code | Actions |
|---|---|
| `agents/service.py consume_enrollment` with `auth/service.py mint_agent_token` | `ExchangeRead` (SELECT and the three refusals), `ExchangeClaim` (UPDATE re-evaluating `used_at IS NULL`), `ExchangeSelect` (live tokens), `ExchangeFlush` (revoke them, insert, read the host), `ExchangeCommit` |
| `agents/service.py revoke_enrollment` | `RevokeRead`, `RevokeCommit` |
| `hosts/removal.py complete` | `GoodbyeRead`, `GoodbyeTokens`, `GoodbyeCommit` |
| `hosts/removal.py delete_host_record` | `DeleteRead`, `DeleteCommit` |
| `hosts/cleanup.py find_stale`, `sweep` | `SweepRead`, `SweepCheck`, `SweepCommit` |
| `hosts/service.py create_host`, `update_host`, `decommission_host`; `agents/service.py create_enrollment`, `record_heartbeat` | one action each: an insert, or one versioned read-modify-write |
| errors, deadlock victims, lost connections | `Rollback` |

PostgreSQL and SQLAlchemy appear as the code relies on them: a SELECT sees
committed rows; an UPDATE or DELETE waits for a row somebody else has written and
then judges its `WHERE` on the row as committed; an insert of a token holds a
key-share lock on its host; a DELETE cascades; a flush of a host row carries the
version that was read. The version counter is abstracted to `tx[w].old`, the hosts
`w` has read that a commit has written since. `ExchangeFlush` reads the host in
the step that flushes, because the SELECT of the host is what triggers the flush.
A heartbeat requires that the host ever had a token, not a live one:
`core/deps.py current_actor` checked the token in an earlier transaction. A host
created through the wizard (`ui/`) is `CreateHost` followed by `CreateEnrollment`.

### ServerUpdate

A *run* `r` is one accepted request; its row, its handler `req[r]` and the updater
`upd[r]` that handler launches share the number, in `created_at` order. An updater
picks the newest queued row, which need not be its own. The installation is four
variables: the release checked out, synced, migrated to and running; `dump[u]`
holds the database an updater dumped, the `server_updates` rows included, because
`pg_restore --clean` brings those back too.

| Code | Actions |
|---|---|
| `updates/system.py request_server_update`, `_reap_if_abandoned` | `Request` (reads, decides), `Insert` (reaps and queues) |
| `launch_updater`, `fail_update_by_id` | `Launch`, `LaunchFails`, `FailRow` |
| `updater/__main__.py` | `Pick`, `Start` |
| `updater/status.py DbReporter.set` | `Report`, `ReportFails` |
| `updates/routes.py`, `ui/routes.py`: the handler, which may die between its commit and the launch | `Drop` |
| `updater/orchestrator.py run_update`, `_rollback` | `CheckTree`, `TakeDump`, `CommandDone`, `CommandFails` (with `StopsHalfway`), `Verify`, with `Following` for the order |
| `updater/shell.py _run` | `CommandTimesOut`, `OrphanDone`: the time limit stops the waiting, not the command |
| a dead process, systemd | `Crash`, `RestartServer` |
| time | `Overdue`: a row passes its abandonment limit |

`flaw` is a history variable. It names the unguarded windows a behaviour went
through: two requests that both read before either inserted (`race`), a run given
up for abandoned while a process could still act on it (`reaped`), a command that
outlived its limit (`timeout`) and, among those, a `pg_restore` that did (`late`).
`OneUpdater` holds of every behaviour without `race`, `reaped` and `late`; the
properties about verdicts and dumps hold of those without any of the four. Section 4
says what happens in the windows. A command that exits non-zero has done nothing, half
of its work or all of it: `uv sync` may leave a virtualenv of no release, `systemctl`
a service that is down, `pg_restore` missing tables or, past errors it ignores, all of
them; a checkout and a migration (one transaction) take effect whole or not at all. A
status write that fails leaves the row alone
(`ReportFails`): a commit that was applied but whose acknowledgement was lost is
not modelled.

### Groups

`groups`, `parent`, `name` are the `groups` table, `member` is `host_groups`,
`gparam` and `hparam` say who sets the one parameter key modelled; its value is
abstracted to where it was set, which is what inheritance decides. `req[w]` is an
`update_group` between its reads and its commit.

| Code | Definitions |
|---|---|
| `groups/resolution.py ancestor_chain`, `subtree_ids`, `depth_of` | `Chain` (`ChainIn` of the stored parents), `Subtree`, `Depth` |
| `resolve_parameters` | `Contributing`, `Before`, `Ordered` (the sort), `Effective` (the fold over it) |
| `groups/service.py list_effective_member_host_ids`, `effective_member_counts`, `effective_membership_sources` | `EffectiveMembers`, `EffectiveCount`, `Sources` |
| `hosts/search.py`, the filter by group | `Found` |
| `create_group`, `delete_group`, `add_member`, `remove_member`, `set_` and `unset_` parameters | one action each |
| `update_group` with `_is_descendant` | `UpdateLoad` (the group and its new name), `UpdateFind` (the new parent), `UpdateCheck` (all groups, with `MayAdopt`), `UpdateCommit`, `UpdateFails` |

`Chain` and `Subtree` are least closed sets and not recursions: the walks in the
code compute just these on a tree, and facts about least sets need no induction.
The handlers that are one action decide nothing that a unique or foreign key does
not enforce again at their commit; `update_group` is four, because nothing but its
own reads stands behind the check for a cycle. The session does not refresh a row it
holds: `list_groups` gives it the rows as they are by then, but the new parent with the
parent it had when it was loaded (`above`), and the chain that is checked may be one
that was never stored. The old parent of the moved group is held as well, and does not
matter: the walk stops there with a refusal.

### HostLifecycle

`host` holds the columns of the row that agents and directives touch, `facts`
whether facts or components exist, `token` the enrollment whose token is live.
`net` is the requests on their way: each is authenticated in one step and handled
in a later one, in any order, or lost. `machine` is the environment: boots,
crashes, an agent that starts, stops, updates itself and is uninstalled.

| Code | Actions |
|---|---|
| `core/deps.py current_actor`, `auth/service.py resolve_actor_from_token` | `Authenticate` |
| `agents/routes.py heartbeat`, `agents/service.py record_heartbeat` | `HandleRunning` (with `Unclean`, `Directive`, `TargetAfter`), `HandleStopping`, `HandleRemoved` |
| `hosts/removal.py complete` | `HandleRemoved` (with `Cleared`), `HandleRemovedBeside` |
| `agents/service.py ingest_full_inventory` | `HandleInventory` |
| `ui/routes.py`, `hosts/routes.py`, `updates/agent_update.py`, `hosts/removal.py` | `SetTarget`, `ClearTarget`, `RequestRemoval`, `CancelRemoval` |
| `hosts/presence.py derive_presence` | `Presence`: what it may answer as time passes |
| an exchanged enrollment | `Enroll` |
| the machine, its agent, the network | `SendHeartbeat`, `SendInventory`, `SendGoodbye`, `Uninstall`, `UpdateItself`, `StartAgent`, `GoDown`, `BootUp`, `Lose` |

A handler that decides on the host row also writes it, under its version counter,
so a decision on a stale row fails as a whole and the handler is one action (a
failed one is a `Lose`). Inventory does not write the row: it may insert what the DELETEs
of a removal do not see and commit before it, which is `HandleRemovedBeside`.
`rebooting` and `powered_off` are one word, `down`. The
agent is not in this repository: what it does is what the handlers, their schemas
and the removal documentation say it does. `tells` is whether it sends a `boot_id`
at all. History variables: `alarms` (the audits), `clean` (boots that ended in a
goodbye), `gone` (removed, and untouched by administrators since), `flaw` (what the
network and the handlers beside a removal or after it have done).

### BinaryCache

A file is named by the request that created it, because `os.replace` renames a file
under those who hold it open: `part` and `binary` say which file carries which name,
`fd[r]` which one `r` writes into, `content` what is in them. Content is a sequence
of chunks, each the number of the upload it came from, so that "the checksum
matches" is a fact about content.

| Code | Actions |
|---|---|
| `updates/agent_binary.py ensure_cached` up to the download | `Check`, `DownloadFails` |
| `_download` | `Open`, `Write`, one chunk at a time, `DownloadFails` |
| `_download`'s rename, the checksum, the sidecar | `Finish`, `FinishFails`; `FinishTears` when reading, unlinking or writing fails after the rename: no `await` in between, so one step |
| `ui/routes.py host_agent_update`, `agent_update.set_target` | `Stage` |
| `cached_binary_if_present` | `Present` |
| a dead process; a release republished | `Crash`, `CrashInFinish`, `Republish` |

`torn` says that the files are as a request left them that ended between the rename and
the checksum; the next download that ends well mends them.

### Accounts

A request has up to three transactions: it is authenticated (`core/deps.py`), its
authority is read, it is carried out. `tx[w]` says how far worker `w` is, the user it
is about, the sessions it has collected and whether what it decided on has changed
since (`stale`). A decision on the row that is written is one action, because `users`
carries a version counter; a count of administrators is about other rows, so counting
and committing are two.

| Code | Actions |
|---|---|
| `core/deps.py current_actor`, `require_admin` | `Authenticate`, `RequireAdmin` |
| `users/service.py create_user` | `CreateUser` |
| `users/routes.py`, `users/service.py update_user` | `UpdateUser` (with `MayUpdate`); clearing `is_admin` is `DemoteRead`, `DemoteCommit` |
| `delete_user`, `auth/service.py revoke_all_user_sessions` | `DeleteRead`, `DeleteSelect`, `DeleteCommit` |
| `auth/service.py login`, `logout`, `expires_at` | `LoginRead`, `LoginCommit`, `EndSession` |
| `main.py _bootstrap_admin` | `Init` |
| errors | `Rollback` |

Neither `current_actor` nor `require_admin` looks at `deleted_at`: a deleted
administrator with a live session is an administrator. That is why `SessionsEnd`
matters and why `Admins`, those the counts see, are fewer than those who can act.

### Teams

`team`, `role`, `host` and `owns` are the tables; `gone` the deleted users, whose
memberships and owner rows stay. A worker's `tx` holds what it may do (`org`,
`team`, `host`: the authority it was found to have) or what it is about to write.

| Code | Actions |
|---|---|
| `_require_admin_ui`, `_require_team_admin_or_org_admin`, `_require_owner_or_admin`, `_require_can_manage` | `AskOrg`, `AskTeam`, `AskHost` (with `MayManage`, `CanRead`) |
| `teams/service.py create_team`, `update_team`, `add_member` | one action each |
| `update_member_role` | `Promote`; `DemoteRead`, `DemoteCommit` |
| `remove_member`, `delete_team` | `RemoveRead`, `RemoveCommit`; `DeleteRead`, `DeleteCommit` |
| `hosts/service.py add_user_owner`, `add_team_owner`, `remove_user_owner`, `remove_team_owner` | `GiveRead`, `GiveCommit`; `TakeRead`, `TakeCommit` |
| `decommission_host`, `delete_host_record`, `delete_user` | `Decommission`, `DeleteHost`, `DeleteUser` |

Unique and foreign keys decide at a commit: `GiveCommit` asks again whether team and
host exist, a version counter makes `delete_team` fail after `update_team`
(`Done`'s second argument). Nothing asks again about the team's other admins, the
host's status or the team's hosts.

### Inventory

A worker is one `ingest_full_inventory`; an action is one SELECT with the flush
before it and the assignments after it. `comp` and `fact` are the rows, `said` and
`told` what the last record of `host_changes` says of each column and fact. `tx[w]`
holds the session: rows as loaded (`own`), columns changed and recorded (`dirty`,
`noted`), rows assigned, flushed and seen.

| Code | Actions |
|---|---|
| `ingest_full_inventory`, the SELECT of the host | `Begin` |
| `hosts/facts.py ingest_facts` | `SelectFacts`, `FlushFacts` (updates, inserts, deletions, the adopted hostname) |
| `components/service.py _find_slot_swap` and the swap | `Swap` (with `InSlot`) |
| `_find_by_identity`, the match or insertion, `diff_component` | `Update`, `Insert` (with `Rows`, `Observed`, `Diff`) |
| the rows not in the snapshot | `Finish` (with `Unseen`) |
| the end of the transaction; errors and deadlocks | `Commit`, `Rollback` |

What is of SQLAlchemy and PostgreSQL is in operators of its own (`Sees`, `Loaded`,
`Assign`, `CanFlush`, `Batched`, `Overtaken`): autoflush before a SELECT, an identity map that
does not refresh a loaded row, an UPDATE of the changed columns only, row locks. A
component without serial and slot has no identity; such rows are `Anon`. `host_facts`
has no version counter: UPDATEs of two or more facts that assign the same columns are
sent as one batch, for which the driver counts no rows, so one of a row that is gone
passes and its record is committed (`Batched`, `missed`); a single one is an error.
The last records of a row tell presence under three names, `add`, `present` and, for a
component that was swapped out, the deletion of its `serial`; the model keeps what they
say. An operator's renames of the host are left out, and so is its removal, which
deletes these tables while snapshots are under way: that overlap is in `HostLifecycle`.

### Lists

`ts` is `created_at`, `match` the rows that meet the list's conditions, `reader` one
client with its cursor. Rows appear with a time taken before their commit, so also
behind newer ones; they come to match and stop.

| Code | Definitions |
|---|---|
| `users/`, `teams/`, `hosts/service.py`, `audit/routes.py`, `ui/routes.py _audit_query` | `Newer` (the order), `After` (the condition on the cursor), `Page`, `More` |
| `core/pagination.py` | `CursorOf`; `ListInit` (no cursor) |
| the first request of a client, and those with a cursor | `FirstPage`, `NextPage` (with `Turn`) |
| `core/audit.py write_audit`, and inserts elsewhere | `Insert` |
| conditions of a list | `Show`, `Hide` |

`After` is where the code differs from how it reads. `(User.created_at, User.id) <
(cursor.ts, cursor.id)` has a Python tuple on either side. Python looks for the
first elements that are not equal, and the truth of `User.created_at == cursor.ts`
is SQLAlchemy's comparison of the identities of the two, which is false; so it
answers with `User.created_at < cursor.ts` alone, and that is the condition the
query gets. The id of the cursor is not used.

## 3. Runs

| Run | What it shows | Bounds |
|---|---|---|
| `enrollment` | `TypeOK`; `SingleUse`, `SpentForAToken`, `NoOrphanCredential`, `DecommissionIsFinal`, `ProvisionedHostSurvives`; that the statements implement `Credentials` | 1 host, 2 enrollments, 2 tokens, 2 workers, symmetric; about 530,000 states |
| `enrollment_ends` | `EveryRequestEnds` under fairness, deadlocks included | the same without symmetry, from a host that enrolled once (`LiveInit`) |
| `server_update` | `TypeOK`, `OneUpdater`, `VerdictIsReal`, `NoChangeWithoutDump`, `VerdictStands` | 3 requests, 2 releases, 1 command at a time outliving its limit, explored up to the first `race`, `reaped` or `late`; about 828,000 states |
| `server_update_unblocks` | `NeverWedged` under fairness of the clock | 1 request, 2 releases, 1 command at a time outliving its limit |
| `groups` | `TypeOK`, `MembershipMirrorsInheritance`, `ViewsAgree`, `NearestWins`, `TreeKept`, `ReparentIsLocal` | the global group and 3 more, 3 names, 1 host, 2 `update_group` in flight, symmetric; about 55,000 states |
| `lifecycle` | `TypeOK`, `RemovedIsClean`, `AlarmIsTrue`, `UncleanIsAudited` | 3 boots, 2 enrollments, 1 newer release, 2 requests on their way; about 1,600,000 states |
| `binary_cache` | `TypeOK`, `ServedMatches`, `StagedIsServed`, `FreshStart` | 3 requests, 2 uploads, 2 chunks, symmetric; about 146,000 states |
| `accounts` | `TypeOK`, `SessionsEnd`, `AdminKept` | 3 users (one the bootstrap administrator), 2 sessions, 2 requests, symmetric; about 56,000 states |
| `teams` | `TypeOK`, `TeamAdminKept`, `HostKeepsTeam`, `FrozenOwnership` | 3 users (one an org admin), 1 team, 1 host, 2 requests, symmetric; about 570,000 states |
| `inventory` | `TypeOK`, `HistoryTells`, `OnePerSlot`, `Settles` | 2 serials, 2 slots, 1 row without identity, 2 facts (one the hostname) of 2 values, 6 reports of 3 snapshots of up to 3 entries with no, one or both facts, 2 of them at once, symmetric; about 637,000 states |
| `lists` | `StablePages` | 5 rows, 3 times, pages of 2; about 1,540,000 states |
| `pages_skip` | violation of `AllGiven` | 3 rows, 2 times, pages of 1 |

**Why the bounds are enough.** Every conflict between transactions in
`EnrollmentTx` is between two workers over one host: two exchanges of one
enrollment, two exchanges of two enrollments of a host, or an exchange against a
removal, a revocation, a delete or a sweep. Two of each make all of these, and the
safety properties are proved for any number. Three runs of `ServerUpdate` are two
that overlap, or one that starts on what a dead or failed one left behind, and a
third that starts on what came of that; an update only moves to a larger release,
so two releases make one forward and one backward step possible from each state.

Three groups under the global one are the least that have a chain of three below it,
siblings of equal depth (where names decide) and two reparents that close a cycle;
hosts do not interact, so one is enough to be in several of them. The run stops
at the first cycle, of which nothing is promised, and `Explored` keeps apart what does
not meet: parameters are set while no `update_group` is in flight (it reads and writes
none), and two are in flight together only if neither renames (names are protected
by a unique index) and nobody is a member (a check reads no memberships). The other
request commits between any two reads of the first, and groups are created and deleted
between them, so chains that mix old and new rows are checked.

Three boots are the fewest in which a boot that ended cleanly is followed by one
that did not. A request can be overtaken as soon as two are on their way. `Explored`
ends with the first request handled beside a removal or after its token was revoked, of
which `RemovedIsClean` promises nothing; it lets requests be lost and overtaken in the
first boot only, because the properties about boots exclude both, and keeps
directives out of the last boot, because they do not meet.

Two requests race for a `.part` file and a third starts on what they left behind;
two chunks make a half-written file, two uploads a file of mixed content.

A rule that is checked and not enforced is lost between the check of one request and
the commit of another: two workers over one team or one host reach every such pair,
and the theorems are for any number. Three users are two who may take their rights
from each other while a third is created, promoted or deleted. The three snapshots of
`Inventory` move a component to another's slot, name two serials in two slots, and
name one slot twice next to a component without identity; any two of them overlap. Two
that have a fact in common never overlap at the components, since each waits for the
other's row, so `Report` sends some with no fact, some with one and some with both: two
facts are the fewest that are updated in one batch.

Five rows on pages of two are three pages, with a row to spare that is inserted
between them; three times leave one before, one at and one after a cursor's.

**Fairness.** `EnrollmentTx`: strong fairness of each worker's own next statement,
because a handler runs straight through and PostgreSQL grants a row lock in the
order it was asked for, so a waiter is not overtaken for ever; weak fairness of
rolling back when the statement at hand can only fail or the worker is part of a
deadlock, which the database detects. No request is obliged to arrive.
`ServerUpdate`: weak fairness of `Overdue` alone, which is the clock. No updater,
handler or command is obliged to proceed: `NeverWedged` is about what happens
when all of them are dead. The other modules state no liveness: no request, agent,
administrator or reader is obliged to act.

**Deadlock checking** is on in `groups`, and off elsewhere: with every record deleted, every
request spent, or every row read, the model rests.

## 4. Where the code and its documentation disagree

* `AllGiven`, shown violated by `pages_skip`. `core/pagination.py` says that cursors
  carry `(id, ts)` "so paging is stable across inserts". The comparison drops the id
  (see `Lists`): when the last row of a page and the next one have the same time,
  the next one is on no page. `StablePages` shows that nothing else goes wrong; with
  `After` comparing the ids as well, `AllGiven` holds in the same model.

These show in the models too, in windows which the properties exclude:

* `mint_agent_token` says it revokes "any prior active token for the host". Two
  exchanges of two enrollments of one host may each read the live tokens before the
  other inserts. On a provisioning host both write the host row and the version
  check stops the second; on a host already active neither does.
* `delete_host_record` is "only reachable for a host that was never enrolled". An
  exchange on a host created active does not write the host row, so it is invisible
  to the version check of a concurrent delete. For a host that was provisioning,
  `ProvisionedHostSurvives` holds.
* `run_update` says a rolled-back run is restored. `asyncio.wait_for` abandons a
  command after 1800 s without killing it, so a migration may finish after the
  restore (`timeout` in `flaw`). The restore is such a command itself: if
  `pg_restore --clean` finishes after its updater gave up (`late`), it puts back a
  `server_updates` table that forgets what was reported and queued since. Between the
  check of a request and its insert it takes the row that request would have collided
  with, and two updaters run.
* `subtree_ids` says "a cycle cannot be reached through the write paths". Two
  reparents that both look before either commits reach one; `TreeKept` shows that it takes
  a reparent which had loaded its new parent before another one committed.
* `host_changes` is the history of a host's facts. A snapshot that overlaps another one
  may record the edit or the deletion of a fact that is already gone, and the record
  stays the last of that fact (`missed`); `HistoryTells` shows that nothing else makes
  the history untrue.
* `complete` clears everything agent-derived. An inventory that commits while the removal
  runs is neither seen by its DELETEs nor in conflict with it (`HandleRemovedBeside`).
* `set_target` says "binary must already be cached", and `build_directive_for_host`
  that this "should have been done at request time". If the server died, or could not
  write, between the rename and the sidecar (`torn`), `ensure_cached` finds a good
  binary, returns, and the sidecar is never written: no heartbeat hands the release out
  and no request repairs it.
* `update_user` and `delete_user` refuse to lose the last administrator,
  `update_member_role` and `remove_member` the last admin of a team. Two requests that
  both count first lose both (`stale`); the properties show it takes that.
* `request_server_update` says a live run blocks a new one; two requests that both
  read first are both queued (the `race` of `ServerUpdate`).
* `agents/routes.py heartbeat` says the two directives "are never both set";
  `set_target` does not look at a pending removal (`SetTarget`), and only the order in
  the heartbeat keeps them apart.

## 5. Proofs

`EnrollmentTx_proofs` proves, for any sets of hosts, enrollments, tokens and
workers, everything the `enrollment` run checks: `TypeCorrect`, `ExchangedOnce`,
`SpentMeansMinted`, `CredentialsHaveHosts`, `DecommissionIsForGood`,
`ProvisionedSurvives` and `RefinesCredentials`.

Assumptions: `HostOfType` (an enrollment names one host, for good) and `NoneIsNew`
(the null value is not a host, enrollment or token). Both are evaluated by TLC in
the runs.

The invariant is

    IInv == TypeOK /\ ClaimInv /\ MintInv /\ SpentInv /\ NoOrphanCredential /\ ReadInv /\ DeleteInv

* `ClaimInv`: a worker past its claim holds an enrollment that is open, unspent and
  claimed by nobody else. It is what the row lock and the re-evaluated `WHERE` buy,
  and `SingleUse` is not inductive without it.
* `MintInv`: the token about to be inserted is new and belongs to one worker.
* `SpentInv`: spent enrollments and token rows correspond one to one.
* `ReadInv`: an exchange that will write `active` read `provisioning`, or its read
  is out of date and its commit will fail. `DecommissionIsFinal` follows.
* `DeleteInv`: a host about to be deleted has no token of an exchange that wrote its
  row, or the read is out of date. `ProvisionedHostSurvives` follows.

`InitIInv` and `StepIInv` establish it, with one lemma per action that commits and
one (`TxStepIInv`) for all actions that only advance a transaction. The refinement
maps an exchange's commit to `Exchange`, removals and deletes to `Retire`, an
insert to `Issue` and everything else to a stutter.

`Groups_proofs` proves everything the `groups` run checks: `TypeCorrect`,
`MirrorsInheritance`, `TreeStays` (`TreeKept`), `ReparentsAreLocal` (`ReparentIsLocal`),
`ViewsAlwaysAgree` (`ViewsAgree`) and `NearestGroupWins` (`NearestWins`), for any sets of
groups, hosts, names and requests, from `RootIsAGroup`, `NoneIsNothing`,
`NamesAreOrdered` and `KindsAreTold` (a host is not a group: `source_kind`). The
invariant is `GInv == TypeOK /\ ReqInv`; `ReqInv` says that what a reparent in flight
holds of its new parent is what is stored, and that its check, once made, still holds of
the tree as it is, or that another reparent has committed since.
`Mirror` carries the first of them: `a` is in `g`'s chain exactly when `g` is in `a`'s
subtree, because the complement of the one least set is closed under what generates
the other. `ReparentIsLocal` compares two trees, so its lemmas are about chains and
subtrees of any table of parents (`ChainIn` of the module, `SubtreeIn`, with `Mirror` again as
`MirrorIn`): `NoCycle`, a set of groups each of which has its parent in the set
contradicts the tree, so nothing is above its own parent; `StaysAbove`, a group
outside the moved subtree keeps what is above it. `ViewsAgree` needs one fact of the
tree, `RootAboveAll`: the global group is above every group, which puts the hosts
without a group into its view and into that of no other.

`NearestWins` is about the whole algorithm, sort and fold, for any number of groups.
`Rows`: there are finitely many groups, and no two have one name. `AboveIsLessDeep`: in
a tree what is above a group has a chain that is strictly smaller. So the sort key
orders the contributing groups totally, and `OrderedIs` shows that the sort has each
of them once, in that order: the number of those before a group is an injection into
as many places as there are groups, hence onto them. `FoldIs` says that the fold over
a sequence returns the last of it that sets the parameter. The induction theorems of the
library cannot be used for it; the lemma gives the solution of the recursion outright,
so the one the fold stands for exists, and takes the least prefix on which that one
were wrong (`WFMin`).

`HostLifecycle_proofs` proves everything the `lifecycle` run checks: `TypeCorrect`,
`RemovalSweepsAll` (`RemovedIsClean`), `AlarmsAreTrue` (`AlarmIsTrue`) and
`UncleanNeverMissed` (`UncleanIsAudited`), from `NoneIsNoVersion` and `BoundsAssumption`.
The first two rest on

    IInv == TypeOK /\ AgentHasToken /\ NoTokenLeft /\ NoTrace

`RemovedIsClean` is not inductive alone: that a handler which dirties the row is late
follows from `NoTokenLeft` (a removal leaves no live token until the next enrollment)
and from requests carrying a token at all, which is `AgentHasToken`. `NoTrace` says
of the row's columns what `RemovedIsClean` says of them and of the presence derived
from them; the last step unfolds `Presence`.

The alarms rest on an invariant about the requests on their way, in order:

    OrderInv == flaw = {} => InOrder /\ AlwaysTells /\ HeartbeatFirst
                             /\ LastWordInNet /\ LastWordInRow /\ AlarmsTrue /\ CleanSoFar

`InOrder`: boots on their way ascend, from the row's to the machine's.
`HeartbeatFirst`: the first word of each boot is that the agent runs, so a goodbye
finds its own boot in the row. `LastWordInNet` and `LastWordInRow`: the last word about
a boot, wherever it is at the moment, is a reboot or power-off exactly for a boot that
ended cleanly. When a heartbeat of a new boot is handled, the row holds the last word
about the boot before it, which decides both properties.

`BinaryCache_proofs` proves everything the `binary_cache` run checks: `TypeCorrect`,
`ServedIsVerified` (`ServedMatches`), `StagedStaysCached` (`StagedIsServed`) and
`LeftoversDoNoHarm` (`FreshStart`), from `NoneIsNoRequest` and `BoundsAssumption`. The
invariant is

    IInv == TypeOK /\ NamesInv /\ OneUpload /\ OneWriter /\ BinaryInv

`NamesInv`: the binary is never also the `.part` file, so who writes `.part` by name
does not touch it. `OneUpload` and `OneWriter` are the two cases in which a request
that still holds the renamed file cannot spoil it: it writes what is there already,
or there is no such request. `BinaryInv` is the conclusion, for the binary and its
sidecar together. `WrittenMatches` is the lemma the first case rests on. The other
two theorems add `AloneInv`, a download nobody overlaps is in `.part` and is all that
is there, whatever a dead request left in it; and `CachedInv`, who was told that the
release is cached finds it.

`ServerUpdate_proofs` proves everything the `server_update` run checks: `TypeCorrect`,
`OneUpdaterAtATime` (`OneUpdater`), `VerdictsAreReal` (`VerdictIsReal`),
`NothingWithoutADump` (`NoChangeWithoutDump`) and `VerdictsStand` (`VerdictStands`), for
any number of requests, releases and late commands, from `BoundsAssumption`. The
invariant is

    UpdateInv == TypeOK /\ Releases /\ Asking /\ Alone /\ Stages /\ Standing

* `Releases`: every record that names a release, in a row, a dump or a command, names
  one. `TypeOK` is not inductive without it, because rows come back from dumps.
* `Asking`: rows, also those in dumps and in commands left running, are of requests
  that have inserted them; requests come in the order of their numbers; who has read
  the table saw an earlier row. So an insert is always the newest.
* `Alone`: outside `race`, `reaped` and `late`, at most one run has a process that may
  act on it; it is the latest row and not finished, in the table and in the dump its
  updater holds; its updater picks it and no other, no request in flight takes it for
  the latest, and no `pg_restore` is left running. Each part was needed: a restore
  brings back the dumped table, so the dump must agree with it; a request inserts on
  what it read, so nobody may have read past the run that is acted on.
* `Stages`: outside every window, release, virtualenv, schema and service are what the
  stages behind the updater made them, forward and backward.
* `Standing`: the dump an updater holds gives every other row the status it has, and a
  run about to be reaped is not finished, or was failed meanwhile. `VerdictStands`
  follows.

`Alone` is where a window came to light that the exclusions of `OneUpdater` had to
name: it does not survive a `pg_restore` which outlives its limit (section 4). Apart
from that it survives every late command, and `OneUpdater` says so.
`NewestIs`, that `Newest` of a nonempty set of runs is in it and newest, is a descent on
the naturals (`WFMin` of the library).

`Accounts_proofs` proves `TypeCorrect`, `DeletionEndsSessions` (`SessionsEnd`) and
`LastAdminStays` (`AdminKept`), from `RootIsAUser` and `NoneIsNobody`. The invariant is

    IInv == TypeOK /\ OneDeleter /\ CountHolds /\ LoginHolds /\ SeenAll /\ SessionsEnd

`CountHolds`: whoever counted the other administrators still has another one, or is
marked, because another was lost since. `SeenAll`: a deletion has collected each live
session of its user but those of a login that straddles it. It needs `OneDeleter`,
which the version counter of the user's row gives.

The same module proves `PagesAreStable` (`StablePages`) about `Lists`, the pages of
users among them, from `RowsAreOrdered`, `LimitAssumption` and `MaxTimeAssumption`. The
invariant is

    ListInv == ListTypeOK /\ StablePages /\ Cursor

with two lemmas about a page of any finite set: rows left off it are no newer than
those on it (`RestIsOlder`), and rows no more than the limit are one page
(`LastPageIsAll`). Both count: a page is the rows with fewer than `Limit` newer ones.

`Teams_proofs` proves `TypeCorrect`, `LastTeamAdminStays` (`TeamAdminKept`),
`TeamKeepsItsHosts` (`HostKeepsTeam`) and `OwnershipIsFrozen` (`FrozenOwnership`), from
`OrgAdminsAreUsers` and `NoneIsNothing`. The invariant is

    IInv == TypeOK /\ \A w \in Worker : Member(tx[w]) /\ Deletion(tx[w]) /\ Change(tx[w])

Each part says of one kind of request that what it read of other rows (the team's
admins, the team's hosts, the host's status) is so still, or the request is marked.

`Inventory_proofs` proves everything the `inventory` run checks: `TypeCorrect`,
`HistoryIsTrue` (`HistoryTells`), `SlotsHoldOne` (`OnePerSlot`) and `SnapshotSettles`
(`Settles`), from `HostnameIsAKey`, `NoneIsNothing`, `SnapshotType` and `KindsDiffer`: an
identity says by which column it identifies, so no serial is a slot and no row without
identity has either. `HistoryTells` rests on

    IInv == TypeOK /\ HistoryTells /\ \A w \in Worker : Clean(tx[w]) /\ Backed(tx[w])

`Clean` says that a session records exactly the columns it changes, and changes only
rows it has loaded or made; `Backed`, that a row it holds is stored or wholly its own,
so an UPDATE of its changed columns and the records of them have the same effect on
the row and on its history. `missed` grows by the facts whose record has no effect.

What a whole snapshot leaves rests on an invariant over the entries done:

    SnapInv == IInv /\ \A w \in Worker : Fit(tx[w], comp) /\ UpToDate(tx[w], fact, name)

It says what the session sees, its own rows over the stored ones, while nobody else
has committed to the components since its first flush (`Whole`). `Progress`: the rows
seen are those of the entries done. `AsStored`: a column not written is as stored.
`SlotsDiffer`: no two serials seen share a slot. `Cleared`: after the swap the slot of the
entry at hand is free. `Covered`: in the end nothing is present that was not seen.
`Placed`: of a snapshot that names nothing twice, what was seen is where it says.
`UpToDate` is the like for facts and the hostname.

**Only model-checked.**

* `EveryRequestEnds` and `NeverWedged`: liveness under fairness is out of the prover's
  reach.
* `AllGiven`, which is false.

Every other property a run checks is a theorem.

## 6. Not modelled, and why

Token strings and hashing, audit rows, timestamps other than the thresholds and
orders the code compares with, the agent-token time to live (off by default), detail
texts, dump retention, the environment file of the updater, rendering: no property
here tells their values apart.

* *Release cache* (`updates/service.py`, `updates/github.py`): a periodic download
  into one row per component.
* *Install script, signing*: rendering and cryptography.
* *Users*: changes of names, e-mail addresses and passwords, and the bootstrap on a
  later start, which does nothing while a user has the configured e-mail address.
* *Search*: the filter by group is in `Groups`; the other filters build one query or
  drop rows from its result. The limit of 500 rows is put on the query, before the
  filters by presence and by parameter are applied in Python (`hosts/search.py:175`), so
  matches beyond it are not found.
* *Facts and components*: reading them and their history.

## 7. Plan

Done: all modules of section 2, with proofs of every safety property the runs check.
Left, in order:

1. `HostLifecycle`: that a requested removal and an update target end, under fairness
   of an agent that stays up and is heard. This is for TLC.
2. An abstract specification of the promise of `ServerUpdate` (one run at a time, each
   ending in one verdict), with `UpdateInv` as the invariant of its refinement.
3. The hazards listed without a property: two exchanges on a host already active, an
   exchange overlapping a revocation, the sweep that gives up at its first failure, a
   goodbye that is lost.
