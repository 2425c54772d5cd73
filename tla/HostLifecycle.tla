--------------------------- MODULE HostLifecycle ---------------------------
(***************************************************************************)
(* One host and its agent: heartbeats and goodbyes (agents/routes.py,      *)
(* agents/service.py), the update target (updates/agent_update.py), agent  *)
(* removal (hosts/removal.py) and inventory as far as removal clears it.   *)
(*                                                                         *)
(* A request is authenticated in one transaction (core/deps.py) and        *)
(* handled in the next.  Every handler that decides on the host row also   *)
(* writes it, under the row's version counter, so it is one action; a lost *)
(* race on the version is a failed request.  Only inventory does not write *)
(* the row: it may commit beside a removal (HandleRemovedBeside).          *)
(* Requests on the way may be lost and may overtake one another.           *)
(*                                                                         *)
(* The machine and its agent are external: what the server's handlers and  *)
(* their schemas say an agent does.  Boots are numbered; 0 is no boot_id.  *)
(***************************************************************************)
EXTENDS Integers, Sequences, SequencesExt

CONSTANTS Version,    \* releases an agent can be updated to; it starts older
          MaxBoot,    \* bound on boots of the machine
          MaxEnroll,  \* bound on enrollments
          MaxNet,     \* bound on requests on their way at once
          None

ASSUME NoneIsNoVersion == None \notin Version
ASSUME BoundsAssumption == MaxBoot \in Nat \ {0} /\ MaxEnroll \in Nat \ {0} /\ MaxNet \in Nat

VARIABLES host,     \* the host row
          facts,    \* facts or components of the host exist
          token,    \* the live agent token, by enrollment; 0 when there is none
          machine,  \* the machine and its agent
          net,      \* requests on their way, in the order they were sent
          enrolls,  \* enrollments so far
          alarms,   \* history: host.unclean_reboot audits, <<old boot, new boot>>
          clean,    \* history: boots whose last word was a reboot or power-off
          gone,     \* history: the agent said it was removed, and since then ..
          flaw      \* history: requests lost, overtaken, or handled beside the
                    \* removal of their agent or after it ("late")

row == <<host, facts, token>>
history == <<alarms, clean, gone, flaw>>
vars == <<row, machine, net, enrolls, history>>

Boot == 1..MaxBoot

(* Mutant of GoodbyePresence: the detail is stored as it is.               *)
GoodbyeAsIs == [down |-> "down", agent_stop |-> "agent_stop"]

(* _GOODBYE_DETAIL_TO_PRESENCE; "down" is rebooting or powered_off, which  *)
(* nothing here tells apart.                                               *)
GoodbyePresence == [down |-> "down", agent_stop |-> "stopped"]

Goodbye == DOMAIN GoodbyePresence

(* The columns of a new host row.                                          *)
NoHost == [beat |-> FALSE, reported |-> "none", boot |-> 0,
           target |-> None, removal |-> FALSE]

-----------------------------------------------------------------------------
(* The agent's side.                                                       *)

Up == machine.on /\ machine.agent \in {"starting", "running"}

(* A request as the agent sends it; boot_id is optional.                   *)
Msg(kind) == [kind |-> kind, boot |-> IF machine.tells THEN machine.boot ELSE 0,
              version |-> machine.version, token |-> machine.token, authed |-> FALSE]

Send(kind) == Len(net) < MaxNet /\ net' = Append(net, Msg(kind))

(* Its first word after a start is that it runs.                           *)
SendHeartbeat ==
  /\ Up
  /\ Send("running")
  /\ machine' = [machine EXCEPT !.agent = "running"]
  /\ clean' = clean \ {machine.boot}
  /\ UNCHANGED <<row, enrolls, alarms, gone, flaw>>

SendInventory ==
  /\ machine.on /\ machine.agent = "running"
  /\ Send("inventory")
  /\ UNCHANGED <<row, machine, enrolls, history>>

(* A shutdown that is called off is followed by another heartbeat.         *)
SendGoodbye(kind) ==
  /\ machine.on /\ machine.agent = "running"
  /\ Send(kind)
  /\ machine' = [machine EXCEPT !.agent = IF kind = "agent_stop" THEN "stopped" ELSE @]
  /\ clean' = IF kind = "down" THEN clean \cup {machine.boot} ELSE clean \ {machine.boot}
  /\ UNCHANGED <<row, enrolls, alarms, gone, flaw>>

(* On a removal directive, or by hand (uninstall.sh).                      *)
Uninstall ==
  /\ machine.on /\ machine.agent = "running"
  /\ Send("agent_removed")
  /\ machine' = [machine EXCEPT !.agent = "none", !.orders = None]
  /\ UNCHANGED <<row, enrolls, history>>

UpdateItself ==
  /\ Up
  /\ machine.orders \in Version
  /\ machine' = [machine EXCEPT !.version = machine.orders, !.orders = None,
                                !.agent = "starting"]
  /\ UNCHANGED <<row, net, enrolls, history>>

StartAgent ==
  /\ machine.on /\ machine.agent = "stopped"
  /\ machine' = [machine EXCEPT !.agent = "starting"]
  /\ UNCHANGED <<row, net, enrolls, history>>

GoDown ==
  /\ machine.on
  /\ machine' = [machine EXCEPT !.on = FALSE, !.orders = None]
  /\ UNCHANGED <<row, net, enrolls, history>>

BootUp ==
  /\ ~machine.on /\ machine.boot < MaxBoot
  /\ machine' = [machine EXCEPT !.on = TRUE, !.boot = @ + 1,
                   !.agent = IF @ = "none" THEN "none" ELSE "starting"]
  /\ UNCHANGED <<row, net, enrolls, history>>

-----------------------------------------------------------------------------
(* The way to a handler.                                                   *)

Lose(i) ==
  /\ net' = RemoveAt(net, i)
  /\ flaw' = flaw \cup {"lost"}
  /\ UNCHANGED <<row, machine, enrolls, alarms, clean, gone>>

(* resolve_actor_from_token; a revoked token is refused.                   *)
Authenticate(i) ==
  /\ ~net[i].authed
  /\ net[i].token = token
  /\ net' = [net EXCEPT ![i].authed = TRUE]
  /\ UNCHANGED <<row, machine, enrolls, history>>

(* Request i reaches its handler: before an earlier one, or after its      *)
(* token was revoked.                                                      *)
Handle(i) ==
  /\ net[i].authed
  /\ net' = RemoveAt(net, i)
  /\ flaw' = flaw \cup (IF i > 1 THEN {"overtaken"} ELSE {})
                  \cup (IF net[i].token # token THEN {"late"} ELSE {})

(* Mutant of Unclean: every new boot_id.                                   *)
UncleanAlways(m) == 0 \notin {m.boot, host.boot} /\ m.boot # host.boot

(* Mutant of Unclean: any goodbye explains a new boot_id.                  *)
UncleanIfSilent(m) == UncleanAlways(m) /\ host.reported = "none"

(* record_heartbeat: a new boot_id with no goodbye that explains it.       *)
Unclean(m) ==
  0 \notin {m.boot, host.boot} /\ m.boot # host.boot /\ host.reported # "down"

(* routes.heartbeat, build_directive_for_host: what the response asks for. *)
Directive(m) ==
  IF host.removal THEN "remove"
  ELSE IF host.target # None /\ m.version # host.target THEN host.target
  ELSE None

(* clear_target, "reached_target", unless a removal is pending.            *)
TargetAfter(m) ==
  IF ~host.removal /\ m.version = host.target THEN None ELSE host.target

(* heartbeat in state running.  The binary may not be served for this      *)
(* host's arch or not be cached; the response may be lost.                 *)
HandleRunning(i, heard) ==
  LET m == net[i] IN
  /\ m.kind = "running"
  /\ Handle(i)
  /\ alarms' = IF Unclean(m) THEN alarms \cup {<<host.boot, m.boot>>} ELSE alarms
  /\ host' = [host EXCEPT !.beat = TRUE, !.reported = "none", !.target = TargetAfter(m),
                          !.boot = IF m.boot = 0 THEN @ ELSE m.boot]
  /\ machine' = IF heard /\ Up /\ m.token = machine.token
                THEN [machine EXCEPT !.orders = Directive(m)] ELSE machine
  /\ UNCHANGED <<facts, token, enrolls, clean, gone>>

(* heartbeat in state stopping.                                            *)
HandleStopping(i) ==
  /\ net[i].kind \in Goodbye
  /\ Handle(i)
  /\ host' = [host EXCEPT !.beat = TRUE, !.reported = GoodbyePresence[net[i].kind]]
  /\ UNCHANGED <<facts, token, machine, enrolls, alarms, clean, gone>>

(* Mutant of Cleared: the boot_id is left behind.                          *)
ClearedButBoot(h) == [NoHost EXCEPT !.boot = h.boot]

(* complete: the columns of the host row that are agent-derived.           *)
Cleared(h) == NoHost

(* derive_presence: what the row may show as time passes, as long as the   *)
(* host is not decommissioned.                                             *)
Presence ==
  IF ~host.beat THEN {"pending"}
  ELSE CASE host.reported = "down" -> {"rebooting", "powered_off", "unreachable"}
         [] host.reported = "stopped" -> {"stopped"}
         [] OTHER -> {"online", "unreachable"}

(* removal.complete: whether or not anyone asked.                          *)
HandleRemoved(i) ==
  /\ net[i].kind = "agent_removed"
  /\ Handle(i)
  /\ host' = Cleared(host)
  /\ facts' = FALSE
  /\ token' = 0
  /\ gone' = "untouched"
  /\ UNCHANGED <<machine, enrolls, alarms, clean>>

(* The same while inventory j is handled: the DELETEs do not see its rows, *)
(* and it commits before the removal does.                                 *)
HandleRemovedBeside(i, j) ==
  /\ net[i].kind = "agent_removed" /\ net[j].kind = "inventory"
  /\ net[i].authed /\ net[j].authed
  /\ net' = RemoveAt(RemoveAt(net, i), IF j < i THEN j ELSE j - 1)
  /\ flaw' = flaw \cup {"late"}
  /\ host' = Cleared(host)
  /\ facts' = TRUE
  /\ token' = 0
  /\ gone' = "untouched"
  /\ UNCHANGED <<machine, enrolls, alarms, clean>>

(* ingest_full_inventory                                                   *)
HandleInventory(i) ==
  /\ net[i].kind = "inventory"
  /\ Handle(i)
  /\ facts' = TRUE
  /\ UNCHANGED <<host, token, machine, enrolls, alarms, clean, gone>>

-----------------------------------------------------------------------------
(* Administrators.                                                         *)

Touched == IF gone = "no" THEN "no" ELSE "touched"

Admin(h) ==
  /\ host' = h
  /\ gone' = Touched
  /\ UNCHANGED <<facts, token, machine, net, enrolls, alarms, clean, flaw>>

(* set_target: whatever else is pending.                                   *)
SetTarget(v) == Admin([host EXCEPT !.target = v])

(* host_agent_update_cancel, clear_target                                  *)
ClearTarget == host.target # None /\ Admin([host EXCEPT !.target = None])

(* removal.request drops a pending update.                                 *)
RequestRemoval ==
  /\ ~host.removal
  /\ Admin([host EXCEPT !.removal = TRUE, !.target = None])

CancelRemoval == host.removal /\ Admin([host EXCEPT !.removal = FALSE])

(* An enrollment is created, and exchanged by an agent just installed.     *)
Enroll ==
  /\ enrolls < MaxEnroll
  /\ machine.on
  /\ enrolls' = enrolls + 1
  /\ token' = enrolls + 1
  /\ machine' = [machine EXCEPT !.agent = "starting", !.token = enrolls + 1, !.orders = None]
  /\ gone' = "no"
  /\ UNCHANGED <<host, facts, net, alarms, clean, flaw>>

-----------------------------------------------------------------------------
Init ==
  /\ host = NoHost
  /\ facts = FALSE
  /\ token = 0
  /\ machine \in [on: {TRUE}, boot: {1}, tells: BOOLEAN, agent: {"none"}, version: {None},
                 token: {0}, orders: {None}]
  /\ net = <<>>
  /\ enrolls = 0
  /\ alarms = {}
  /\ clean = {}
  /\ gone = "no"
  /\ flaw = {}

AgentStep ==
  \/ SendHeartbeat \/ SendInventory \/ (\E k \in Goodbye : SendGoodbye(k))
  \/ Uninstall \/ UpdateItself \/ StartAgent \/ GoDown \/ BootUp

ServerStep(i) ==
  \/ Lose(i) \/ Authenticate(i)
  \/ \E heard \in BOOLEAN : HandleRunning(i, heard)
  \/ HandleStopping(i) \/ HandleRemoved(i) \/ HandleInventory(i)
  \/ \E j \in DOMAIN net : HandleRemovedBeside(i, j)

AdminStep ==
  \/ \E v \in Version : SetTarget(v)
  \/ ClearTarget \/ RequestRemoval \/ CancelRemoval \/ Enroll

Next == AgentStep \/ (\E i \in DOMAIN net : ServerStep(i)) \/ AdminStep

Spec == Init /\ [][Next]_vars

-----------------------------------------------------------------------------
(* Type invariant.                                                         *)
Request == [kind: {"running", "inventory", "agent_removed"} \cup Goodbye,
            boot: 0..MaxBoot, version: Version \cup {None}, token: 1..MaxEnroll, authed: BOOLEAN]

HostRow == [beat: BOOLEAN, reported: {"none", "down", "stopped"},
            boot: 0..MaxBoot, target: Version \cup {None}, removal: BOOLEAN]

Machine == [on: BOOLEAN, boot: Boot, tells: BOOLEAN,
            agent: {"none", "starting", "running", "stopped"},
            version: Version \cup {None}, token: 0..MaxEnroll,
            orders: Version \cup {None, "remove"}]

TypeOK ==
  /\ host \in HostRow
  /\ facts \in BOOLEAN
  /\ token \in {0, enrolls}
  /\ machine \in Machine /\ machine.token = enrolls
  /\ net \in Seq(Request) /\ Len(net) <= MaxNet
  /\ enrolls \in 0..MaxEnroll
  /\ alarms \subseteq Boot \X Boot
  /\ clean \subseteq Boot
  /\ gone \in {"no", "untouched", "touched"}
  /\ flaw \subseteq {"lost", "overtaken", "late"}

(* A removed agent leaves nothing behind: the host is pending again, with  *)
(* no goodbye, boot_id or inventory, and no directive nobody has asked for *)
(* since (hosts/removal.py complete), unless a request authenticated       *)
(* before the removal was handled beside it or after it.                   *)
RemovedIsClean ==
  gone # "no" /\ "late" \notin flaw =>
    /\ Presence = {"pending"} /\ host.reported = "none" /\ host.boot = 0 /\ ~facts
    /\ gone = "untouched" => host.target = None /\ ~host.removal

(* An audited host.unclean_reboot names a boot that did end, and without a *)
(* reboot or power-off goodbye (agents/service.py record_heartbeat), as    *)
(* long as requests arrive, in order.                                      *)
AlarmIsTrue ==
  flaw = {} => \A a \in alarms : a[1] \notin clean /\ a[1] < a[2] /\ a[2] <= machine.boot

(* And no such end goes unnoticed: when the stored boot_id moves on from a *)
(* boot that ended without a goodbye, it is audited.                       *)
UncleanIsAudited ==
  [][flaw' = {} /\ host.boot \in Boot \ clean /\ host'.boot \in Boot \ {host.boot} =>
       <<host.boot, host'.boot>> \in alarms']_vars

=============================================================================
