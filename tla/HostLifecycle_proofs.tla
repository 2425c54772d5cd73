----------------------- MODULE HostLifecycle_proofs -----------------------
(* Machine-checked proofs about HostLifecycle, for any number of boots,    *)
(* enrollments, releases and requests on their way.                        *)
EXTENDS HostLifecycle, TLAPS

(* Who runs has been given a token.                                        *)
AgentHasToken == machine.agent # "none" => machine.token # 0

(* A removal leaves no live token until the next enrollment.               *)
NoTokenLeft == gone # "no" => token = 0

(* RemovedIsClean with what it says of the presence in terms of the row.   *)
NoTrace ==
  gone # "no" /\ "late" \notin flaw =>
    /\ ~host.beat /\ host.reported = "none" /\ host.boot = 0 /\ ~facts
    /\ gone = "untouched" => host.target = None /\ ~host.removal

IInv == TypeOK /\ AgentHasToken /\ NoTokenLeft /\ NoTrace

-----------------------------------------------------------------------------
LEMMA RemoveAtSeq ==
  ASSUME NEW S, NEW s \in Seq(S), NEW i \in DOMAIN s
  PROVE  RemoveAt(s, i) \in Seq(S) /\ Len(RemoveAt(s, i)) < Len(s)
BY DEF RemoveAt

(* What the agent sends is a request.                                      *)
LEMMA MsgType ==
  ASSUME TypeOK, AgentHasToken, machine.agent # "none",
         NEW k \in {"running", "inventory", "agent_removed"} \cup Goodbye
  PROVE  Msg(k) \in Request
BY BoundsAssumption DEF TypeOK, AgentHasToken, Msg, Request, Machine, Boot

LEMMA SendType ==
  ASSUME TypeOK, AgentHasToken, machine.agent # "none",
         NEW k \in {"running", "inventory", "agent_removed"} \cup Goodbye, Send(k)
  PROVE  net' \in Seq(Request) /\ Len(net') <= MaxNet
<1>1. Msg(k) \in Request
  BY MsgType
<1>2. net \in Seq(Request)
  BY DEF TypeOK
<1> HIDE DEF Request
<1> QED
  BY <1>1, <1>2, BoundsAssumption DEF Send

LEMMA HandleType ==
  ASSUME TypeOK, NEW i \in DOMAIN net, Handle(i)
  PROVE  /\ net' \in Seq(Request) /\ Len(net') <= MaxNet
         /\ flaw' \subseteq {"lost", "overtaken", "late"}
         /\ flaw \subseteq flaw'
         /\ net[i] \in Request
<1> HIDE DEF Request
<1>1. net \in Seq(Request) /\ Len(net) <= MaxNet
  BY DEF TypeOK
<1>2. net' \in Seq(Request) /\ Len(net') < Len(net)
  BY <1>1, RemoveAtSeq DEF Handle
<1>3. Len(net') <= MaxNet
  BY <1>1, <1>2, BoundsAssumption
<1>4. flaw' \subseteq {"lost", "overtaken", "late"} /\ flaw \subseteq flaw'
  BY DEF TypeOK, Handle
<1> QED
  BY <1>1, <1>2, <1>3, <1>4

(* After a removal every request that reaches its handler is late.         *)
LEMMA LateAfterRemoval ==
  ASSUME IInv, NEW i \in DOMAIN net, Handle(i), gone # "no"
  PROVE  "late" \in flaw'
<1>1. net[i] \in Request
  BY HandleType DEF IInv
<1>2. net[i].token # 0 /\ token = 0
  BY <1>1, BoundsAssumption DEF IInv, NoTokenLeft, Request
<1> QED
  BY <1>2 DEF Handle

-----------------------------------------------------------------------------
LEMMA InitInv == Init => IInv
<1> SUFFICES ASSUME Init
             PROVE  IInv
  OBVIOUS
<1> USE BoundsAssumption DEF Init
<1>1. host \in HostRow
  BY DEF NoHost, HostRow
<1>2. machine \in Machine /\ machine.token = enrolls
  <2>1. 1 \in Boot /\ 0 \in 0..MaxEnroll
    BY DEF Boot
  <2> QED
    BY <2>1 DEF Machine
<1>3. net \in Seq(Request) /\ Len(net) <= MaxNet
  OBVIOUS
<1>4. token \in {0, enrolls} /\ enrolls \in 0..MaxEnroll
  OBVIOUS
<1>5. facts \in BOOLEAN /\ alarms \subseteq Boot \X Boot /\ clean \subseteq Boot
  OBVIOUS
<1>6. gone \in {"no", "untouched", "touched"} /\ flaw \subseteq {"lost", "overtaken", "late"}
  OBVIOUS
<1>7. TypeOK
  BY <1>1, <1>2, <1>3, <1>4, <1>5, <1>6 DEF TypeOK
<1> QED
  BY <1>7 DEF IInv, AgentHasToken, NoTokenLeft, NoTrace

(* The agent sends or changes its own state; the row is as it was.         *)
LEMMA AgentInv ==
  ASSUME IInv, AgentStep
  PROVE  IInv'
<1> USE BoundsAssumption, NoneIsNoVersion DEF IInv
<1>1. UNCHANGED <<row, enrolls, alarms, gone, flaw>>
  BY DEF AgentStep, SendHeartbeat, SendInventory, SendGoodbye, Uninstall, UpdateItself,
         StartAgent, GoDown, BootUp, history
<1>2. net' \in Seq(Request) /\ Len(net') <= MaxNet
  <2>1. CASE UNCHANGED net
    BY <2>1 DEF TypeOK
  <2>2. CASE SendHeartbeat
    BY <2>2, SendType DEF SendHeartbeat, Up
  <2>3. CASE SendInventory
    BY <2>3, SendType DEF SendInventory
  <2>4. CASE \E k \in Goodbye : SendGoodbye(k)
    BY <2>4, SendType DEF SendGoodbye
  <2>5. CASE Uninstall
    BY <2>5, SendType DEF Uninstall
  <2> QED
    BY <2>1, <2>2, <2>3, <2>4, <2>5
       DEF AgentStep, UpdateItself, StartAgent, GoDown, BootUp
<1>3. machine' \in Machine /\ machine'.token = enrolls' /\ AgentHasToken'
  <2> USE DEF TypeOK, AgentHasToken, Machine
  <2>1. CASE UNCHANGED machine
    BY <1>1, <2>1
  <2>2. CASE SendHeartbeat
    BY <1>1, <2>2 DEF SendHeartbeat, Up
  <2>3. CASE \E k \in Goodbye : SendGoodbye(k)
    BY <1>1, <2>3 DEF SendGoodbye
  <2>4. CASE Uninstall
    BY <1>1, <2>4 DEF Uninstall
  <2>5. CASE UpdateItself
    BY <1>1, <2>5 DEF UpdateItself, Up
  <2>6. CASE StartAgent
    BY <1>1, <2>6 DEF StartAgent
  <2>7. CASE GoDown
    BY <1>1, <2>7 DEF GoDown
  <2>8. CASE BootUp
    <3>1. machine.boot + 1 \in Boot
      BY <2>8 DEF BootUp, Boot
    <3> QED
      BY <1>1, <2>8, <3>1 DEF BootUp
  <2> QED
    BY <2>1, <2>2, <2>3, <2>4, <2>5, <2>6, <2>7, <2>8 DEF AgentStep, SendInventory
<1>4. clean' \subseteq Boot
  <2>1. machine.boot \in Boot /\ clean \subseteq Boot
    BY DEF TypeOK, Machine
  <2>2. clean' \subseteq clean \cup {machine.boot}
    BY DEF AgentStep, SendHeartbeat, SendInventory, SendGoodbye, Uninstall, UpdateItself,
           StartAgent, GoDown, BootUp, history
  <2> QED
    BY <2>1, <2>2
<1>5. TypeOK'
  BY <1>1, <1>2, <1>3, <1>4 DEF TypeOK, row
<1> QED
  BY <1>1, <1>3, <1>5 DEF NoTokenLeft, NoTrace, row

(* A request is lost, authenticated or handled.                            *)
LEMMA ServerInv ==
  ASSUME IInv, NEW i \in DOMAIN net, ServerStep(i)
  PROVE  IInv'
<1> USE BoundsAssumption, NoneIsNoVersion
<1>1. CASE Lose(i)
  <2>1. net' \in Seq(Request) /\ Len(net') <= MaxNet
    <3> HIDE DEF Request
    <3>1. net \in Seq(Request) /\ Len(net) <= MaxNet
      BY DEF IInv, TypeOK
    <3>2. net' \in Seq(Request) /\ Len(net') < Len(net)
      BY <1>1, <3>1, RemoveAtSeq DEF Lose
    <3> QED
      BY <3>1, <3>2
  <2>2. TypeOK'
    BY <1>1, <2>1 DEF Lose, IInv, TypeOK, row
  <2> QED
    BY <1>1, <2>2 DEF Lose, IInv, AgentHasToken, NoTokenLeft, NoTrace, row
<1>2. CASE Authenticate(i)
  <2>1. net' \in Seq(Request) /\ Len(net') <= MaxNet
    <3>1. net[i] \in Request /\ [net[i] EXCEPT !.authed = TRUE] \in Request
      <4>1. net[i] \in Request
        BY DEF IInv, TypeOK
      <4> QED
        BY <4>1 DEF Request
    <3> HIDE DEF Request
    <3>2. net' = [net EXCEPT ![i] = [net[i] EXCEPT !.authed = TRUE]]
      BY <1>2 DEF Authenticate
    <3> QED
      BY <3>1, <3>2 DEF IInv, TypeOK
  <2>2. TypeOK'
    BY <1>2, <2>1 DEF Authenticate, IInv, TypeOK, row, history
  <2> QED
    BY <1>2, <2>2 DEF Authenticate, IInv, AgentHasToken, NoTokenLeft, NoTrace, row, history
<1>3. CASE \E heard \in BOOLEAN : HandleRunning(i, heard)
  <2>1. PICK heard \in BOOLEAN : HandleRunning(i, heard)
    BY <1>3
  <2>2. Handle(i)
    BY <2>1 DEF HandleRunning
  <2>3. /\ net' \in Seq(Request) /\ Len(net') <= MaxNet
        /\ flaw' \subseteq {"lost", "overtaken", "late"}
        /\ net[i] \in Request
    BY <2>2, HandleType DEF IInv
  <2>4. machine' \in Machine /\ machine'.token = enrolls'
    BY <2>1 DEF HandleRunning, Directive, IInv, TypeOK, HostRow, Machine
  <2>5. host' \in HostRow
    BY <2>1, <2>3 DEF HandleRunning, TargetAfter, IInv, TypeOK, Request, HostRow
  <2>6. alarms' \subseteq Boot \X Boot
    <3>1. net[i].boot \in 0..MaxBoot /\ host.boot \in 0..MaxBoot
      BY <2>3 DEF IInv, TypeOK, Request, HostRow
    <3>2. Unclean(net[i]) => <<host.boot, net[i].boot>> \in Boot \X Boot
      BY <3>1 DEF Unclean, Boot
    <3> QED
      BY <2>1, <3>2 DEF HandleRunning, IInv, TypeOK
  <2>7. TypeOK'
    BY <2>1, <2>3, <2>4, <2>5, <2>6 DEF HandleRunning, IInv, TypeOK
  <2>8. AgentHasToken'
    BY <2>1 DEF HandleRunning, IInv, TypeOK, Machine, AgentHasToken
  <2>9. gone' = gone /\ token' = token
    BY <2>1 DEF HandleRunning
  <2> QED
    BY <2>2, <2>7, <2>8, <2>9, LateAfterRemoval DEF IInv, NoTokenLeft, NoTrace
<1>4. CASE HandleStopping(i)
  <2>1. Handle(i) /\ UNCHANGED <<facts, token, machine, enrolls, alarms, clean, gone>>
    BY <1>4 DEF HandleStopping
  <2>2. /\ net' \in Seq(Request) /\ Len(net') <= MaxNet
        /\ flaw' \subseteq {"lost", "overtaken", "late"}
    BY <2>1, HandleType DEF IInv
  <2>3. host' \in HostRow
    <3>1. GoodbyePresence[net[i].kind] \in {"down", "stopped"}
      BY <1>4 DEF HandleStopping, GoodbyePresence, Goodbye
    <3> QED
      BY <1>4, <3>1 DEF HandleStopping, IInv, TypeOK, HostRow
  <2>4. TypeOK'
    BY <2>1, <2>2, <2>3 DEF IInv, TypeOK
  <2> QED
    BY <2>1, <2>4, LateAfterRemoval DEF IInv, AgentHasToken, NoTokenLeft, NoTrace
<1>5. CASE HandleRemoved(i)
  <2>1. Handle(i)
    BY <1>5 DEF HandleRemoved
  <2>2. /\ net' \in Seq(Request) /\ Len(net') <= MaxNet
        /\ flaw' \subseteq {"lost", "overtaken", "late"}
    BY <2>1, HandleType DEF IInv
  <2>3. host' \in HostRow
    BY <1>5 DEF HandleRemoved, Cleared, NoHost, HostRow
  <2>4. TypeOK'
    BY <1>5, <2>2, <2>3 DEF HandleRemoved, IInv, TypeOK
  <2> QED
    BY <1>5, <2>4
       DEF HandleRemoved, Cleared, NoHost, IInv, AgentHasToken, NoTokenLeft, NoTrace
<1>6. CASE HandleInventory(i)
  <2>1. Handle(i) /\ facts' = TRUE
        /\ UNCHANGED <<host, token, machine, enrolls, alarms, clean, gone>>
    BY <1>6 DEF HandleInventory
  <2>2. /\ net' \in Seq(Request) /\ Len(net') <= MaxNet
        /\ flaw' \subseteq {"lost", "overtaken", "late"}
    BY <2>1, HandleType DEF IInv
  <2>3. TypeOK'
    BY <2>1, <2>2 DEF IInv, TypeOK
  <2> QED
    BY <2>1, <2>3, LateAfterRemoval DEF IInv, AgentHasToken, NoTokenLeft, NoTrace
<1>7. ASSUME NEW j \in DOMAIN net, HandleRemovedBeside(i, j)
      PROVE  IInv'
  <2>1. net' \in Seq(Request) /\ Len(net') <= MaxNet
    <3> HIDE DEF Request
    <3> DEFINE s == RemoveAt(net, i)
               k == IF j < i THEN j ELSE j - 1
    <3>1. net \in Seq(Request) /\ Len(net) <= MaxNet /\ net[i].kind # net[j].kind
      BY <1>7 DEF IInv, TypeOK, HandleRemovedBeside
    <3>2. s \in Seq(Request) /\ Len(s) = Len(net) - 1 /\ i \in 1..Len(net) /\ j \in 1..Len(net)
      BY <3>1 DEF RemoveAt
    <3>3. k \in DOMAIN s
      BY <3>1, <3>2
    <3>4. net' = RemoveAt(s, k)
      BY <1>7 DEF HandleRemovedBeside
    <3> HIDE DEF s, k
    <3>5. net' \in Seq(Request) /\ Len(net') < Len(s)
      BY <3>2, <3>3, <3>4, RemoveAtSeq
    <3> QED
      BY <3>1, <3>2, <3>5
  <2>2. host' \in HostRow
    BY <1>7 DEF HandleRemovedBeside, Cleared, NoHost, HostRow
  <2>3. TypeOK'
    BY <1>7, <2>1, <2>2 DEF HandleRemovedBeside, IInv, TypeOK
  <2> QED
    BY <1>7, <2>3 DEF HandleRemovedBeside, IInv, AgentHasToken, NoTokenLeft, NoTrace
<1> QED
  BY <1>1, <1>2, <1>3, <1>4, <1>5, <1>6, <1>7 DEF ServerStep

(* An administrator changes what is pending, or enrolls the host.          *)
LEMMA AdminInv ==
  ASSUME IInv, AdminStep
  PROVE  IInv'
<1> USE BoundsAssumption, NoneIsNoVersion
<1>1. CASE Enroll
  <2>1. machine' \in Machine /\ machine'.token = enrolls' /\ AgentHasToken'
    <3>1. enrolls + 1 \in 0..MaxEnroll /\ enrolls + 1 # 0
      BY <1>1 DEF Enroll, IInv, TypeOK
    <3>2. machine' = [machine EXCEPT !.agent = "starting", !.token = enrolls + 1,
                                     !.orders = None]
      BY <1>1 DEF Enroll
    <3>3. machine' \in Machine /\ machine'.token = enrolls + 1
      BY <3>1, <3>2 DEF IInv, TypeOK, Machine
    <3> QED
      BY <1>1, <3>1, <3>3 DEF Enroll, AgentHasToken
  <2>2. TypeOK'
    BY <1>1, <2>1 DEF Enroll, IInv, TypeOK
  <2> QED
    BY <1>1, <2>1, <2>2 DEF Enroll, IInv, TypeOK, AgentHasToken, NoTokenLeft, NoTrace
<1>2. CASE ~Enroll
  <2>1. /\ Admin(host') /\ host' \in HostRow
        /\ host'.beat = host.beat /\ host'.reported = host.reported /\ host'.boot = host.boot
    <3> USE DEF Admin, IInv, TypeOK, HostRow
    <3>1. CASE \E v \in Version : SetTarget(v)
      BY <3>1 DEF SetTarget
    <3>2. CASE ClearTarget
      BY <3>2 DEF ClearTarget
    <3>3. CASE RequestRemoval
      BY <3>3 DEF RequestRemoval
    <3>4. CASE CancelRemoval
      BY <3>4 DEF CancelRemoval
    <3> QED
      BY <1>2, <3>1, <3>2, <3>3, <3>4 DEF AdminStep
  <2>2. TypeOK'
    BY <2>1 DEF Admin, Touched, IInv, TypeOK, HostRow
  <2>3. NoTokenLeft' /\ AgentHasToken'
    BY <2>1 DEF Admin, Touched, IInv, NoTokenLeft, AgentHasToken
  <2>4. NoTrace'
    <3>1. gone' # "untouched" /\ facts' = facts /\ flaw' = flaw /\ (gone' # "no" => gone # "no")
      BY <2>1 DEF Admin, Touched, IInv, TypeOK
    <3> QED
      BY <2>1, <3>1 DEF IInv, NoTrace
  <2> QED
    BY <2>2, <2>3, <2>4 DEF IInv
<1> QED
  BY <1>1, <1>2

LEMMA NextInv == IInv /\ [Next]_vars => IInv'
<1>1. ASSUME IInv, UNCHANGED vars
      PROVE  IInv'
  BY <1>1 DEF vars, row, history, IInv, TypeOK, AgentHasToken, NoTokenLeft, NoTrace
<1> QED
  BY <1>1, AgentInv, ServerInv, AdminInv DEF Next

-----------------------------------------------------------------------------
(* Requests that arrive, and in order.                                     *)

(* The boot_id the agent sends.                                            *)
BootId == IF machine.tells THEN machine.boot ELSE 0

(* Requests that say how the machine is.                                   *)
Speaks(i) == net[i].kind \in {"running"} \cup Goodbye

(* What the row knows is no newer than what is on its way.                 *)
InOrder ==
  /\ host.boot <= BootId
  /\ \A i \in 1..Len(net) : host.boot <= net[i].boot /\ net[i].boot <= BootId
  /\ \A i, j \in 1..Len(net) : i <= j => net[i].boot <= net[j].boot

(* An agent that knows the boot_id always sends it.                        *)
AlwaysTells == machine.tells => \A i \in 1..Len(net) : net[i].boot # 0

(* Once n requests are handled the row's boot_id is b, or cleared.         *)
Introduced(n, b) ==
  \/ \E j \in 1..n : net[j].kind = "running" /\ net[j].boot = b
  \/ host.boot \in {0, b} /\ \A j \in 1..n : net[j].boot = b

(* In each boot the first word is that the agent runs.                     *)
HeartbeatFirst ==
  /\ machine.agent = "running" => Introduced(Len(net), BootId)
  /\ \A i \in 1..Len(net) : net[i].kind \in Goodbye => Introduced(i - 1, net[i].boot)

(* No later request says how the machine was in that boot.                 *)
SilentFrom(n, b) == \A i \in n..Len(net) : Speaks(i) => net[i].boot # b

(* The last word of a boot, on its way or in the row, is a reboot or       *)
(* power-off exactly for the clean ones.                                   *)
LastWordInNet ==
  \A i \in 1..Len(net) :
    Speaks(i) /\ net[i].boot # 0 /\ SilentFrom(i + 1, net[i].boot) =>
      (net[i].kind = "down" <=> net[i].boot \in clean)

LastWordInRow ==
  host.boot # 0 /\ SilentFrom(1, host.boot) => (host.reported = "down" <=> host.boot \in clean)

AlarmsTrue == \A a \in alarms : a[1] \notin clean /\ a[1] < a[2] /\ a[2] <= machine.boot

CleanSoFar == \A b \in clean : b <= machine.boot

Order ==
  /\ InOrder /\ AlwaysTells /\ HeartbeatFirst
  /\ LastWordInNet /\ LastWordInRow /\ AlarmsTrue /\ CleanSoFar

OrderInv == flaw = {} => Order

LEMMA OrderTypes ==
  ASSUME TypeOK
  PROVE  /\ Len(net) \in Nat
         /\ \A i \in 1..Len(net) : net[i].boot \in Nat
         /\ host.boot \in Nat /\ machine.boot \in Nat /\ machine.boot # 0
         /\ BootId \in {0, machine.boot} /\ (machine.tells <=> BootId # 0)
         /\ \A b \in clean : b \in Nat /\ b # 0
         /\ \A a \in alarms : a[1] \in Nat /\ a[2] \in Nat
<1>1. Len(net) \in Nat /\ \A i \in 1..Len(net) : net[i] \in Request
  <2> HIDE DEF Request
  <2> QED
    BY DEF TypeOK
<1>2. \A i \in 1..Len(net) : net[i].boot \in Nat
  BY <1>1, BoundsAssumption DEF Request
<1>3. host.boot \in Nat /\ machine.boot \in Nat /\ machine.boot # 0 /\ machine.tells \in BOOLEAN
  BY BoundsAssumption DEF TypeOK, HostRow, Machine, Boot
<1>4. BootId \in {0, machine.boot} /\ (machine.tells <=> BootId # 0)
  BY <1>3 DEF BootId
<1>5. /\ \A b \in clean : b \in Nat /\ b # 0
      /\ \A a \in alarms : a[1] \in Nat /\ a[2] \in Nat
  BY BoundsAssumption DEF TypeOK, Boot
<1> QED
  BY <1>1, <1>2, <1>3, <1>4, <1>5

LEMMA GoodbyeKinds == Goodbye = {"down", "agent_stop"}
BY DEF Goodbye, GoodbyePresence

(* A request joins the end of the queue.                                   *)
LEMMA SendOrder ==
  ASSUME TypeOK, Order, NEW k \in {"running", "inventory", "agent_removed"} \cup Goodbye,
         Send(k), UNCHANGED <<host, alarms>>,
         machine'.boot = machine.boot, machine'.tells = machine.tells,
         machine'.agent = "running" => machine.agent = "running" \/ k = "running",
         k \in Goodbye => machine.agent = "running",
         clean' = IF k = "down" THEN clean \cup {machine.boot}
                  ELSE IF k \in {"running"} \cup Goodbye THEN clean \ {machine.boot}
                  ELSE clean
  PROVE  Order'
<1> PICK n \in Nat : n = Len(net)
  BY OrderTypes
<1>1. /\ n \in Nat /\ Len(net') = n + 1
      /\ \A i \in 1..n : net'[i] = net[i]
      /\ net'[n + 1].kind = k /\ net'[n + 1].boot = BootId
  <2>1. net \in Seq(Request)
    BY DEF TypeOK
  <2>2. net' = Append(net, Msg(k)) /\ Msg(k).kind = k /\ Msg(k).boot = BootId
    BY DEF Send, Msg, BootId
  <2> HIDE DEF Request, Msg
  <2> QED
    BY <2>1, <2>2
<1>2. BootId' = BootId
  BY DEF BootId
<1>3. InOrder'
  BY <1>1, <1>2, OrderTypes DEF Order, InOrder
<1>4. AlwaysTells'
  BY <1>1, OrderTypes DEF Order, AlwaysTells
<1>5. HeartbeatFirst'
  <2> PICK c \in Nat : c = BootId
    BY OrderTypes
  <2>1. ASSUME NEW m \in 0..n, NEW b, Introduced(m, b)
        PROVE  Introduced(m, b)'
    BY <1>1, <2>1 DEF Introduced
  <2>2. k = "running" => Introduced(n + 1, c)'
    BY <1>1 DEF Introduced
  <2>3. ASSUME machine.agent = "running"
        PROVE  Introduced(n, c) /\ Introduced(n + 1, c)'
    <3>1. Introduced(n, c)
      BY <2>3 DEF Order, HeartbeatFirst
    <3>2. CASE \E j \in 1..n : net[j].kind = "running" /\ net[j].boot = c
      BY <1>1, <1>2, <3>1, <3>2 DEF Introduced
    <3>3. CASE host.boot \in {0, c} /\ \A j \in 1..n : net[j].boot = c
      <4>1. \A j \in 1..n + 1 : net'[j].boot = c
        BY <1>1, <3>3
      <4> QED
        BY <1>1, <1>2, <3>1, <3>3, <4>1 DEF Introduced
    <3> QED
      BY <3>1, <3>2, <3>3 DEF Introduced
  <2>4. \A i \in 1..n : net[i].kind \in Goodbye => Introduced(i - 1, net[i].boot)
    BY DEF Order, HeartbeatFirst
  <2>5. ASSUME NEW i \in 1..n + 1, net'[i].kind \in Goodbye
        PROVE  Introduced(i - 1, net[i].boot)'
    <3>1. CASE i = n + 1
      <4>1. Introduced(n, c)
        BY <1>1, <2>3, <2>5, <3>1
      <4>2. i - 1 = n /\ n \in 0..n /\ net'[i].boot = c
        BY <1>1, <3>1
      <4> QED
        BY <2>1, <4>1, <4>2
    <3>2. CASE i \in 1..n
      <4>1. Introduced(i - 1, net[i].boot) /\ i - 1 \in 0..n /\ net'[i] = net[i]
        BY <1>1, <2>4, <2>5, <3>2
      <4> QED
        BY <2>1, <4>1
    <3> QED
      BY <1>1, <3>1, <3>2
  <2>6. machine'.agent = "running" => Introduced(n + 1, c)'
    BY <2>2, <2>3
  <2> QED
    BY <1>1, <1>2, <2>5, <2>6 DEF HeartbeatFirst, Introduced
<1>6. LastWordInNet'
  BY <1>1, <1>2, OrderTypes, GoodbyeKinds
     DEF Order, LastWordInNet, SilentFrom, Speaks, InOrder
<1>7. LastWordInRow'
  BY <1>1, <1>2, OrderTypes, GoodbyeKinds
     DEF Order, LastWordInRow, SilentFrom, Speaks, InOrder
<1>8. AlarmsTrue' /\ CleanSoFar'
  BY OrderTypes DEF Order, AlarmsTrue, CleanSoFar
<1> QED
  BY <1>3, <1>4, <1>5, <1>6, <1>7, <1>8 DEF Order

(* A step that neither sends nor handles anything; a boot starts.          *)
LEMMA QuietOrder ==
  ASSUME TypeOK, Order, 
         Len(net') = Len(net),
         \A i \in 1..Len(net) : net'[i].kind = net[i].kind /\ net'[i].boot = net[i].boot,
         host'.boot = host.boot, host'.reported = host.reported,
         UNCHANGED <<alarms, clean>>,
         machine'.tells = machine.tells,
         machine'.boot = machine.boot \/ machine'.boot = machine.boot + 1,
         machine'.agent = "running" => machine.agent = "running" /\ machine'.boot = machine.boot
  PROVE  Order'
<1>1. BootId <= BootId' /\ BootId' \in Nat /\ (machine'.boot = machine.boot => BootId' = BootId)
  BY OrderTypes DEF BootId
<1>2. InOrder' /\ AlwaysTells'
  BY <1>1, OrderTypes DEF Order, InOrder, AlwaysTells
<1>3. HeartbeatFirst'
  <2> PICK n \in Nat : n = Len(net)
    BY OrderTypes
  <2>1. ASSUME NEW m \in 0..n, NEW b, Introduced(m, b)
        PROVE  Introduced(m, b)'
    BY <2>1 DEF Introduced
  <2>2. machine'.agent = "running" => Introduced(Len(net), BootId)'
    BY <1>1, <2>1 DEF Order, HeartbeatFirst, Introduced
  <2>3. \A i \in 1..n : net[i].kind \in Goodbye => Introduced(i - 1, net[i].boot)
    BY DEF Order, HeartbeatFirst
  <2>4. ASSUME NEW i \in 1..n, net'[i].kind \in Goodbye
        PROVE  Introduced(i - 1, net[i].boot)'
    BY <2>1, <2>3, <2>4 DEF Introduced
  <2> QED
    BY <2>2, <2>4 DEF HeartbeatFirst
<1>4. LastWordInNet' /\ LastWordInRow'
  <2> PICK n \in Nat : n = Len(net)
    BY OrderTypes
  <2>1. \A i \in 1..n : Speaks(i)' <=> Speaks(i)
    BY DEF Speaks
  <2>2. LastWordInNet'
    BY <2>1 DEF Order, LastWordInNet, SilentFrom
  <2>3. LastWordInRow'
    BY <2>1 DEF Order, LastWordInRow, SilentFrom
  <2> QED
    BY <2>2, <2>3
<1>5. AlarmsTrue' /\ CleanSoFar'
  BY OrderTypes DEF Order, AlarmsTrue, CleanSoFar
<1> QED
  BY <1>2, <1>3, <1>4, <1>5 DEF Order

LEMMA HeadRemoved ==
  ASSUME NEW S, NEW s \in Seq(S), Len(s) >= 1
  PROVE  /\ Len(RemoveAt(s, 1)) = Len(s) - 1
         /\ \A i \in 1..Len(s) - 1 : i + 1 \in 1..Len(s) /\ RemoveAt(s, 1)[i] = s[i + 1]
<1>0. Len(s) \in Nat
  OBVIOUS
<1> PICK n \in Nat : n = Len(s)
  BY <1>0
<1> DEFINE rest == SubSeq(s, 2, n)
<1>1. rest \in Seq(S) /\ Len(rest) = n - 1 /\ \A i \in 1..n - 1 : rest[i] = s[i + 1]
  OBVIOUS
<1>2. SubSeq(s, 1, 0) = <<>> /\ RemoveAt(s, 1) = SubSeq(s, 1, 0) \o rest
  BY DEF RemoveAt
<1> HIDE DEF rest
<1>3. RemoveAt(s, 1) = rest
  BY <1>1, <1>2
<1> QED
  BY <1>1, <1>3

(* What the row says after request m, the first, is handled.               *)
Heard(m) ==
  \/ /\ m.kind = "running" /\ host'.reported = "none"
     /\ host'.boot = IF m.boot = 0 THEN host.boot ELSE m.boot
     /\ alarms' = IF Unclean(m) THEN alarms \cup {<<host.boot, m.boot>>} ELSE alarms
  \/ /\ m.kind \in Goodbye /\ host'.boot = host.boot /\ alarms' = alarms
     /\ host'.reported = "down" <=> m.kind = "down"
  \/ m.kind = "agent_removed" /\ host'.boot = 0 /\ alarms' = alarms
  \/ /\ m.kind = "inventory" /\ alarms' = alarms
     /\ host'.boot = host.boot /\ host'.reported = host.reported

LEMMA HandleOrder ==
  ASSUME TypeOK, Order, 1 \in DOMAIN net, net' = RemoveAt(net, 1), Heard(net[1]),
         host'.boot \in Nat, UNCHANGED clean,
         machine'.boot = machine.boot, machine'.tells = machine.tells,
         machine'.agent = machine.agent
  PROVE  Order'
<1> PICK n \in Nat : n = Len(net)
  BY OrderTypes
<1> DEFINE m == net[1]
<1>1. /\ 1 <= n /\ Len(net') = n - 1
      /\ \A i \in 1..n - 1 : i + 1 \in 1..n /\ net'[i] = net[i + 1]
  <2> HIDE DEF Request
  <2>1. net \in Seq(Request) /\ Len(net) >= 1
    BY DEF TypeOK
  <2>2. /\ Len(RemoveAt(net, 1)) = Len(net) - 1
        /\ \A i \in 1..Len(net) - 1 : i + 1 \in 1..Len(net) /\ RemoveAt(net, 1)[i] = net[i + 1]
    BY <2>1, HeadRemoved, Zenon
  <2> QED
    BY <2>2
<1>2. BootId' = BootId
  BY DEF BootId
<1>3. /\ m.boot \in Nat /\ host.boot <= m.boot /\ m.boot <= BootId
      /\ \A i \in 1..n : m.boot <= net[i].boot /\ net[i].boot \in Nat
      /\ \A i \in 1..n : net[i].boot <= BootId
      /\ host.boot \in Nat /\ BootId \in Nat
  BY <1>1, OrderTypes DEF Order, InOrder
<1>4. host'.boot \in {0, host.boot, m.boot} /\ host'.boot <= m.boot
  BY <1>3 DEF Heard
<1>5. m.kind \in Goodbye => host.boot \in {0, m.boot}
  BY <1>1 DEF Order, HeartbeatFirst, Introduced
<1>6. InOrder'
  <2>1. \A i, j \in 1..n : i <= j => net[i].boot <= net[j].boot
    BY DEF Order, InOrder
  <2>2. \A i, j \in 1..n - 1 : i <= j => net'[i].boot <= net'[j].boot
    BY <1>1, <2>1
  <2>3. \A i \in 1..n - 1 : host'.boot <= net'[i].boot /\ net'[i].boot <= BootId
    BY <1>1, <1>3, <1>4
  <2> QED
    BY <1>1, <1>2, <1>3, <1>4, <2>2, <2>3 DEF InOrder
<1>7. AlwaysTells'
  BY <1>1 DEF Order, AlwaysTells
<1>8. ASSUME NEW k \in 1..n, NEW b \in Nat, Introduced(k, b), \A j \in 1..k : net[j].boot <= b
      PROVE  Introduced(k - 1, b)'
  <2>1. CASE \E j \in 2..k : net[j].kind = "running" /\ net[j].boot = b
    <3>1. PICK j \in 2..k : net[j].kind = "running" /\ net[j].boot = b
      BY <2>1
    <3>2. j - 1 \in 1..k - 1 /\ net'[j - 1] = net[j]
      BY <1>1
    <3> QED
      BY <3>1, <3>2 DEF Introduced
  <2>2. ASSUME host'.boot \in {0, b}, \A j \in 2..k : net[j].boot = b
        PROVE  Introduced(k - 1, b)'
    <3>1. \A j \in 1..k - 1 : j + 1 \in 2..k /\ net'[j] = net[j + 1]
      BY <1>1
    <3> QED
      BY <2>2, <3>1 DEF Introduced
  <2>3. CASE m.kind = "running" /\ m.boot = b
    <3>1. \A j \in 2..k : net[j].boot = b
      BY <1>3, <1>8, <2>3
    <3>2. host'.boot \in {0, b}
      BY <1>3, <2>3, GoodbyeKinds DEF Heard
    <3> QED
      BY <2>2, <3>1, <3>2
  <2>4. CASE host.boot \in {0, b} /\ \A j \in 1..k : net[j].boot = b
    <3>1. host'.boot \in {0, b}
      BY <1>4, <2>4
    <3> QED
      BY <2>2, <2>4, <3>1
  <2>5. \A j \in 1..k : j = 1 \/ j \in 2..k
    OBVIOUS
  <2> QED
    BY <1>8, <2>1, <2>3, <2>4, <2>5 DEF Introduced
<1>9. HeartbeatFirst'
  <2>1. ASSUME machine'.agent = "running"
        PROVE  Introduced(n - 1, BootId)'
    <3> PICK b \in Nat : b = BootId
      BY <1>3
    <3>1. Introduced(n, b)
      BY <2>1 DEF Order, HeartbeatFirst
    <3>2. Introduced(n - 1, b)'
      BY <1>1, <1>3, <1>8, <3>1
    <3> QED
      BY <1>2, <3>2 DEF Introduced
  <2>2. ASSUME NEW i \in 1..n - 1, net'[i].kind \in Goodbye
        PROVE  Introduced(i - 1, net[i].boot)'
    <3>1. i + 1 \in 1..n /\ net'[i] = net[i + 1]
      BY <1>1
    <3> PICK b \in Nat : b = net[i + 1].boot
      BY <1>3, <3>1
    <3>2. Introduced(i, b)
      BY <2>2, <3>1 DEF Order, HeartbeatFirst
    <3>3. \A j \in 1..i : net[j].boot <= b
      BY <3>1 DEF Order, InOrder
    <3>4. Introduced(i - 1, b)'
      BY <1>8, <3>1, <3>2, <3>3
    <3> QED
      BY <3>1, <3>4 DEF Introduced
  <2> QED
    BY <1>1, <2>1, <2>2 DEF HeartbeatFirst, Introduced
<1>10. ASSUME NEW k \in 1..n, NEW b, SilentFrom(k, b)'
       PROVE  SilentFrom(k + 1, b)
  <2>1. \A i \in k + 1..n : i - 1 \in k..n - 1 /\ net'[i - 1] = net[i]
    BY <1>1
  <2>2. \A i \in k..n - 1 : net'[i].kind \in {"running"} \cup Goodbye => net'[i].boot # b
    BY <1>1, <1>10 DEF SilentFrom, Speaks
  <2> QED
    BY <2>1, <2>2 DEF SilentFrom, Speaks
<1>11. LastWordInNet'
  <2> SUFFICES ASSUME NEW i \in 1..n - 1, NEW b, b = net'[i].boot, b # 0,
                      net'[i].kind \in {"running"} \cup Goodbye, SilentFrom(i + 1, b)'
               PROVE  net'[i].kind = "down" <=> b \in clean
    BY <1>1 DEF LastWordInNet, SilentFrom, Speaks
  <2>1. i + 1 \in 1..n /\ net'[i] = net[i + 1]
    BY <1>1
  <2>2. SilentFrom((i + 1) + 1, b)
    BY <1>10, <2>1
  <2> QED
    BY <2>1, <2>2 DEF Order, LastWordInNet, Speaks
<1>12. LastWordInRow'
  <2> PICK b \in Nat : b = host'.boot
    OBVIOUS
  <2> SUFFICES ASSUME b # 0, SilentFrom(1, b)'
               PROVE  host'.reported = "down" <=> b \in clean
    BY DEF LastWordInRow, SilentFrom
  <2>1. SilentFrom(2, b)
    BY <1>1, <1>10
  <2>2. CASE m.kind = "running"
    <3>1. m.boot = b /\ host'.reported = "none"
      BY <1>3, <2>2, GoodbyeKinds DEF Heard
    <3> QED
      BY <1>1, <2>1, <2>2, <3>1 DEF Order, LastWordInNet, Speaks
  <2>3. CASE m.kind \in Goodbye
    <3>1. m.boot = b /\ (host'.reported = "down" <=> m.kind = "down")
      BY <1>5, <2>3, GoodbyeKinds DEF Heard
    <3> QED
      BY <1>1, <2>1, <2>3, <3>1 DEF Order, LastWordInNet, Speaks
  <2>4. CASE m.kind \in {"agent_removed", "inventory"}
    <3>1. m.kind = "inventory" /\ host'.boot = host.boot /\ host'.reported = host.reported
      BY <2>4, GoodbyeKinds DEF Heard
    <3>2. SilentFrom(1, b)
      BY <1>1, <2>1, <3>1, GoodbyeKinds DEF SilentFrom, Speaks
    <3> QED
      BY <3>1, <3>2 DEF Order, LastWordInRow
  <2> QED
    BY <2>2, <2>3, <2>4 DEF Heard
<1>13. AlarmsTrue'
  <2>1. CASE alarms' = alarms
    BY <2>1 DEF Order, AlarmsTrue
  <2>2. CASE Unclean(m) /\ m.kind = "running" /\ alarms' = alarms \cup {<<host.boot, m.boot>>}
    <3>1. host.boot < m.boot /\ host.boot # 0 /\ m.boot <= machine.boot
      BY <1>3, <2>2, OrderTypes DEF Unclean
    <3>2. SilentFrom(1, host.boot)
      BY <1>3, <3>1 DEF SilentFrom
    <3>3. host.boot \notin clean
      BY <2>2, <3>1, <3>2 DEF Unclean, Order, LastWordInRow
    <3> QED
      BY <2>2, <3>1, <3>3 DEF Order, AlarmsTrue
  <2> QED
    BY <2>1, <2>2 DEF Heard
<1>14. CleanSoFar'
  BY DEF Order, CleanSoFar
<1> QED
  BY <1>6, <1>7, <1>9, <1>11, <1>12, <1>13, <1>14 DEF Order

LEMMA InitOrder == Init => OrderInv
<1> SUFFICES ASSUME Init
             PROVE  Order
  BY DEF OrderInv
<1>1. /\ Len(net) = 0 /\ host.boot = 0 /\ machine.boot = 1 /\ machine.agent = "none"
      /\ machine.tells \in BOOLEAN /\ alarms = {} /\ clean = {}
  BY DEF Init, NoHost
<1>2. BootId \in {0, 1}
  BY <1>1 DEF BootId
<1> QED
  BY <1>1, <1>2 DEF Order, InOrder, AlwaysTells, HeartbeatFirst, LastWordInNet, LastWordInRow,
                    AlarmsTrue, CleanSoFar

LEMMA AgentOrder ==
  ASSUME IInv, OrderInv, AgentStep
  PROVE  OrderInv'
<1> SUFFICES ASSUME flaw' = {}
             PROVE  Order'
  BY DEF OrderInv
<1>1. Order /\ TypeOK
  BY DEF AgentStep, SendHeartbeat, SendInventory, SendGoodbye, Uninstall, UpdateItself,
         StartAgent, GoDown, BootUp, history, OrderInv, IInv
<1>2. machine \in Machine /\ machine.boot \in Nat
  BY <1>1, OrderTypes DEF TypeOK
<1>3. CASE SendHeartbeat
  <2>1. machine'.boot = machine.boot /\ machine'.tells = machine.tells
    BY <1>2, <1>3 DEF SendHeartbeat, Machine
  <2>2. /\ Send("running") /\ UNCHANGED <<host, alarms>>
        /\ clean' = clean \ {machine.boot}
    BY <1>3 DEF SendHeartbeat, row
  <2> QED
    BY <1>1, <2>1, <2>2, SendOrder, GoodbyeKinds
<1>4. CASE SendInventory
  BY <1>1, <1>4, SendOrder, GoodbyeKinds DEF SendInventory, row, history
<1>5. CASE \E k \in Goodbye : SendGoodbye(k)
  <2> PICK k \in Goodbye : SendGoodbye(k)
    BY <1>5
  <2>1. /\ machine'.boot = machine.boot /\ machine'.tells = machine.tells
        /\ machine'.agent = "running" => machine.agent = "running"
    BY <1>2 DEF SendGoodbye, Machine
  <2> QED
    BY <1>1, <2>1, SendOrder DEF SendGoodbye, row
<1>6. CASE Uninstall
  <2>1. /\ machine'.boot = machine.boot /\ machine'.tells = machine.tells
        /\ machine'.agent = "none"
    BY <1>2, <1>6 DEF Uninstall, Machine
  <2> QED
    BY <1>1, <1>6, <2>1, SendOrder, GoodbyeKinds DEF Uninstall, row, history
<1>7. CASE UpdateItself \/ StartAgent \/ GoDown \/ BootUp
  <2>1. UNCHANGED <<row, net, enrolls, history>>
    BY <1>7 DEF UpdateItself, StartAgent, GoDown, BootUp
  <2>2. machine'.tells = machine.tells
    BY <1>2, <1>7 DEF UpdateItself, StartAgent, GoDown, BootUp, Machine
  <2>3. machine'.boot = machine.boot \/ (BootUp /\ machine'.boot = machine.boot + 1)
    BY <1>2, <1>7 DEF UpdateItself, StartAgent, GoDown, BootUp, Machine
  <2>4. machine'.agent = "running" => machine.agent = "running" /\ ~BootUp
    BY <1>2, <1>7 DEF UpdateItself, StartAgent, GoDown, BootUp, Machine
  <2> QED
    BY <1>1, <2>1, <2>2, <2>3, <2>4, QuietOrder DEF row, history
<1> QED
  BY <1>3, <1>4, <1>5, <1>6, <1>7 DEF AgentStep

(* What handling the first request does, in the words of HandleOrder.      *)
LEMMA HandledIsHeard ==
  ASSUME IInv, NEW i \in DOMAIN net, flaw' = {},
         \/ \E heard \in BOOLEAN : HandleRunning(i, heard)
         \/ HandleStopping(i) \/ HandleRemoved(i) \/ HandleInventory(i)
  PROVE  /\ i = 1 /\ net' = RemoveAt(net, 1) /\ Heard(net[1])
         /\ flaw = {} /\ host'.boot \in Nat /\ UNCHANGED clean
         /\ machine'.boot = machine.boot /\ machine'.tells = machine.tells
         /\ machine'.agent = machine.agent
<1>1. TypeOK
  BY DEF IInv
<1>2. Handle(i)
  BY DEF HandleRunning, HandleStopping, HandleRemoved, HandleInventory
<1>3. flaw = {} /\ i = 1 /\ net' = RemoveAt(net, 1)
  <2>1. i \in 1..Len(net) /\ Len(net) \in Nat
    <3> HIDE DEF Request
    <3> QED
      BY <1>1 DEF TypeOK
  <2>2. flaw = {} /\ ~(i > 1) /\ net' = RemoveAt(net, i)
    BY <1>2 DEF Handle
  <2> QED
    BY <2>1, <2>2
<1>4. host \in HostRow /\ machine \in Machine /\ net[1] \in Request
  BY <1>1, <1>2, <1>3, HandleType DEF TypeOK
<1>5. CASE \E heard \in BOOLEAN : HandleRunning(1, heard)
  <2> PICK heard \in BOOLEAN : HandleRunning(1, heard)
    BY <1>5
  <2>1. /\ net[1].kind = "running" /\ host'.reported = "none"
        /\ host'.boot = IF net[1].boot = 0 THEN host.boot ELSE net[1].boot
    BY <1>4 DEF HandleRunning, HostRow
  <2>2. alarms' = IF Unclean(net[1]) THEN alarms \cup {<<host.boot, net[1].boot>>} ELSE alarms
    BY DEF HandleRunning
  <2>3. host'.boot \in Nat
    BY <1>4, <2>1, BoundsAssumption DEF HostRow, Request
  <2>4. /\ machine'.boot = machine.boot /\ machine'.tells = machine.tells
        /\ machine'.agent = machine.agent
    BY <1>4 DEF HandleRunning, Machine
  <2> QED
    BY <1>3, <2>1, <2>2, <2>3, <2>4 DEF HandleRunning, Heard
<1>6. CASE HandleStopping(1)
  <2>1. /\ net[1].kind \in Goodbye /\ host'.boot = host.boot /\ alarms' = alarms
        /\ host'.reported = GoodbyePresence[net[1].kind]
    BY <1>4, <1>6 DEF HandleStopping, HostRow
  <2>2. host'.reported = "down" <=> net[1].kind = "down"
    BY <2>1 DEF Goodbye, GoodbyePresence
  <2>3. host'.boot \in Nat
    BY <1>4, <2>1, BoundsAssumption DEF HostRow
  <2> QED
    BY <1>3, <1>6, <2>1, <2>2, <2>3 DEF HandleStopping, Heard
<1>7. CASE HandleRemoved(1)
  BY <1>3, <1>7 DEF HandleRemoved, Heard, Cleared, NoHost
<1>8. CASE HandleInventory(1)
  <2>1. host'.boot \in Nat
    BY <1>4, <1>8, BoundsAssumption DEF HandleInventory, HostRow
  <2> QED
    BY <1>3, <1>8, <2>1 DEF HandleInventory, Heard
<1> QED
  BY <1>3, <1>5, <1>6, <1>7, <1>8

LEMMA ServerOrder ==
  ASSUME IInv, OrderInv, NEW i \in DOMAIN net, ServerStep(i)
  PROVE  OrderInv'
<1> SUFFICES ASSUME flaw' = {}
             PROVE  Order'
  BY DEF OrderInv
<1>1. TypeOK
  BY DEF IInv
<1>2. CASE Lose(i)
  BY <1>2 DEF Lose
<1>3. CASE Authenticate(i)
  <2>1. /\ Len(net') = Len(net)
        /\ \A j \in 1..Len(net) : net'[j].kind = net[j].kind /\ net'[j].boot = net[j].boot
    <3>1. net \in Seq(Request) /\ net' = [net EXCEPT ![i] = [net[i] EXCEPT !.authed = TRUE]]
      BY <1>1, <1>3 DEF Authenticate, TypeOK
    <3>2. net[i] \in Request
      BY <3>1
    <3>3. [net[i] EXCEPT !.authed = TRUE].kind = net[i].kind
          /\ [net[i] EXCEPT !.authed = TRUE].boot = net[i].boot
      BY <3>2 DEF Request
    <3> HIDE DEF Request
    <3> QED
      BY <3>1, <3>3
  <2>2. UNCHANGED <<host, machine, alarms, clean>> /\ flaw = {}
    BY <1>3 DEF Authenticate, row, history
  <2> QED
    BY <1>1, <2>1, <2>2, QuietOrder, OrderTypes DEF OrderInv
<1>4. CASE ~Lose(i) /\ ~Authenticate(i)
  <2>1. \A j \in DOMAIN net : ~HandleRemovedBeside(i, j)
    BY DEF HandleRemovedBeside
  <2> QED
    BY <1>1, <1>4, <2>1, HandledIsHeard, HandleOrder DEF ServerStep, OrderInv
<1> QED
  BY <1>2, <1>3, <1>4

LEMMA AdminOrder ==
  ASSUME IInv, OrderInv, AdminStep
  PROVE  OrderInv'
<1>1. TypeOK
  BY DEF IInv
<1>2. host \in HostRow /\ machine \in Machine
  BY <1>1 DEF TypeOK
<1>3. UNCHANGED <<net, alarms, clean, flaw>>
  BY DEF AdminStep, SetTarget, ClearTarget, RequestRemoval, CancelRemoval, Admin, Enroll
<1>4. host'.boot = host.boot /\ host'.reported = host.reported
  BY <1>2 DEF AdminStep, SetTarget, ClearTarget, RequestRemoval, CancelRemoval, Admin, Enroll,
              HostRow
<1>5. /\ machine'.tells = machine.tells /\ machine'.boot = machine.boot
      /\ machine'.agent = "running" => machine.agent = "running"
  BY <1>2 DEF AdminStep, SetTarget, ClearTarget, RequestRemoval, CancelRemoval, Admin, Enroll,
              Machine
<1> QED
  BY <1>1, <1>3, <1>4, <1>5, QuietOrder DEF OrderInv

LEMMA NextOrder == IInv /\ OrderInv /\ [Next]_vars => OrderInv'
<1>1. ASSUME IInv, OrderInv, UNCHANGED vars
      PROVE  OrderInv'
  <2>1. UNCHANGED <<host, machine, net, alarms, clean, flaw>>
    BY <1>1 DEF vars, row, history
  <2> QED
    BY <1>1, <2>1, QuietOrder DEF OrderInv, IInv
<1> QED
  BY <1>1, AgentOrder, ServerOrder, AdminOrder DEF Next

(* A boot_id the row moves on from to another was the last it was told of. *)
LEMMA NextAudited ==
  ASSUME IInv, OrderInv, Next, flaw' = {},
         host.boot \in Boot \ clean, host'.boot \in Boot \ {host.boot}
  PROVE  <<host.boot, host'.boot>> \in alarms'
<1>1. TypeOK
  BY DEF IInv
<1>2. PICK i \in DOMAIN net : \/ \E heard \in BOOLEAN : HandleRunning(i, heard)
                              \/ HandleStopping(i) \/ HandleRemoved(i) \/ HandleInventory(i)
  <2>1. host \in HostRow
    BY <1>1 DEF TypeOK
  <2>2. ~AgentStep
    BY DEF AgentStep, SendHeartbeat, SendInventory, SendGoodbye, Uninstall, UpdateItself,
           StartAgent, GoDown, BootUp, row
  <2>3. ~AdminStep
    BY <2>1 DEF AdminStep, SetTarget, ClearTarget, RequestRemoval, CancelRemoval, Admin, Enroll,
                HostRow
  <2>4. \A i \in DOMAIN net : ~Lose(i) /\ ~Authenticate(i)
    BY DEF Lose, Authenticate, row
  <2>5. \A i, j \in DOMAIN net : ~HandleRemovedBeside(i, j)
    BY DEF HandleRemovedBeside
  <2> QED
    BY <2>2, <2>3, <2>4, <2>5 DEF Next, ServerStep
<1>3. i = 1 /\ Heard(net[1]) /\ Order
  BY <1>2, HandledIsHeard DEF OrderInv
<1>4. /\ net[1].kind = "running" /\ net[1].boot = host'.boot
      /\ alarms' = IF Unclean(net[1]) THEN alarms \cup {<<host.boot, net[1].boot>>} ELSE alarms
  BY <1>3, BoundsAssumption DEF Heard, Boot
<1>5. SilentFrom(1, host.boot)
  <2>1. 1 \in 1..Len(net)
    <3> HIDE DEF Request
    <3> QED
      BY <1>1, <1>3 DEF TypeOK
  <2>2. \A j \in 1..Len(net) : net[1].boot <= net[j].boot /\ net[j].boot \in Nat
    BY <1>1, <1>3, <2>1, OrderTypes DEF Order, InOrder
  <2>3. host.boot < net[1].boot
    BY <1>1, <1>3, <1>4, <2>1, OrderTypes DEF Order, InOrder
  <2> QED
    BY <1>1, <2>2, <2>3, OrderTypes DEF SilentFrom
<1>6. host.reported # "down"
  BY <1>3, <1>5 DEF Order, LastWordInRow, Boot
<1>7. Unclean(net[1])
  BY <1>4, <1>6 DEF Unclean, Boot
<1> QED
  BY <1>4, <1>7

-----------------------------------------------------------------------------
(* Every variable has its type.                                            *)
THEOREM TypeCorrect == Spec => []TypeOK
<1>1. IInv => TypeOK
  BY DEF IInv
<1> QED
  BY <1>1, InitInv, NextInv, PTL DEF Spec

(* What hosts/removal.py complete promises: once the agent has said it is  *)
(* gone, nothing it told the server comes back, and nothing is pending     *)
(* that no administrator has asked for since, unless a request it sent     *)
(* before is handled beside the removal or after it.                       *)
THEOREM RemovalSweepsAll == Spec => []RemovedIsClean
<1>1. IInv => RemovedIsClean
  BY DEF IInv, NoTrace, RemovedIsClean, Presence
<1> QED
  BY <1>1, InitInv, NextInv, PTL DEF Spec

(* As long as no request of the host's agent was lost, overtaken or late,  *)
(* every unclean reboot that is audited was one: the boot it names has     *)
(* ended, before the other began, without a reboot or power-off goodbye    *)
(* (agents/service.py record_heartbeat).  Once one was, it says nothing.   *)
THEOREM AlarmsAreTrue == Spec => []AlarmIsTrue
<1>1. OrderInv => AlarmIsTrue
  BY DEF OrderInv, Order, AlarmsTrue, AlarmIsTrue
<1> QED
  BY <1>1, InitInv, NextInv, InitOrder, NextOrder, PTL DEF Spec

(* Under the same condition each one the server could know of is audited:  *)
(* the stored boot_id never moves on silently from a boot that ended       *)
(* without a goodbye.                                                      *)
THEOREM UncleanNeverMissed == Spec => UncleanIsAudited
<1>1. IInv /\ OrderInv /\ [Next]_vars =>
        [flaw' = {} /\ host.boot \in Boot \ clean /\ host'.boot \in Boot \ {host.boot} =>
           <<host.boot, host'.boot>> \in alarms']_vars
  BY NextAudited
<1> QED
  BY <1>1, InitInv, NextInv, InitOrder, NextOrder, PTL DEF Spec, UncleanIsAudited
=============================================================================
