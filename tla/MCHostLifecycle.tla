-------------------------- MODULE MCHostLifecycle --------------------------
(* Three boots, two enrollments, one newer release, two requests on their  *)
(* way at once.                                                            *)
EXTENDS HostLifecycle

(* Behaviours up to the first late request; requests are lost or overtaken *)
(* in the first boot only, and in the last boot no directive is pending.   *)
Explored ==
  /\ "late" \notin flaw
  /\ flaw # {} => machine.boot = 1
  /\ machine.boot = MaxBoot => host.target = None /\ ~host.removal /\ machine.orders = None
=============================================================================
