---------------------------- MODULE Credentials ----------------------------
(***************************************************************************)
(* What the enrollment service promises about credentials, with no         *)
(* transaction, lock or host row in sight.                                 *)
(*                                                                         *)
(* An enrollment is a one-time secret: it is issued once and exchanged at  *)
(* most once, and the exchange hands out exactly one agent token in the    *)
(* same indivisible step that spends the enrollment.  A token is live      *)
(* until it is retired and never comes back.  Deleting a host record drops *)
(* its enrollments, which can then never be exchanged, and retires its     *)
(* tokens.                                                                 *)
(***************************************************************************)
CONSTANTS Enr,      \* enrollment rows (agents/models.py)
          Token,    \* agent token rows (auth/models.py)
          None      \* no token: the enrollment has not been exchanged

VARIABLES issued,   \* enrollments ever handed out
          dropped,  \* enrollments deleted together with their host
          spent,    \* the token each enrollment was exchanged for
          live,     \* tokens that authenticate
          retired   \* tokens that once did

cvars == <<issued, dropped, spent, live, retired>>

Init ==
  /\ issued = {}
  /\ dropped = {}
  /\ spent = [e \in Enr |-> None]
  /\ live = {}
  /\ retired = {}

Issue(e) ==
  /\ e \notin issued
  /\ issued' = issued \cup {e}
  /\ UNCHANGED <<dropped, spent, live, retired>>

(* Spending the enrollment and minting the token are one step.  Other      *)
(* tokens S may be retired by it: the earlier ones of a re-enrolled host.  *)
Exchange(e, t, S) ==
  /\ e \in issued \ dropped
  /\ spent[e] = None
  /\ t \notin live \cup retired
  /\ spent' = [spent EXCEPT ![e] = t]
  /\ live' = (live \ S) \cup {t}
  /\ retired' = retired \cup S
  /\ UNCHANGED <<issued, dropped>>

(* Enrollments E are dropped and tokens S are retired.                     *)
Retire(E, S) ==
  /\ dropped' = dropped \cup E
  /\ live' = live \ S
  /\ retired' = retired \cup S
  /\ UNCHANGED <<issued, spent>>

Next ==
  \/ \E e \in Enr : Issue(e)
  \/ \E e \in Enr, t \in Token, S \in SUBSET live : Exchange(e, t, S)
  \/ \E E \in SUBSET issued, S \in SUBSET live : Retire(E, S)

Spec == Init /\ [][Next]_cvars
=============================================================================
