--------------------------- MODULE MCEnrollmentTx ---------------------------
(* Two enrollments of one host, two concurrent workers: enough for two     *)
(* exchanges of one enrollment, two exchanges of the host's enrollments,   *)
(* and any of these against a removal, a revocation, a delete or a sweep.  *)
EXTENDS EnrollmentTx, TLC

CONSTANTS h1, e1, e2, t1, t2, w1, w2

Symmetry == Permutations(Enr) \cup Permutations(Token) \cup Permutations(Worker)

MCHostOf == (e1 :> h1) @@ (e2 :> h1)

(* For liveness, which symmetry would spoil, start with a host whose first *)
(* enrollment has been exchanged and whose second one is open: Spec        *)
(* reaches this before any other request is in flight.  It is enough for   *)
(* an exchange and a removal to wait for each other's rows.                *)
LiveInit ==
  /\ hst = (h1 :> "active")
  /\ beat = (h1 :> FALSE)
  /\ enr = [e \in Enr |-> [NoEnr EXCEPT !.row = "open", !.used = (e = e1)]]
  /\ tok = [t \in Token |-> IF t = t1
              THEN [row |-> "live", enr |-> e1, bumped |-> TRUE] ELSE NoTok]
  /\ tx = [w \in Worker |-> Idle]

LiveSpec == LiveInit /\ [][Next]_vars /\ Fairness
=============================================================================
