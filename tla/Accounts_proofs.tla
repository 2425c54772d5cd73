-------------------------- MODULE Accounts_proofs --------------------------
(* Machine-checked proofs about Accounts, for any number of users,         *)
(* sessions and requests, and, at the end, about the Lists that accounts   *)
(* and the rest are read from, for any rows, times and page size.          *)
EXTENDS Accounts, Lists, FiniteSetTheorems, TLAPS

(* Two deletions never hold one row.                                       *)
OneDeleter ==
  \A v, w \in Worker :
    v # w /\ tx[v].op = "deleting" /\ tx[w].op = "deleting" => tx[v].on # tx[w].on

(* Who is about to be demoted or deleted is there, and a count nothing has *)
(* disturbed is still true.                                                *)
CountHolds ==
  \A w \in Worker :
    tx[w].op \in {"demote", "delete", "deleting"} =>
      /\ tx[w].on \in User /\ user[tx[w].on] = "live"
      /\ tx[w].on \in admin => tx[w].stale \/ OthersRemain(tx[w].on)

(* A login that overlaps the deletion of its user is marked.               *)
LoginHolds ==
  \A w \in Worker :
    tx[w].op = "login" =>
      tx[w].on \in User /\ (user[tx[w].on] = "deleted" => tx[w].stale)

(* A deletion has seen every session it must end.                          *)
SeenAll ==
  \A w \in Worker, s \in live :
    tx[w].op = "deleting" /\ holder[s] = tx[w].on => s \in tx[w].seen \cup late

IInv == TypeOK /\ OneDeleter /\ CountHolds /\ LoginHolds /\ SeenAll /\ SessionsEnd

-----------------------------------------------------------------------------
LEMMA AtType == ASSUME NEW op \in Op, NEW u \in User \cup {None} PROVE At(op, u) \in Tx
BY DEF At, Idle, Tx

LEMMA IdleType == Idle \in Tx
BY DEF Idle, Tx, Op

(* What a commit leaves of the other requests.                             *)
LEMMA CommittedType ==
  ASSUME tx \in [Worker -> Tx], NEW w \in Worker, NEW u
  PROVE  /\ Committed(w, u) \in [Worker -> Tx]
         /\ \A v \in Worker : Committed(w, u)[v] \in {Idle, tx[v]}
         /\ Committed(w, u)[w] = Idle
         /\ \A v \in Worker :
              tx[v].op \in {"demote", "delete"} /\ tx[v].on = u => Committed(w, u)[v] = Idle
<1> HIDE DEF Tx
<1> QED
  BY IdleType DEF Committed

LEMMA OutdatedType ==
  ASSUME NEW t \in [Worker -> Tx], NEW W
  PROVE  /\ Outdated(t, W) \in [Worker -> Tx]
         /\ \A v \in Worker : /\ Outdated(t, W)[v].op = t[v].op
                              /\ Outdated(t, W)[v].on = t[v].on
                              /\ Outdated(t, W)[v].seen = t[v].seen
                              /\ Outdated(t, W)[v].stale = (t[v].stale \/ v \in W)
BY DEF Outdated, Tx

LEMMA InitInv == Init => IInv
<1> SUFFICES ASSUME Init PROVE IInv
  OBVIOUS
<1>1. \A w \in Worker : tx[w] = Idle /\ tx[w].op = "idle"
  BY DEF Init, Idle
<1>2. TypeOK
  <2>1. tx \in [Worker -> Tx]
    <3> HIDE DEF Tx
    <3> QED
      BY IdleType DEF Init
  <2> QED
    BY <2>1, RootIsAUser DEF Init, TypeOK, Status
<1> QED
  BY <1>1, <1>2 DEF Init, IInv, OneDeleter, CountHolds, LoginHolds, SeenAll, SessionsEnd

(* A step that moves one request only.                                     *)
LEMMA ReadInv ==
  ASSUME IInv, NEW w \in Worker, NEW t \in Tx,
         tx' = [tx EXCEPT ![w] = t],
         UNCHANGED <<user, admin, holder, live, late>>,
         t.op = "deleting" =>
           /\ RowFree(t.on, w)
           /\ \A s \in live : holder[s] = t.on => s \in t.seen,
         t.op \in {"demote", "delete", "deleting"} =>
           /\ t.on \in User /\ user[t.on] = "live"
           /\ t.on \in admin => t.stale \/ OthersRemain(t.on),
         t.op = "login" => t.on \in User /\ (user[t.on] = "deleted" => t.stale)
  PROVE  IInv'
<1> HIDE DEF Tx
<1>1. \A v \in Worker : tx'[v] = IF v = w THEN t ELSE tx[v]
  BY DEF IInv, TypeOK
<1>2. TypeOK'
  BY DEF IInv, TypeOK
<1>3. OneDeleter'
  BY <1>1 DEF IInv, OneDeleter, RowFree
<1>4. CountHolds'
  BY <1>1 DEF IInv, CountHolds, OthersRemain, Admins
<1>5. LoginHolds'
  BY <1>1 DEF IInv, LoginHolds
<1>6. SeenAll'
  BY <1>1 DEF IInv, SeenAll
<1>7. SessionsEnd'
  BY DEF IInv, SessionsEnd
<1> QED
  BY <1>2, <1>3, <1>4, <1>5, <1>6, <1>7 DEF IInv

LEMMA ReadsInv ==
  ASSUME IInv, NEW w \in Worker,
         \/ \E s \in Session : Authenticate(w, s)
         \/ RequireAdmin(w) \/ Rollback(w) \/ DeleteSelect(w)
         \/ \E u \in User : DemoteRead(w, u) \/ DeleteRead(w, u) \/ LoginRead(w, u)
  PROVE  IInv'
<1>1. CASE \E s \in Session : Authenticate(w, s)
  <2> PICK s \in Session : Authenticate(w, s)
    BY <1>1
  <2>1. At("known", holder[s]) \in Tx /\ At("known", holder[s]).op = "known"
    BY AtType DEF IInv, TypeOK, Op, At, Idle
  <2> QED
    BY <2>1, ReadInv DEF Authenticate
<1>2. CASE RequireAdmin(w)
  <2>1. At("admin", None) \in Tx /\ At("admin", None).op = "admin"
    BY AtType DEF Op, At, Idle
  <2> QED
    BY <1>2, <2>1, ReadInv DEF RequireAdmin
<1>3. CASE Rollback(w)
  <2>1. Idle.op = "idle"
    BY DEF Idle
  <2> QED
    BY <1>3, <2>1, IdleType, ReadInv DEF Rollback
<1>4. CASE DeleteSelect(w)
  <2> DEFINE u == tx[w].on
             t == [tx[w] EXCEPT !.op = "deleting", !.seen = SessionsOf(u)]
  <2>1. /\ t \in Tx /\ t.op = "deleting" /\ t.on = u /\ t.seen = SessionsOf(u)
        /\ t.stale = tx[w].stale
    BY DEF IInv, TypeOK, Tx, Op, SessionsOf
  <2>2. tx' = [tx EXCEPT ![w] = t]
    BY <1>4 DEF DeleteSelect
  <2>3. tx[w].op = "delete" /\ RowFree(u, w) /\ UNCHANGED <<user, admin, holder, live, late>>
    BY <1>4 DEF DeleteSelect
  <2>4. u \in User /\ user[u] = "live" /\ (u \in admin => t.stale \/ OthersRemain(u))
    BY <2>1, <2>3 DEF IInv, CountHolds
  <2>5. \A s \in live : holder[s] = u => s \in t.seen
    BY <2>1 DEF SessionsOf
  <2> HIDE DEF t, u
  <2> QED
    BY <2>1, <2>2, <2>3, <2>4, <2>5, ReadInv
<1>5. CASE \E u \in User : DemoteRead(w, u) \/ DeleteRead(w, u) \/ LoginRead(w, u)
  <2> PICK u \in User : DemoteRead(w, u) \/ DeleteRead(w, u) \/ LoginRead(w, u)
    BY <1>5
  <2>1. \A op \in {"demote", "delete", "login"} :
          /\ At(op, u) \in Tx /\ At(op, u).op = op /\ At(op, u).on = u
    BY AtType DEF Op, At, Idle
  <2>2. CASE DemoteRead(w, u)
    <3>1. user[u] = "live"
      BY <2>2 DEF DemoteRead, Admins
    <3> QED
      BY <2>1, <2>2, <3>1, ReadInv DEF DemoteRead
  <2>3. CASE DeleteRead(w, u)
    BY <2>1, <2>3, ReadInv DEF DeleteRead
  <2>4. CASE LoginRead(w, u)
    BY <2>1, <2>4, ReadInv DEF LoginRead
  <2> QED
    BY <2>2, <2>3, <2>4
<1> QED
  BY <1>1, <1>2, <1>3, <1>4, <1>5

(* A step that writes the row of u and keeps it alive: the requests that   *)
(* read the row fail, and nobody else stops being an administrator.        *)
LEMMA WriteInv ==
  ASSUME IInv, NEW w \in Worker, NEW u \in User, RowFree(u, w), user[u] = "live",
         NEW t \in [Worker -> Tx], tx' = t, UNCHANGED <<user, holder, live, late>>,
         admin' \in {admin \cup {u}, admin \ {u}, admin},
         t[w].op = "idle",
         \A v \in Worker :
           \/ t[v].op = "idle"
           \/ /\ t[v].op = tx[v].op /\ t[v].on = tx[v].on /\ t[v].seen = tx[v].seen
              /\ tx[v].stale => t[v].stale
              /\ tx[v].op \in {"demote", "delete"} => tx[v].on # u
              /\ \/ u \in admin' \/ u \notin admin \/ t[v].stale
                 \/ tx[v].op \notin {"demote", "delete", "deleting"}
  PROVE  IInv'
<1> HIDE DEF Tx
<1>1. TypeOK'
  BY DEF IInv, TypeOK
<1>2. OneDeleter'
  BY DEF IInv, OneDeleter
<1>3. CountHolds'
  <2> SUFFICES ASSUME NEW v \in Worker, t[v].op \in {"demote", "delete", "deleting"}
               PROVE  /\ t[v].on \in User /\ user[t[v].on] = "live"
                      /\ t[v].on \in admin' => t[v].stale \/ OthersRemain(t[v].on)'
    BY DEF CountHolds
  <2>1. v # w /\ t[v].on = tx[v].on /\ t[v].op = tx[v].op /\ (tx[v].stale => t[v].stale)
    OBVIOUS
  <2>2. tx[v].on # u
    BY <2>1 DEF RowFree
  <2>3. /\ tx[v].on \in User /\ user[tx[v].on] = "live"
        /\ tx[v].on \in admin => tx[v].stale \/ OthersRemain(tx[v].on)
    BY <2>1 DEF IInv, CountHolds
  <2>4. u \in admin' \/ u \notin admin => Admins \subseteq Admins'
    BY DEF Admins, IInv, TypeOK
  <2>5. u \in admin' \/ u \notin admin \/ t[v].stale
    BY <2>1
  <2> QED
    BY <2>1, <2>2, <2>3, <2>4, <2>5 DEF OthersRemain
<1>4. LoginHolds'
  BY DEF IInv, LoginHolds
<1>5. SeenAll'
  BY DEF IInv, SeenAll
<1>6. SessionsEnd'
  BY DEF IInv, SessionsEnd
<1> QED
  BY <1>1, <1>2, <1>3, <1>4, <1>5, <1>6 DEF IInv

LEMMA UpdateInv ==
  ASSUME IInv, NEW w \in Worker, NEW u \in User, NEW isAdmin \in BOOLEAN,
         UpdateUser(w, u, isAdmin)
  PROVE  IInv'
<1> HIDE DEF Tx
<1>1. tx \in [Worker -> Tx]
  BY DEF IInv, TypeOK
<1>2. Idle.op = "idle"
  BY DEF Idle
<1>3. u \in admin => isAdmin
  BY DEF UpdateUser
<1>4. admin' = IF isAdmin THEN admin \cup {u} ELSE admin
  BY DEF UpdateUser
<1>5. admin' \in {admin \cup {u}, admin} /\ (u \in admin => u \in admin')
  BY <1>3, <1>4
<1>6. tx' = Committed(w, u)
  BY DEF UpdateUser
<1>7. UNCHANGED <<user, holder, live, late>> /\ user[u] = "live" /\ RowFree(u, w)
  BY DEF UpdateUser
<1>8. \A v \in Worker :
        \/ Committed(w, u)[v] = Idle
        \/ /\ Committed(w, u)[v] = tx[v]
           /\ (tx[v].op \in {"demote", "delete"} => tx[v].on # u)
  <2> SUFFICES ASSUME NEW v \in Worker, Committed(w, u)[v] # Idle
               PROVE  Committed(w, u)[v] = tx[v]
                      /\ (tx[v].op \in {"demote", "delete"} => tx[v].on # u)
    OBVIOUS
  <2> QED
    BY <1>1, CommittedType
<1>9. Committed(w, u)[w].op = "idle" /\ Committed(w, u) \in [Worker -> Tx]
  BY <1>1, <1>2, CommittedType
<1> QED
  BY <1>2, <1>5, <1>6, <1>7, <1>8, <1>9, WriteInv

(* What becomes of the requests when w takes administrator u away.         *)
LEMMA OutdatedCommit ==
  ASSUME IInv, NEW w \in Worker, NEW u \in User, NEW W,
         NEW t, t = Outdated(Committed(w, u), W)
  PROVE  /\ t \in [Worker -> Tx]
         /\ t[w].op = "idle"
         /\ \A v \in Worker :
              \/ t[v].op = "idle"
              \/ /\ t[v].op = tx[v].op /\ t[v].on = tx[v].on /\ t[v].seen = tx[v].seen
                 /\ t[v].stale = (tx[v].stale \/ v \in W)
                 /\ tx[v].op \in {"demote", "delete"} => tx[v].on # u
<1> HIDE DEF Tx
<1>1. tx \in [Worker -> Tx]
  BY DEF IInv, TypeOK
<1>2. Idle.op = "idle"
  BY DEF Idle
<1>3. /\ Committed(w, u) \in [Worker -> Tx]
      /\ Committed(w, u)[w] = Idle
      /\ \A v \in Worker : Committed(w, u)[v] \in {Idle, tx[v]}
      /\ \A v \in Worker : tx[v].op \in {"demote", "delete"} /\ tx[v].on = u
                             => Committed(w, u)[v] = Idle
  BY <1>1, CommittedType
<1>4. /\ t \in [Worker -> Tx]
      /\ \A v \in Worker : /\ t[v].op = Committed(w, u)[v].op
                           /\ t[v].on = Committed(w, u)[v].on
                           /\ t[v].seen = Committed(w, u)[v].seen
                           /\ t[v].stale = (Committed(w, u)[v].stale \/ v \in W)
  BY <1>3, OutdatedType
<1> QED
  BY <1>2, <1>3, <1>4

LEMMA DemoteInv ==
  ASSUME IInv, NEW w \in Worker, DemoteCommit(w) PROVE IInv'
<1> HIDE DEF Tx
<1> PICK u, t : u = tx[w].on /\ t = Outdated(Committed(w, u), Counted(w, u))
  OBVIOUS
<1>1. /\ tx[w].op = "demote" /\ RowFree(u, w) /\ admin' = admin \ {u} /\ tx' = t
      /\ UNCHANGED <<user, holder, live, late>>
  BY DEF DemoteCommit
<1>2. u \in User /\ user[u] = "live"
  BY <1>1 DEF IInv, CountHolds
<1>3. /\ t \in [Worker -> Tx]
      /\ t[w].op = "idle"
      /\ \A v \in Worker :
           \/ t[v].op = "idle"
           \/ /\ t[v].op = tx[v].op /\ t[v].on = tx[v].on /\ t[v].seen = tx[v].seen
              /\ t[v].stale = (tx[v].stale \/ v \in Counted(w, u))
              /\ tx[v].op \in {"demote", "delete"} => tx[v].on # u
  BY <1>2, OutdatedCommit
<1>4. \A v \in Worker : tx[v].op \in {"demote", "delete", "deleting"} /\ u \in admin
                          => t[v].op = "idle" \/ v \in Counted(w, u)
  <2> SUFFICES ASSUME NEW v \in Worker, tx[v].op \in {"demote", "delete", "deleting"},
                      u \in admin, t[v].op # "idle"
               PROVE  v \in Counted(w, u)
    OBVIOUS
  <2>1. v # w /\ tx[v].on # u
    BY <1>3, <1>1 DEF RowFree
  <2> QED
    BY <2>1, <1>2 DEF Counted, Admins
<1>5. \A v \in Worker :
        \/ t[v].op = "idle"
        \/ /\ t[v].op = tx[v].op /\ t[v].on = tx[v].on /\ t[v].seen = tx[v].seen
           /\ tx[v].stale => t[v].stale
           /\ tx[v].op \in {"demote", "delete"} => tx[v].on # u
           /\ \/ u \in admin' \/ u \notin admin \/ t[v].stale
              \/ tx[v].op \notin {"demote", "delete", "deleting"}
  BY <1>3, <1>4
<1> QED
  BY <1>1, <1>2, <1>3, <1>5, WriteInv

(* A deletion ends what it saw and marks what it could not see.            *)
LEMMA DeleteInv ==
  ASSUME IInv, NEW w \in Worker, DeleteCommit(w) PROVE IInv'
<1> HIDE DEF Tx
<1> PICK u : u = tx[w].on
  OBVIOUS
<1> PICK W : W = Counted(w, u) \cup {v \in Worker : tx[v].op = "login" /\ tx[v].on = u}
  OBVIOUS
<1> PICK t : t = Outdated(Committed(w, u), W)
  OBVIOUS
<1>1. /\ tx[w].op = "deleting" /\ user' = [user EXCEPT ![u] = "deleted"]
      /\ live' = live \ tx[w].seen /\ tx' = t /\ UNCHANGED <<admin, holder, late>>
  BY DEF DeleteCommit
<1>2. u \in User /\ user[u] = "live" /\ (u \in admin => u \in Admins)
  BY <1>1 DEF IInv, CountHolds, Admins
<1>3. /\ t \in [Worker -> Tx]
      /\ t[w].op = "idle"
      /\ \A v \in Worker :
           \/ t[v].op = "idle"
           \/ /\ t[v].op = tx[v].op /\ t[v].on = tx[v].on /\ t[v].seen = tx[v].seen
              /\ t[v].stale = (tx[v].stale \/ v \in W)
              /\ tx[v].op \in {"demote", "delete"} => tx[v].on # u
  BY <1>2, OutdatedCommit
<1>4. \A v \in Worker :
        /\ t[v].op \in {"demote", "delete", "deleting"} =>
             /\ tx[v].op = t[v].op /\ tx[v].on # u
             /\ u \in admin => t[v].stale
        /\ t[v].op = "login" /\ tx[v].on = u => t[v].stale
  <2> SUFFICES ASSUME NEW v \in Worker, t[v].op # "idle"
               PROVE  /\ t[v].op \in {"demote", "delete", "deleting"} =>
                           /\ tx[v].op = t[v].op /\ tx[v].on # u
                           /\ u \in admin => t[v].stale
                      /\ t[v].op = "login" /\ tx[v].on = u => t[v].stale
    BY <1>3
  <2>1. v # w /\ t[v].op = tx[v].op /\ (v \in W => t[v].stale)
        /\ (tx[v].op \in {"demote", "delete"} => tx[v].on # u)
    BY <1>3
  <2>2. tx[v].op = "deleting" => tx[v].on # u
    BY <1>1, <2>1 DEF IInv, OneDeleter
  <2>3. tx[v].op \in {"demote", "delete", "deleting"} /\ u \in admin => v \in W
    BY <1>2, <2>1, <2>2 DEF Counted
  <2> QED
    BY <2>1, <2>2, <2>3
<1>5. /\ \A x \in User : user'[x] = IF x = u THEN "deleted" ELSE user[x]
      /\ user' \in [User -> Status]
  BY <1>1 DEF IInv, TypeOK, Status
<1>6. TypeOK'
  BY <1>1, <1>3, <1>5 DEF IInv, TypeOK
<1>7. OneDeleter'
  <2> SUFFICES ASSUME NEW v \in Worker, NEW x \in Worker, v # x,
                      t[v].op = "deleting", t[x].op = "deleting"
               PROVE  t[v].on # t[x].on
    BY <1>1 DEF OneDeleter
  <2>1. /\ t[v].op = tx[v].op /\ t[v].on = tx[v].on
        /\ t[x].op = tx[x].op /\ t[x].on = tx[x].on
    BY <1>3
  <2>2. OneDeleter
    BY DEF IInv
  <2> QED
    BY <2>1, <2>2 DEF OneDeleter
<1>8. CountHolds'
  <2> SUFFICES ASSUME NEW v \in Worker, t[v].op \in {"demote", "delete", "deleting"}
               PROVE  /\ t[v].on \in User /\ user'[t[v].on] = "live"
                      /\ t[v].on \in admin' => t[v].stale \/ OthersRemain(t[v].on)'
    BY <1>1 DEF CountHolds
  <2>1. tx[v].op = t[v].op /\ tx[v].on # u /\ (u \in admin => t[v].stale)
    BY <1>4
  <2>2. tx[v].on = t[v].on /\ (tx[v].stale => t[v].stale)
    BY <1>3
  <2>3. /\ tx[v].on \in User /\ user[tx[v].on] = "live"
        /\ tx[v].on \in admin => tx[v].stale \/ OthersRemain(tx[v].on)
    BY <2>1 DEF IInv, CountHolds
  <2>4. u \notin admin => Admins' = Admins
    BY <1>1, <1>5 DEF Admins, IInv, TypeOK
  <2> QED
    BY <1>1, <1>5, <2>1, <2>2, <2>3, <2>4 DEF OthersRemain
<1>9. LoginHolds'
  <2> SUFFICES ASSUME NEW v \in Worker, t[v].op = "login"
               PROVE  t[v].on \in User /\ (user'[t[v].on] = "deleted" => t[v].stale)
    BY <1>1 DEF LoginHolds
  <2>1. tx[v].op = "login" /\ tx[v].on = t[v].on /\ (tx[v].stale => t[v].stale)
    BY <1>3
  <2>2. tx[v].on \in User /\ (user[tx[v].on] = "deleted" => tx[v].stale)
    BY <2>1 DEF IInv, LoginHolds
  <2> QED
    BY <1>4, <1>5, <2>1, <2>2, ZenonT(60)
<1>10. SeenAll'
  BY <1>1, <1>3, ZenonT(60) DEF IInv, SeenAll
<1>11. SessionsEnd'
  BY <1>1, <1>2, <1>5, NoneIsNobody DEF IInv, SessionsEnd, SeenAll, TypeOK
<1> QED
  BY <1>6, <1>7, <1>8, <1>9, <1>10, <1>11 DEF IInv

LEMMA CreateInv ==
  ASSUME IInv, NEW w \in Worker, NEW u \in User, NEW isAdmin \in BOOLEAN,
         CreateUser(w, u, isAdmin)
  PROVE  IInv'
<1> HIDE DEF Tx
<1>1. /\ user[u] = "absent" /\ user' = [user EXCEPT ![u] = "live"]
      /\ admin' = IF isAdmin THEN admin \cup {u} ELSE admin
      /\ tx' = [tx EXCEPT ![w] = Idle] /\ UNCHANGED <<holder, live, late>>
  BY DEF CreateUser
<1>2. /\ \A x \in User : user'[x] = IF x = u THEN "live" ELSE user[x]
      /\ user' \in [User -> Status]
  BY <1>1 DEF IInv, TypeOK, Status
<1>3. \A v \in Worker : tx'[v] = tx[v] \/ tx'[v].op = "idle"
  BY <1>1 DEF IInv, TypeOK, Idle
<1>4. TypeOK'
  BY <1>1, <1>2, IdleType DEF IInv, TypeOK
<1>5. OneDeleter'
  BY <1>3 DEF IInv, OneDeleter
<1>6. CountHolds'
  <2>1. Admins \subseteq Admins'
    BY <1>1, <1>2 DEF Admins, IInv, TypeOK
  <2> QED
    BY <1>1, <1>2, <1>3, <2>1 DEF IInv, CountHolds, OthersRemain
<1>7. LoginHolds'
  BY <1>1, <1>2, <1>3 DEF IInv, LoginHolds
<1>8. SeenAll'
  BY <1>1, <1>3 DEF IInv, SeenAll
<1>9. SessionsEnd'
  BY <1>1, <1>2 DEF IInv, SessionsEnd, TypeOK
<1> QED
  BY <1>4, <1>5, <1>6, <1>7, <1>8, <1>9 DEF IInv

LEMMA LoginInv ==
  ASSUME IInv, NEW w \in Worker, NEW s \in Session, LoginCommit(w, s)
  PROVE  IInv'
<1> HIDE DEF Tx
<1> PICK u : u = tx[w].on
  OBVIOUS
<1>1. /\ tx[w].op = "login" /\ holder[s] = None /\ holder' = [holder EXCEPT ![s] = u]
      /\ live' = live \cup {s}
      /\ late' = IF tx[w].stale \/ ~RowFree(u, w) THEN late \cup {s} ELSE late
      /\ tx' = [tx EXCEPT ![w] = Idle] /\ UNCHANGED <<user, admin>>
  BY DEF LoginCommit
<1>2. u \in User /\ (user[u] = "deleted" => tx[w].stale)
  BY <1>1 DEF IInv, LoginHolds
<1>3. s \notin live /\ \A x \in Session : holder'[x] = IF x = s THEN u ELSE holder[x]
  BY <1>1 DEF IInv, TypeOK
<1>4. \A v \in Worker : (tx'[v] = tx[v] /\ v # w) \/ tx'[v].op = "idle"
  BY <1>1 DEF IInv, TypeOK, Idle
<1>5. TypeOK'
  BY <1>1, <1>2, <1>3, IdleType, NoneIsNobody DEF IInv, TypeOK
<1>6. OneDeleter' /\ CountHolds' /\ LoginHolds'
  BY <1>1, <1>4 DEF IInv, OneDeleter, CountHolds, LoginHolds, OthersRemain, Admins
<1>7. SeenAll'
  <2> SUFFICES ASSUME NEW v \in Worker, NEW x \in live', tx'[v].op = "deleting",
                      holder'[x] = tx'[v].on
               PROVE  x \in tx'[v].seen \cup late'
    BY DEF SeenAll
  <2>1. tx'[v] = tx[v] /\ v # w
    BY <1>4
  <2>2. CASE x = s
    BY <1>1, <1>3, <2>1, <2>2 DEF RowFree, IInv, TypeOK
  <2>3. CASE x # s
    BY <1>1, <1>3, <2>1, <2>3 DEF IInv, SeenAll, TypeOK
  <2> QED
    BY <2>2, <2>3
<1>8. SessionsEnd'
  BY <1>1, <1>2, <1>3 DEF IInv, SessionsEnd, TypeOK
<1> QED
  BY <1>5, <1>6, <1>7, <1>8 DEF IInv

LEMMA NextInv == IInv /\ [Next]_vars => IInv'
<1> HIDE DEF Tx
<1> SUFFICES ASSUME IInv, [Next]_vars PROVE IInv'
  OBVIOUS
<1>1. CASE UNCHANGED vars
  BY <1>1 DEF vars, IInv, TypeOK, OneDeleter, CountHolds, LoginHolds, SeenAll,
              SessionsEnd, OthersRemain, Admins
<1>2. ASSUME NEW s \in Session, EndSession(s) PROVE IInv'
  BY <1>2 DEF EndSession, IInv, TypeOK, OneDeleter, CountHolds, LoginHolds, SeenAll,
              SessionsEnd, OthersRemain, Admins
<1> QED
  BY <1>1, <1>2, ReadsInv, UpdateInv, DemoteInv, DeleteInv, CreateInv, LoginInv DEF Next

-----------------------------------------------------------------------------
(* Whatever requests overlap, every row keeps its shape, and flags and     *)
(* sessions only ever belong to users that exist.                          *)
THEOREM TypeCorrect == Spec => []TypeOK
<1>1. IInv => TypeOK
  BY DEF IInv
<1> QED
  BY <1>1, InitInv, NextInv, PTL DEF Spec

(* A deletion leaves its user no session but one whose login overlapped it *)
(* (users/service.py delete_user).                                         *)
THEOREM DeletionEndsSessions == Spec => []SessionsEnd
<1>1. IInv => SessionsEnd
  BY DEF IInv
<1> QED
  BY <1>1, InitInv, NextInv, PTL DEF Spec

(* Only a demotion or a deletion takes rights away, and only the ones it   *)
(* is about.                                                               *)
LEMMA AdminStep ==
  ASSUME IInv, [Next]_vars, Admins # {}, Admins' = {}
  PROVE  \E w \in Worker : /\ tx[w].op \in {"demote", "deleting"} /\ tx[w].stale
                           /\ tx'[w] = Idle
<1> HIDE DEF Tx
<1>1. ~(UNCHANGED <<user, admin>>)
  BY DEF Admins
<1>2. ASSUME NEW w \in Worker, NEW u \in User, NEW isAdmin \in BOOLEAN,
             CreateUser(w, u, isAdmin) \/ UpdateUser(w, u, isAdmin)
      PROVE  FALSE
  <2>1. admin \subseteq admin' /\ \A x \in User : user[x] = "live" => user'[x] = "live"
    BY <1>2 DEF CreateUser, UpdateUser, IInv, TypeOK
  <2> QED
    BY <2>1 DEF Admins, IInv, TypeOK
<1>3. PICK w \in Worker : DemoteCommit(w) \/ DeleteCommit(w)
  BY <1>1, <1>2
     DEF Next, vars, Authenticate, LoginCommit, DemoteRead, DeleteRead, LoginRead,
         RequireAdmin, DeleteSelect, Rollback, EndSession
<1>4. PICK u : u = tx[w].on
  OBVIOUS
<1>5. tx[w].op \in {"demote", "deleting"}
  BY <1>3 DEF DemoteCommit, DeleteCommit
<1>6. u \in User /\ (u \in admin => tx[w].stale \/ Admins \ {u} # {})
  BY <1>4, <1>5 DEF IInv, CountHolds, OthersRemain
<1>7. Admins \ {u} \subseteq Admins'
  BY <1>3, <1>4, <1>6 DEF DemoteCommit, DeleteCommit, Admins, IInv, TypeOK
<1>8. u \in admin
  BY <1>7 DEF Admins
<1>9. tx[w].stale
  BY <1>6, <1>7, <1>8
<1>10. tx'[w] = Idle
  <2>1. tx \in [Worker -> Tx]
    BY DEF IInv, TypeOK
  <2>2. Committed(w, u)[w] = Idle /\ Committed(w, u) \in [Worker -> Tx]
    BY <2>1, CommittedType
  <2>3. PICK W : tx' = Outdated(Committed(w, u), W) /\ w \notin W
    BY <1>3, <1>4, <1>5 DEF DemoteCommit, DeleteCommit, Counted
  <2> QED
    BY <2>2, <2>3 DEF Outdated
<1> QED
  BY <1>5, <1>9, <1>10

(* Demotions and deletions cannot take away the last administrator unless  *)
(* one counted before another administrator was lost (update_user,         *)
(* delete_user).                                                           *)
THEOREM LastAdminStays == Spec => AdminKept
<1>1. IInv /\ [Next]_vars =>
        [Admins # {} /\ Admins' = {} =>
           \E w \in Worker : /\ tx[w].op \in {"demote", "deleting"} /\ tx[w].stale
                             /\ tx'[w] = Idle]_vars
  BY AdminStep
<1> QED
  BY <1>1, InitInv, NextInv, PTL DEF Spec, AdminKept

-----------------------------------------------------------------------------
(***************************************************************************)
(* Lists.                                                                  *)
(***************************************************************************)

(* What was given is not after the cursor, which is a cut.                 *)
Cursor ==
  /\ reader.at = "new" => listed = {} /\ steady = {}
  /\ reader.at = "paging" => reader.ts \in cuts /\ \A r \in listed : ts[r] >= reader.ts

ListInv == ListTypeOK /\ StablePages /\ Cursor

-----------------------------------------------------------------------------
(* Pages.                                                                  *)

(* Rows left off a page are no newer than those on it.                     *)
LEMMA RestIsOlder ==
  ASSUME ts \in [Row -> 0..MaxTime], NEW S \in SUBSET Row,
         NEW r \in S \ Page(S), NEW l \in Page(S)
  PROVE  ts[r] <= ts[l]
<1> DEFINE N(y) == {x \in S : Newer(x, y)}
<1>1. SUFFICES ASSUME ts[r] > ts[l] PROVE FALSE
  BY MaxTimeAssumption DEF Page
<1>2. r \in Row /\ l \in Row /\ l \in S
  BY DEF Page
<1>3. N(r) \subseteq N(l)
  <2>1. SUFFICES ASSUME NEW x \in S, Newer(x, r) PROVE Newer(x, l)
    OBVIOUS
  <2>2. ts[x] \in Int /\ ts[r] \in Int /\ ts[l] \in Int
    BY <1>2, MaxTimeAssumption
  <2> QED
    BY <1>1, <2>1, <2>2 DEF Newer
<1>4. IsFiniteSet(N(l)) /\ IsFiniteSet(N(r))
  BY RowsAreOrdered, FS_Subset
<1>5. Cardinality(N(r)) <= Cardinality(N(l))
  BY <1>3, <1>4, FS_Subset
<1>6. Cardinality(N(r)) \in Nat /\ Cardinality(N(l)) \in Nat
  BY <1>4, FS_CardinalityType
<1>7. Cardinality(N(l)) < Limit
  BY DEF Page
<1>8. ~(Cardinality(N(r)) < Limit)
  BY DEF Page
<1> QED
  BY <1>5, <1>6, <1>7, <1>8, LimitAssumption

(* A set that fits is its own page.                                        *)
LEMMA LastPageIsAll ==
  ASSUME ts \in [Row -> 0..MaxTime], NEW S \in SUBSET Row, ~More(S)
  PROVE  Page(S) = S
<1>1. SUFFICES ASSUME NEW r \in S PROVE Cardinality({x \in S : Newer(x, r)}) < Limit
  BY DEF Page
<1> DEFINE N == {x \in S : Newer(x, r)}
<1>2. IsFiniteSet(S) /\ IsFiniteSet(N)
  BY RowsAreOrdered, FS_Subset
<1>3. N \subseteq S /\ N # S
  BY RowsAreOrdered, MaxTimeAssumption DEF Newer
<1>4. Cardinality(N) < Cardinality(S)
  <2>1. Cardinality(N) <= Cardinality(S) /\ Cardinality(N) # Cardinality(S)
    BY <1>2, <1>3, FS_Subset
  <2> QED
    BY <2>1, <1>2, FS_CardinalityType
<1>5. Cardinality(S) \in Nat /\ Cardinality(N) \in Nat
  BY <1>2, FS_CardinalityType
<1> QED
  BY <1>4, <1>5, LimitAssumption DEF More

(* What turning one page does to the reader.                               *)
LEMMA TurnDoes ==
  ASSUME ListTypeOK, NEW S \in SUBSET match, Turn(S), UNCHANGED ts
  PROVE  /\ listed' = listed \cup Page(S) /\ Page(S) \subseteq S
         /\ again' = again \cup (listed \cap Page(S))
         /\ cuts \subseteq cuts' /\ cuts' \in SUBSET (1..MaxTime)
         /\ reader' \in [at : {"new", "paging", "done"}, ts : 0..MaxTime, id : Row \cup {0}]
         /\ reader'.at \in {"paging", "done"}
         /\ reader'.at = "paging" =>
              reader'.ts \in cuts' /\ \A r \in Page(S) : ts[r] >= reader'.ts
         /\ \A r \in S \ Page(S) : reader'.at = "paging" /\ ts[r] <= reader'.ts
<1>1. Page(S) \subseteq S /\ S \subseteq Row /\ S \subseteq There
  BY DEF Page, ListTypeOK
<1>2. listed' = listed \cup Page(S) /\ again' = again \cup (listed \cap Page(S))
  BY DEF Turn
<1>3. CASE More(S)
  <2>1. PICK last \in Page(S) :
          /\ \A x \in Page(S) \ {last} : Newer(x, last)
          /\ reader' = [at |-> "paging", ts |-> ts[last], id |-> last]
          /\ cuts' = cuts \cup {ts[last]}
    BY <1>3 DEF Turn, CursorOf
  <2>2. last \in Row /\ ts[last] \in 1..MaxTime
    BY <1>1, MaxTimeAssumption DEF ListTypeOK, There
  <2>3. \A r \in Page(S) : ts[r] >= ts[last]
    BY <1>1, <2>1, <2>2, MaxTimeAssumption DEF Newer, ListTypeOK
  <2>4. \A r \in S \ Page(S) : ts[r] <= ts[last]
    BY <1>1, RestIsOlder DEF ListTypeOK
  <2> QED
    BY <1>1, <1>2, <2>1, <2>2, <2>3, <2>4 DEF ListTypeOK
<1>4. CASE ~More(S)
  <2>1. reader' = [reader EXCEPT !.at = "done"] /\ cuts' = cuts
    BY <1>4 DEF Turn
  <2>2. Page(S) = S
    BY <1>1, <1>4, LastPageIsAll DEF ListTypeOK
  <2> QED
    BY <1>1, <1>2, <2>1, <2>2 DEF ListTypeOK
<1> QED
  BY <1>3, <1>4

-----------------------------------------------------------------------------
LEMMA ListInitInv == ListInit => ListInv
BY MaxTimeAssumption DEF ListInit, ListInv, ListTypeOK, There, StablePages, Passed, Cursor

LEMMA FirstPageInv == ASSUME ListInv, FirstPage PROVE ListInv'
<1>1. reader.at = "new" /\ listed = {} /\ again = {}
  BY DEF FirstPage, ListInv, Cursor, StablePages
<1>2. ListTypeOK /\ match \in SUBSET match /\ Turn(match)
  BY DEF FirstPage, ListInv
<1>3. ts' = ts /\ clock' = clock /\ match' = match /\ steady' = match
  BY DEF FirstPage
<1>4. ListTypeOK'
  BY <1>2, <1>3, TurnDoes DEF ListTypeOK, There
<1>5. StablePages'
  <2>1. again' = {}
    BY <1>1, <1>2, <1>3, TurnDoes
  <2>2. ASSUME NEW r \in steady', r \in Passed' PROVE r \in listed' \/ ts'[r] \in cuts'
    <3>1. CASE r \in Page(match)
      BY <1>2, <1>3, <3>1, TurnDoes
    <3>2. CASE r \notin Page(match)
      <4>1. reader'.at = "paging" /\ ts[r] <= reader'.ts /\ reader'.ts \in cuts'
        BY <1>2, <1>3, <2>2, <3>2, TurnDoes
      <4>2. ts[r] >= reader'.ts
        BY <1>3, <2>2, <4>1 DEF Passed
      <4>3. ts[r] \in Nat /\ reader'.ts \in Nat
        BY <1>2, <1>3, <1>4, <2>2, MaxTimeAssumption DEF ListTypeOK
      <4> QED
        BY <1>3, <4>1, <4>2, <4>3
    <3> QED
      BY <3>1, <3>2
  <2> QED
    BY <2>1, <2>2 DEF StablePages
<1>6. Cursor'
  BY <1>1, <1>2, <1>3, TurnDoes DEF Cursor
<1> QED
  BY <1>4, <1>5, <1>6 DEF ListInv

LEMMA NextPageInv == ASSUME ListInv, NextPage PROVE ListInv'
<1> DEFINE S == After(reader)
<1>1. reader.at = "paging" /\ again = {} /\ reader.ts \in cuts
      /\ \A r \in listed : ts[r] >= reader.ts
  BY DEF NextPage, ListInv, Cursor, StablePages
<1>2. ListTypeOK /\ S \in SUBSET match /\ Turn(S)
  BY DEF NextPage, ListInv, After
<1>3. ts' = ts /\ clock' = clock /\ match' = match /\ steady' = steady
  BY DEF NextPage
<1>4. ListTypeOK'
  BY <1>2, <1>3, TurnDoes DEF ListTypeOK, There
<1>5. \A r \in Row : ts[r] \in Nat
  BY <1>2, MaxTimeAssumption DEF ListTypeOK
<1>6. reader.ts \in Nat /\ reader'.ts \in Nat
  BY <1>2, <1>4, MaxTimeAssumption DEF ListTypeOK
<1>7. listed \cap S = {} /\ listed \subseteq Row
  BY <1>1, <1>2, <1>5, <1>6 DEF After, ListTypeOK
<1>8. StablePages'
  <2>1. again' = {}
    BY <1>1, <1>2, <1>3, <1>7, TurnDoes
  <2>2. ASSUME NEW r \in steady', r \in Passed' PROVE r \in listed' \/ ts'[r] \in cuts'
    <3>1. r \in steady /\ r \in match /\ r \in Row /\ r \in There
      BY <1>2, <1>3, <2>2 DEF ListTypeOK
    <3>2. CASE ts[r] >= reader.ts
      <4>1. r \in listed \/ ts[r] \in cuts
        BY <1>1, <1>2, <3>1, <3>2 DEF NextPage, ListInv, StablePages, Passed
      <4> QED
        BY <1>2, <1>3, <4>1, TurnDoes
    <3>3. CASE ~(ts[r] >= reader.ts) /\ r \in Page(S)
      BY <1>2, <1>3, <3>3, TurnDoes
    <3>4. CASE ~(ts[r] >= reader.ts) /\ r \notin Page(S)
      <4>1. r \in S \ Page(S)
        BY <1>5, <1>6, <3>1, <3>4 DEF After
      <4>2. reader'.at = "paging" /\ ts[r] <= reader'.ts /\ reader'.ts \in cuts'
        BY <1>2, <1>3, <4>1, TurnDoes
      <4>3. ts[r] >= reader'.ts
        BY <1>3, <2>2, <4>2 DEF Passed
      <4> QED
        BY <1>3, <1>5, <1>6, <3>1, <4>2, <4>3
    <3> QED
      BY <3>2, <3>3, <3>4
  <2> QED
    BY <2>1, <2>2 DEF StablePages
<1>9. Cursor'
  <2>1. reader'.at # "new" /\ listed' = listed \cup Page(S) /\ Page(S) \subseteq S
    BY <1>2, <1>3, TurnDoes
  <2>2. ASSUME reader'.at = "paging", NEW r \in listed'
        PROVE  reader'.ts \in cuts' /\ ts'[r] >= reader'.ts
    <3>1. reader'.ts \in cuts' /\ \A x \in Page(S) : ts[x] >= reader'.ts
      BY <1>2, <1>3, <2>2, TurnDoes
    <3>2. CASE r \in Page(S)
      BY <1>3, <3>1, <3>2
    <3>3. CASE r \in listed
      <4>1. PICK last \in Page(S) : reader'.ts = ts[last]
        <5>1. CASE More(S)
          BY <1>2, <5>1 DEF Turn, CursorOf
        <5>2. CASE ~More(S)
          BY <1>2, <2>2, <5>2 DEF Turn, ListTypeOK
        <5> QED
          BY <5>1, <5>2
      <4>2. last \in Row /\ ts[last] < reader.ts
        BY <1>2, <2>1, <4>1 DEF After, ListTypeOK
      <4> QED
        BY <1>1, <1>3, <1>5, <1>6, <1>7, <3>1, <3>3, <4>1, <4>2
    <3> QED
      BY <2>1, <2>2, <3>2, <3>3
  <2>3. reader'.at = "paging" => reader'.ts \in cuts'
    BY <1>2, <1>3, TurnDoes
  <2> QED
    BY <2>1, <2>2, <2>3 DEF Cursor
<1> QED
  BY <1>4, <1>8, <1>9 DEF ListInv

(* What happens between pages.                                             *)
LEMMA RowsInv ==
  ASSUME ListInv,
         \/ Tick
         \/ \E r \in Row : \/ \E t \in 1..MaxTime, shown \in BOOLEAN : Insert(r, t, shown)
                           \/ Show(r) \/ Hide(r)
  PROVE  ListInv'
<1>1. CASE Tick
  BY <1>1, MaxTimeAssumption DEF Tick, ListInv, ListTypeOK, There, StablePages, Passed, Cursor
<1>2. ASSUME NEW r \in Row, NEW t \in 1..MaxTime, NEW shown \in BOOLEAN, Insert(r, t, shown)
      PROVE  ListInv'
  <2>1. /\ ts[r] = 0 /\ ts' = [ts EXCEPT ![r] = t] /\ match \subseteq match'
        /\ match' \subseteq match \cup {r}
        /\ clock' = clock /\ reader' = reader /\ listed' = listed /\ again' = again
        /\ steady' = steady /\ cuts' = cuts
    BY <1>2 DEF Insert
  <2>2. There' = There \cup {r} /\ r \notin There /\ ts' \in [Row -> 0..MaxTime]
    BY <2>1, MaxTimeAssumption DEF There, ListInv, ListTypeOK
  <2>3. ListTypeOK'
    BY <2>1, <2>2 DEF ListInv, ListTypeOK
  <2>4. \A x \in There : x # r /\ ts'[x] = ts[x]
    BY <2>1, <2>2 DEF There, ListInv, ListTypeOK
  <2>5. listed \subseteq There /\ steady \subseteq There
    BY DEF ListInv, ListTypeOK
  <2>6. \A x \in There : x \in Passed' => x \in Passed
    <3>1. reader.at \in {"new", "paging", "done"}
      BY DEF ListInv, ListTypeOK
    <3> QED
      BY <2>1, <2>2, <2>4, <3>1 DEF Passed
  <2>7. StablePages'
    BY <2>1, <2>4, <2>5, <2>6 DEF ListInv, StablePages
  <2>8. Cursor'
    BY <2>1, <2>4, <2>5 DEF ListInv, Cursor
  <2> QED
    BY <2>3, <2>7, <2>8 DEF ListInv
<1>3. ASSUME NEW r \in Row, Show(r) PROVE ListInv'
  BY <1>3 DEF Show, ListInv, ListTypeOK, There, StablePages, Passed, Cursor
<1>4. ASSUME NEW r \in Row, Hide(r) PROVE ListInv'
  BY <1>4 DEF Hide, ListInv, ListTypeOK, There, StablePages, Passed, Cursor
<1> QED
  BY <1>1, <1>2, <1>3, <1>4

LEMMA ListNextInv == ListInv /\ [ListNext]_listVars => ListInv'
<1>1. ASSUME ListInv, UNCHANGED listVars PROVE ListInv'
  BY <1>1 DEF listVars, ListInv, ListTypeOK, There, StablePages, Passed, Cursor
<1> QED
  BY <1>1, FirstPageInv, NextPageInv, RowsInv DEF ListNext

-----------------------------------------------------------------------------
(* What core/pagination.py makes of the four lists, for every number of    *)
(* rows and every page size: a reader is given no row twice, and misses a  *)
(* row that was there all along only if it shares its time with the last   *)
(* row of a page.                                                          *)
THEOREM PagesAreStable == ListSpec => []StablePages
<1>1. ListInv => StablePages
  BY DEF ListInv
<1> QED
  BY <1>1, ListInitInv, ListNextInv, PTL DEF ListSpec
=============================================================================
