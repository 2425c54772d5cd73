--------------------------- MODULE Teams_proofs ---------------------------
(* Machine-checked proofs about Teams, for any number of users, teams,     *)
(* hosts and requests.                                                     *)
EXTENDS Teams, TLAPS

(* What a request knows: the rows it is about, and what it read unless     *)
(* that has changed and the request is marked.                             *)
Member(r) ==
  r.op \in {"demote", "remove"} =>
    /\ r.on \in Team /\ r.who \in User /\ role[r.on][r.who] # "none"
    /\ IsAdmin(r.on, r.who) => r.stale \/ OthersRemain(r.on, r.who)
Deletion(r) ==
  r.op = "delete" => r.on \in Team /\ team[r.on] = "live" /\ (r.stale \/ ~OwnsActive(r.on))
Change(r) ==
  r.op \in HostOp =>
    r.on \in Host /\ r.who \in Owner /\ (r.stale \/ host[r.on] # "decommissioned")

IInv ==
  /\ TypeOK
  /\ \A w \in Worker : Member(tx[w]) /\ Deletion(tx[w]) /\ Change(tx[w])

-----------------------------------------------------------------------------
LEMMA IdleType == Idle \in Tx /\ Idle.op = "idle"
BY DEF Idle, Tx, Scope

LEMMA IdleKnows == ASSUME NEW r, r.op = "idle" PROVE Member(r) /\ Deletion(r) /\ Change(r)
BY DEF Member, Deletion, Change, HostOp

LEMMA AtType ==
  ASSUME NEW op \in Scope \cup TeamOp \cup HostOp, NEW on \in Team \cup Host \cup {None},
         NEW who \in Owner \cup {None}
  PROVE  /\ At(op, on, who) \in Tx
         /\ At(op, on, who).op = op /\ At(op, on, who).on = on
         /\ At(op, on, who).who = who /\ At(op, on, who).stale = FALSE
BY DEF At, Tx

(* What a commit leaves of the other requests.                             *)
LEMMA DoneType ==
  ASSUME tx \in [Worker -> Tx], NEW w \in Worker, NEW F, NEW S, NEW t, t = Done(w, F, S)
  PROVE  /\ t \in [Worker -> Tx]
         /\ t[w] = Idle
         /\ \A v \in Worker :
              \/ t[v].op = "idle"
              \/ /\ v # w /\ v \notin F
                 /\ t[v].op = tx[v].op /\ t[v].on = tx[v].on /\ t[v].who = tx[v].who
                 /\ t[v].stale = (tx[v].stale \/ v \in S)
<1>1. ASSUME NEW v \in Worker
      PROVE  /\ t[v] \in Tx
             /\ \/ t[v].op = "idle"
                \/ /\ v # w /\ v \notin F
                   /\ t[v].op = tx[v].op /\ t[v].on = tx[v].on /\ t[v].who = tx[v].who
                   /\ t[v].stale = (tx[v].stale \/ v \in S)
  BY IdleType DEF Done, Tx
<1> HIDE DEF Tx
<1> QED
  BY <1>1 DEF Done

LEMMA InitInv == Init => IInv
<1> SUFFICES ASSUME Init PROVE IInv
  OBVIOUS
<1>1. tx \in [Worker -> Tx] /\ \A w \in Worker : tx[w].op = "idle"
  <2> HIDE DEF Tx
  <2> QED
    BY IdleType DEF Init
<1>2. TypeOK
  BY <1>1 DEF Init, TypeOK
<1> QED
  BY <1>1, <1>2, IdleKnows DEF IInv

(* A step that moves one request only.                                     *)
LEMMA ReadInv ==
  ASSUME IInv, NEW w \in Worker, NEW r \in Tx, tx' = [tx EXCEPT ![w] = r],
         UNCHANGED <<team, role, gone, host, owns>>,
         Member(r), Deletion(r), Change(r)
  PROVE  IInv'
<1> HIDE DEF Tx
<1>1. \A v \in Worker : tx'[v] = IF v = w THEN r ELSE tx[v]
  BY DEF IInv, TypeOK
<1>2. TypeOK'
  BY DEF IInv, TypeOK
<1>3. \A v \in Worker : Member(tx'[v]) /\ Deletion(tx'[v]) /\ Change(tx'[v])
  BY <1>1 DEF IInv
<1>4. \A v \in Worker : Member(tx[v])' /\ Deletion(tx[v])' /\ Change(tx[v])'
  BY <1>3 DEF Member, Deletion, Change, IsAdmin, OthersRemain, OwnsActive
<1> QED
  BY <1>2, <1>4 DEF IInv

LEMMA ReadsInv ==
  ASSUME IInv, NEW w \in Worker,
         \/ Rollback(w)
         \/ \E u \in User : AskOrg(w, u) \/ (\E t \in Team : AskTeam(w, u, t))
                            \/ (\E h \in Host : AskHost(w, u, h))
         \/ \E t \in Team, u \in User : DemoteRead(w, t, u) \/ RemoveRead(w, t, u)
         \/ \E t \in Team : DeleteRead(w, t)
         \/ \E h \in Host, o \in Owner : GiveRead(w, h, o) \/ TakeRead(w, h, o)
  PROVE  IInv'
<1> HIDE DEF Tx
<1>1. CASE Rollback(w)
  BY <1>1, IdleType, IdleKnows, ReadInv DEF Rollback
<1>2. ASSUME NEW op \in {"org", "team", "host"}, NEW on \in Team \cup Host \cup {None},
             tx' = [tx EXCEPT ![w] = At(op, on, None)],
             UNCHANGED <<team, role, gone, host, owns>>
      PROVE  IInv'
  <2>1. At(op, on, None) \in Tx /\ At(op, on, None).op = op
    <3>1. op \in Scope \cup TeamOp \cup HostOp /\ None \in Owner \cup {None}
      BY DEF Scope
    <3>2. At(op, on, None) \in Tx
      BY <3>1, AtType, ZenonT(30)
    <3> QED
      BY <3>2 DEF At
  <2>2. \A r : r.op = op => Member(r) /\ Deletion(r) /\ Change(r)
    BY DEF Member, Deletion, Change, HostOp
  <2> QED
    BY <1>2, <2>1, <2>2, ReadInv
<1>3. ASSUME NEW t \in Team, NEW u \in User, DemoteRead(w, t, u) \/ RemoveRead(w, t, u)
      PROVE  IInv'
  <2>1. PICK op \in {"demote", "remove"} : tx' = [tx EXCEPT ![w] = At(op, t, u)]
    BY <1>3 DEF DemoteRead, RemoveRead
  <2>2. /\ At(op, t, u) \in Tx
        /\ At(op, t, u).op = op /\ At(op, t, u).on = t /\ At(op, t, u).who = u
    <3>1. /\ op \in Scope \cup TeamOp \cup HostOp
          /\ t \in Team \cup Host \cup {None}
          /\ u \in Owner \cup {None}
      BY DEF TeamOp, Owner
    <3>2. At(op, t, u) \in Tx
      BY <3>1, AtType
    <3> QED
      BY <3>2 DEF At
  <2>3. role[t][u] # "none" /\ (IsAdmin(t, u) => OthersRemain(t, u))
    BY <1>3 DEF DemoteRead, RemoveRead, IsAdmin
  <2>4. UNCHANGED <<team, role, gone, host, owns>>
    BY <1>3 DEF DemoteRead, RemoveRead
  <2>5. Member(At(op, t, u)) /\ Deletion(At(op, t, u)) /\ Change(At(op, t, u))
    BY <2>2, <2>3 DEF Member, Deletion, Change, HostOp
  <2> QED
    BY <2>1, <2>2, <2>4, <2>5, ReadInv
<1>4. ASSUME NEW t \in Team, DeleteRead(w, t) PROVE IInv'
  <2>1. /\ At("delete", t, None) \in Tx
        /\ At("delete", t, None).op = "delete" /\ At("delete", t, None).on = t
    <3>1. /\ "delete" \in Scope \cup TeamOp \cup HostOp
          /\ t \in Team \cup Host \cup {None}
          /\ None \in Owner \cup {None}
      BY DEF TeamOp
    <3>2. At("delete", t, None) \in Tx
      BY <3>1, AtType
    <3> QED
      BY <3>2 DEF At
  <2>2. Member(At("delete", t, None)) /\ Deletion(At("delete", t, None))
        /\ Change(At("delete", t, None))
    BY <1>4, <2>1 DEF Member, Deletion, Change, HostOp, DeleteRead
  <2> QED
    BY <1>4, <2>1, <2>2, ReadInv DEF DeleteRead
<1>5. ASSUME NEW h \in Host, NEW o \in Owner, GiveRead(w, h, o) \/ TakeRead(w, h, o)
      PROVE  IInv'
  <2>1. PICK op \in {"give", "take"} : tx' = [tx EXCEPT ![w] = At(op, h, o)]
    BY <1>5 DEF GiveRead, TakeRead
  <2>2. /\ At(op, h, o) \in Tx
        /\ At(op, h, o).op = op /\ At(op, h, o).on = h /\ At(op, h, o).who = o
    <3>1. /\ op \in Scope \cup TeamOp \cup HostOp
          /\ h \in Team \cup Host \cup {None}
          /\ o \in Owner \cup {None}
      BY DEF HostOp, Owner
    <3>2. At(op, h, o) \in Tx
      BY <3>1, AtType
    <3> QED
      BY <3>2 DEF At
  <2>3. host[h] = "active" /\ UNCHANGED <<team, role, gone, host, owns>>
    BY <1>5 DEF GiveRead, TakeRead
  <2>4. Member(At(op, h, o)) /\ Deletion(At(op, h, o)) /\ Change(At(op, h, o))
    BY <2>2, <2>3 DEF Member, Deletion, Change
  <2> QED
    BY <2>1, <2>2, <2>3, <2>4, ReadInv
<1> QED
  BY <1>1, <1>2, <1>3, <1>4, <1>5 DEF AskOrg, AskTeam, AskHost

(* The tables, without the requests.                                       *)
RowsOK ==
  /\ team \in [Team -> {"absent", "live", "deleted"}]
  /\ role \in [Team -> [User -> {"none", "member", "admin"}]]
  /\ gone \in SUBSET User
  /\ host \in [Host -> {"active", "decommissioned", "deleted"}]
  /\ owns \in SUBSET (Host \X Owner)
  /\ \A t \in Team, u \in User : role[t][u] # "none" => team[t] = "live"
  /\ \A x \in owns : host[x[1]] # "deleted" /\ (x[2] \in Team => team[x[2]] = "live")

(* A commit: what every other request knows must hold of the new tables.   *)
LEMMA CommitInv ==
  ASSUME IInv, NEW w \in Worker, NEW F, NEW S, tx' = Done(w, F, S), RowsOK',
         \A v \in Worker \ {w} : v \notin F /\ tx[v].op \in {"demote", "remove"} =>
           /\ role'[tx[v].on][tx[v].who] # "none"
           /\ role'[tx[v].on][tx[v].who] = "admin" =>
                \/ tx[v].stale \/ v \in S
                \/ \E x \in User \ {tx[v].who} : role'[tx[v].on][x] = "admin",
         \A v \in Worker \ {w} : v \notin F /\ tx[v].op = "delete" =>
           /\ team'[tx[v].on] = "live"
           /\ \/ tx[v].stale \/ v \in S
              \/ \A h \in Host : ~(<<h, tx[v].on>> \in owns' /\ host'[h] = "active"),
         \A v \in Worker \ {w} : v \notin F /\ tx[v].op \in HostOp =>
           tx[v].stale \/ v \in S \/ host'[tx[v].on] # "decommissioned"
  PROVE  IInv'
<1> HIDE DEF Tx
<1> PICK t : t = Done(w, F, S)
  OBVIOUS
<1>1. /\ t \in [Worker -> Tx]
      /\ t[w] = Idle
      /\ \A v \in Worker :
           \/ t[v].op = "idle"
           \/ /\ v # w /\ v \notin F
              /\ t[v].op = tx[v].op /\ t[v].on = tx[v].on /\ t[v].who = tx[v].who
              /\ t[v].stale = (tx[v].stale \/ v \in S)
  BY DoneType DEF IInv, TypeOK
<1>2. TypeOK'
  BY <1>1 DEF RowsOK, TypeOK
<1>3. ASSUME NEW v \in Worker PROVE Member(t[v])' /\ Deletion(t[v])' /\ Change(t[v])'
  <2>1. CASE t[v].op = "idle"
    BY <2>1 DEF Member, Deletion, Change, HostOp
  <2>2. CASE t[v].op # "idle"
    <3>1. /\ v # w /\ v \notin F
          /\ t[v].op = tx[v].op /\ t[v].on = tx[v].on /\ t[v].who = tx[v].who
          /\ t[v].stale = (tx[v].stale \/ v \in S)
      BY <1>1, <2>2
    <3>2. Member(tx[v]) /\ Deletion(tx[v]) /\ Change(tx[v])
      BY DEF IInv
    <3>3. Member(t[v])'
      <4> SUFFICES ASSUME t[v].op \in {"demote", "remove"}
                   PROVE  /\ t[v].on \in Team /\ t[v].who \in User
                          /\ role'[t[v].on][t[v].who] # "none"
                          /\ role'[t[v].on][t[v].who] = "admin" =>
                               t[v].stale \/ OthersRemain(t[v].on, t[v].who)'
        BY DEF Member, IsAdmin
      <4>1. t[v].on \in Team /\ t[v].who \in User
        BY <3>1, <3>2 DEF Member
      <4>2. (\E x \in User \ {t[v].who} : role'[t[v].on][x] = "admin")
            => OthersRemain(t[v].on, t[v].who)'
        BY DEF OthersRemain, IsAdmin
      <4>3. v \in Worker \ {w} /\ v \notin F /\ tx[v].op \in {"demote", "remove"}
        BY <3>1
      <4>4. /\ role'[tx[v].on][tx[v].who] # "none"
            /\ role'[tx[v].on][tx[v].who] = "admin" =>
                 \/ tx[v].stale \/ v \in S
                 \/ \E x \in User \ {tx[v].who} : role'[tx[v].on][x] = "admin"
        BY <4>3
      <4>5. tx[v].on = t[v].on /\ tx[v].who = t[v].who /\ (tx[v].stale \/ v \in S => t[v].stale)
        BY <3>1
      <4> QED
        BY <4>1, <4>2, <4>4, <4>5, Zenon
    <3>4. Deletion(t[v])'
      BY <3>1, <3>2 DEF Deletion, OwnsActive
    <3>5. Change(t[v])'
      BY <3>1, <3>2 DEF Change
    <3> QED
      BY <3>3, <3>4, <3>5
  <2> QED
    BY <2>1, <2>2
<1>4. tx' = t
  OBVIOUS
<1> QED
  BY <1>2, <1>3, <1>4 DEF IInv, Member, Deletion, Change

(* What a request knows, when the rows it is about are left alone.         *)
LEMMA MemberKept ==
  ASSUME IInv, UNCHANGED role, NEW v \in Worker, tx[v].op \in {"demote", "remove"}
  PROVE  /\ role'[tx[v].on][tx[v].who] # "none"
         /\ role'[tx[v].on][tx[v].who] = "admin" =>
              \/ tx[v].stale
              \/ \E x \in User \ {tx[v].who} : role'[tx[v].on][x] = "admin"
BY DEF IInv, Member, IsAdmin, OthersRemain

LEMMA DeletionKept ==
  ASSUME IInv, UNCHANGED <<team, host, owns>>, NEW v \in Worker, tx[v].op = "delete"
  PROVE  /\ team'[tx[v].on] = "live"
         /\ \/ tx[v].stale
            \/ \A y \in Host : ~(<<y, tx[v].on>> \in owns' /\ host'[y] = "active")
BY DEF IInv, Deletion, OwnsActive

LEMMA ChangeKept ==
  ASSUME IInv, UNCHANGED host, NEW v \in Worker, tx[v].op \in HostOp
  PROVE  tx[v].stale \/ host'[tx[v].on] # "decommissioned"
BY DEF IInv, Change

LEMMA CreateInv ==
  ASSUME IInv, NEW w \in Worker, NEW t \in Team, CreateTeam(w, t) PROVE IInv'
<1> HIDE DEF Tx
<1>1. /\ team[t] = "absent" /\ team' = [team EXCEPT ![t] = "live"]
      /\ tx' = Done(w, {}, {}) /\ UNCHANGED <<role, gone, host, owns>>
  BY DEF CreateTeam
<1>2. \A x \in Team : team[x] = "live" => team'[x] = "live"
  BY <1>1 DEF IInv, TypeOK
<1>3. RowsOK'
  BY <1>1, <1>2 DEF RowsOK, IInv, TypeOK
<1>4. \A v \in Worker : tx[v].op = "delete" =>
        /\ team'[tx[v].on] = "live"
        /\ \/ tx[v].stale
           \/ \A y \in Host : ~(<<y, tx[v].on>> \in owns' /\ host'[y] = "active")
  BY <1>1, <1>2 DEF IInv, Deletion, OwnsActive
<1> QED
  BY <1>1, <1>3, <1>4, MemberKept, ChangeKept, CommitInv, SMTT(30)

LEMMA UpdateInv ==
  ASSUME IInv, NEW w \in Worker, NEW t \in Team, UpdateTeam(w, t) PROVE IInv'
<1> HIDE DEF Tx
<1>1. /\ tx' = Done(w, Doing({"delete"}, t), {}) /\ UNCHANGED <<team, role, gone, host, owns>>
  BY DEF UpdateTeam
<1>2. RowsOK'
  BY <1>1 DEF RowsOK, IInv, TypeOK
<1> QED
  BY <1>1, <1>2, MemberKept, DeletionKept, ChangeKept, CommitInv, SMTT(30)

LEMMA AddInv ==
  ASSUME IInv, NEW w \in Worker, NEW t \in Team, NEW u \in User,
         NEW r \in {"member", "admin"}, AddMember(w, t, u, r)
  PROVE  IInv'
<1> HIDE DEF Tx
<1>1. /\ team[t] = "live" /\ role[t][u] = "none" /\ role' = [role EXCEPT ![t][u] = r]
      /\ tx' = Done(w, {}, {}) /\ UNCHANGED <<team, gone, host, owns>>
  BY DEF AddMember
<1>2. \A x \in Team, y \in User : role'[x][y] = IF x = t /\ y = u THEN r ELSE role[x][y]
  BY <1>1 DEF IInv, TypeOK
<1>3. RowsOK'
  BY <1>1, <1>2 DEF RowsOK, IInv, TypeOK
<1>4. ASSUME NEW v \in Worker, tx[v].op \in {"demote", "remove"}
      PROVE  /\ role'[tx[v].on][tx[v].who] = role[tx[v].on][tx[v].who]
             /\ Member(tx[v]) /\ tx[v].on \in Team /\ tx[v].who \in User
             /\ \A x \in User : IsAdmin(tx[v].on, x) => role'[tx[v].on][x] = "admin"
  BY <1>1, <1>2, <1>4 DEF IInv, Member, IsAdmin
<1>5. ASSUME NEW v \in Worker, tx[v].op \in {"demote", "remove"}
      PROVE  /\ role'[tx[v].on][tx[v].who] # "none"
             /\ role'[tx[v].on][tx[v].who] = "admin" =>
                  \/ tx[v].stale
                  \/ \E x \in User \ {tx[v].who} : role'[tx[v].on][x] = "admin"
  BY <1>4, <1>5 DEF Member, IsAdmin, OthersRemain
<1> QED
  BY <1>1, <1>3, <1>5, DeletionKept, ChangeKept, CommitInv, SMTT(30)

(* A change of u's role: who counted u, or read u as a member, is marked.  *)
LEMMA RoleInv ==
  ASSUME IInv, NEW w \in Worker, NEW t \in Team, NEW u \in User,
         NEW r \in {"none", "member", "admin"}, NEW F, NEW S,
         role' \in [Team -> [User -> {"none", "member", "admin"}]],
         \A x \in Team, y \in User :
           role'[x][y] = IF x = t /\ y = u THEN r ELSE role[x][y],
         tx' = Done(w, F, S),
         UNCHANGED <<team, gone, host, owns>>,
         r # "none" => role[t][u] # "none",
         \A v \in Worker \ {w} :
           tx[v].op \in {"demote", "remove"} /\ tx[v].on = t =>
             /\ tx[v].who = u => v \in F \/ r = "member" \/ (r = "admin" /\ v \in S)
             /\ tx[v].who # u => r = "admin" \/ ~IsAdmin(t, u) \/ v \in S
  PROVE  IInv'
<1> HIDE DEF Tx
<1>1. \A x \in Team, y \in User : role'[x][y] = IF x = t /\ y = u THEN r ELSE role[x][y]
  OBVIOUS
<1>2. RowsOK'
  BY <1>1 DEF RowsOK, IInv, TypeOK
<1>3. ASSUME NEW v \in Worker \ {w}, v \notin F, tx[v].op \in {"demote", "remove"}
      PROVE  /\ role'[tx[v].on][tx[v].who] # "none"
             /\ role'[tx[v].on][tx[v].who] = "admin" =>
                  \/ tx[v].stale \/ v \in S
                  \/ \E x \in User \ {tx[v].who} : role'[tx[v].on][x] = "admin"
  <2>1. /\ tx[v].on \in Team /\ tx[v].who \in User /\ role[tx[v].on][tx[v].who] # "none"
        /\ role[tx[v].on][tx[v].who] = "admin" =>
             \/ tx[v].stale
             \/ \E x \in User \ {tx[v].who} : role[tx[v].on][x] = "admin"
    BY <1>3 DEF IInv, Member, IsAdmin, OthersRemain
  <2>2. CASE tx[v].on = t /\ tx[v].who = u
    BY <1>1, <1>3, <2>1, <2>2
  <2>3. CASE tx[v].on = t /\ tx[v].who # u /\ r # "admin" /\ IsAdmin(t, u)
    BY <1>1, <1>3, <2>1, <2>3
  <2>4. CASE tx[v].on # t \/ (tx[v].who # u /\ (r = "admin" \/ ~IsAdmin(t, u)))
    <3>1. role'[tx[v].on][tx[v].who] = role[tx[v].on][tx[v].who]
      BY <1>1, <2>1, <2>4
    <3>2. \A x \in User : role[tx[v].on][x] = "admin" => role'[tx[v].on][x] = "admin"
      BY <1>1, <2>1, <2>4 DEF IsAdmin
    <3> QED
      BY <2>1, <3>1, <3>2
  <2> QED
    BY <2>2, <2>3, <2>4
<1> QED
  BY <1>2, <1>3, DeletionKept, ChangeKept, CommitInv, SMTT(30)

LEMMA RolesInv ==
  ASSUME IInv, NEW w \in Worker,
         \/ \E t \in Team, u \in User : Promote(w, t, u)
         \/ DemoteCommit(w) \/ RemoveCommit(w)
  PROVE  IInv'
<1> HIDE DEF Tx
<1>1. ASSUME NEW t \in Team, NEW u \in User, Promote(w, t, u) PROVE IInv'
  <2> PICK S : S = Doing({"demote", "remove"}, t) \cap About(u)
    OBVIOUS
  <2>1. /\ role' = [role EXCEPT ![t][u] = "admin"] /\ tx' = Done(w, {}, S)
        /\ UNCHANGED <<team, gone, host, owns>> /\ role[t][u] # "none"
    BY <1>1 DEF Promote
  <2>2. \A v \in Worker \ {w} : tx[v].op \in {"demote", "remove"} /\ tx[v].on = t =>
          /\ tx[v].who = u => v \in {} \/ "admin" = "member" \/ ("admin" = "admin" /\ v \in S)
          /\ tx[v].who # u => "admin" = "admin" \/ ~IsAdmin(t, u) \/ v \in S
    BY DEF Doing, About
  <2>4. role' \in [Team -> [User -> {"none", "member", "admin"}]]
    BY <2>1 DEF IInv, TypeOK
  <2>5. \A x \in Team, y \in User :
          role'[x][y] = IF x = t /\ y = u THEN "admin" ELSE role[x][y]
    BY <2>1 DEF IInv, TypeOK
  <2> QED
    BY <2>1, <2>2, <2>4, <2>5, RoleInv, SMTT(30)
<1>2. ASSUME NEW t, NEW u, t = tx[w].on, u = tx[w].who, DemoteCommit(w) PROVE IInv'
  <2> PICK S : S = Counted(t, u)
    OBVIOUS
  <2>1. t \in Team /\ u \in User /\ role[t][u] # "none"
    BY <1>2 DEF IInv, Member, DemoteCommit
  <2>2. \A v \in Worker \ {w} : tx[v].op \in {"demote", "remove"} /\ tx[v].on = t =>
          /\ tx[v].who = u => v \in {} \/ "member" = "member" \/ ("member" = "admin" /\ v \in S)
          /\ tx[v].who # u => "member" = "admin" \/ ~IsAdmin(t, u) \/ v \in S
    BY DEF Doing, About, Counted
  <2>3. /\ role' = [role EXCEPT ![t][u] = "member"] /\ tx' = Done(w, {}, S)
        /\ UNCHANGED <<team, gone, host, owns>>
    BY <1>2 DEF DemoteCommit
  <2>4. role' \in [Team -> [User -> {"none", "member", "admin"}]]
    BY <2>1, <2>3 DEF IInv, TypeOK
  <2>5. \A x \in Team, y \in User :
          role'[x][y] = IF x = t /\ y = u THEN "member" ELSE role[x][y]
    BY <2>1, <2>3 DEF IInv, TypeOK
  <2> QED
    BY <2>1, <2>2, <2>3, <2>4, <2>5, RoleInv, SMTT(30)
<1>3. ASSUME NEW t, NEW u, t = tx[w].on, u = tx[w].who, RemoveCommit(w) PROVE IInv'
  <2> PICK F : F = Doing({"demote", "remove"}, t) \cap About(u)
    OBVIOUS
  <2> PICK S : S = Counted(t, u)
    OBVIOUS
  <2> PICK r \in {"none", "member", "admin"} : r = "none"
    OBVIOUS
  <2>1. t \in Team /\ u \in User
    BY <1>3 DEF IInv, Member, RemoveCommit
  <2>2. \A v \in Worker \ {w} : tx[v].op \in {"demote", "remove"} /\ tx[v].on = t =>
          /\ tx[v].who = u => v \in F \/ r = "member" \/ (r = "admin" /\ v \in S)
          /\ tx[v].who # u => r = "admin" \/ ~IsAdmin(t, u) \/ v \in S
    BY DEF Doing, About, Counted
  <2>3. /\ role' = [role EXCEPT ![t][u] = "none"] /\ tx' = Done(w, F, S)
        /\ UNCHANGED <<team, gone, host, owns>>
    BY <1>3 DEF RemoveCommit
  <2>4. role' \in [Team -> [User -> {"none", "member", "admin"}]]
    BY <2>1, <2>3 DEF IInv, TypeOK
  <2>5. \A x \in Team, y \in User :
          role'[x][y] = IF x = t /\ y = u THEN r ELSE role[x][y]
    BY <2>1, <2>3 DEF IInv, TypeOK
  <2>6. tx' = Done(w, F, S) /\ UNCHANGED <<team, gone, host, owns>> /\ (r # "none" => role[t][u] # "none")
    BY <2>3
  <2> QED
    BY <2>1, <2>2, <2>4, <2>5, <2>6, RoleInv, SMTT(30)
<1> QED
  BY <1>1, <1>2, <1>3

LEMMA DeleteTeamInv ==
  ASSUME IInv, NEW w \in Worker, DeleteCommit(w) PROVE IInv'
<1> HIDE DEF Tx
<1> PICK t : t = tx[w].on
  OBVIOUS
<1> PICK F : F = Doing(TeamOp, t)
  OBVIOUS
<1>1. /\ tx[w].op = "delete" /\ team' = [team EXCEPT ![t] = "deleted"]
      /\ role' = [role EXCEPT ![t] = [u \in User |-> "none"]]
      /\ owns' = {x \in owns : x[2] # t} /\ tx' = Done(w, F, {}) /\ UNCHANGED <<gone, host>>
  BY DEF DeleteCommit
<1>2. t \in Team
  BY <1>1 DEF IInv, Deletion
<1>3. /\ \A x \in Team : team'[x] = IF x = t THEN "deleted" ELSE team[x]
      /\ \A x \in Team, y \in User : role'[x][y] = IF x = t THEN "none" ELSE role[x][y]
  BY <1>1 DEF IInv, TypeOK
<1>4. RowsOK'
  BY <1>1, <1>2, <1>3 DEF RowsOK, IInv, TypeOK
<1>5. \A v \in Worker : v \notin F /\ tx[v].op \in TeamOp => tx[v].on # t
  BY DEF Doing
<1>6. ASSUME NEW v \in Worker, v \notin F, tx[v].op \in {"demote", "remove"}
      PROVE  /\ role'[tx[v].on][tx[v].who] # "none"
             /\ role'[tx[v].on][tx[v].who] = "admin" =>
                  \/ tx[v].stale
                  \/ \E x \in User \ {tx[v].who} : role'[tx[v].on][x] = "admin"
  <2>1. /\ tx[v].on \in Team /\ tx[v].who \in User /\ role[tx[v].on][tx[v].who] # "none"
        /\ role[tx[v].on][tx[v].who] = "admin" =>
             \/ tx[v].stale
             \/ \E x \in User \ {tx[v].who} : role[tx[v].on][x] = "admin"
    BY <1>6 DEF IInv, Member, IsAdmin, OthersRemain
  <2>2. tx[v].on # t
    BY <1>5, <1>6 DEF TeamOp
  <2> QED
    BY <1>3, <2>1, <2>2
<1>7. ASSUME NEW v \in Worker, v \notin F, tx[v].op = "delete"
      PROVE  /\ team'[tx[v].on] = "live"
             /\ \/ tx[v].stale
                \/ \A y \in Host : ~(<<y, tx[v].on>> \in owns' /\ host'[y] = "active")
  <2>1. tx[v].on \in Team /\ team[tx[v].on] = "live" /\ (tx[v].stale \/ ~OwnsActive(tx[v].on))
    BY <1>7 DEF IInv, Deletion
  <2>2. tx[v].on # t
    BY <1>5, <1>7 DEF TeamOp
  <2> QED
    BY <1>1, <1>3, <2>1, <2>2 DEF OwnsActive
<1> QED
  BY <1>1, <1>4, <1>6, <1>7, ChangeKept, CommitInv, SMTT(30)

LEMMA DeleteUserInv ==
  ASSUME IInv, NEW w \in Worker, NEW u \in User, DeleteUser(w, u) PROVE IInv'
<1> HIDE DEF Tx
<1>1. gone' = gone \cup {u} /\ tx' = Done(w, {}, {}) /\ UNCHANGED <<team, role, host, owns>>
  BY DEF DeleteUser
<1>2. RowsOK'
  BY <1>1 DEF RowsOK, IInv, TypeOK
<1> QED
  BY <1>1, <1>2, MemberKept, DeletionKept, ChangeKept, CommitInv, SMTT(30)

LEMMA DecommissionInv ==
  ASSUME IInv, NEW w \in Worker, NEW h \in Host, Decommission(w, h) PROVE IInv'
<1> HIDE DEF Tx
<1> PICK S : S = Doing(HostOp, h)
  OBVIOUS
<1>1. /\ host[h] = "active" /\ host' = [host EXCEPT ![h] = "decommissioned"]
      /\ tx' = Done(w, {}, S) /\ UNCHANGED <<team, role, gone, owns>>
  BY DEF Decommission
<1>2. \A y \in Host : host'[y] = IF y = h THEN "decommissioned" ELSE host[y]
  BY <1>1 DEF IInv, TypeOK
<1>3. RowsOK'
  BY <1>1, <1>2 DEF RowsOK, IInv, TypeOK
<1>4. \A v \in Worker : tx[v].op = "delete" =>
        /\ team'[tx[v].on] = "live"
        /\ \/ tx[v].stale
           \/ \A y \in Host : ~(<<y, tx[v].on>> \in owns' /\ host'[y] = "active")
  BY <1>1, <1>2 DEF IInv, Deletion, OwnsActive
<1>5. \A v \in Worker : tx[v].op \in HostOp =>
        tx[v].stale \/ v \in S \/ host'[tx[v].on] # "decommissioned"
  BY <1>1, <1>2 DEF IInv, Change, Doing
<1> QED
  BY <1>1, <1>3, <1>4, <1>5, MemberKept, CommitInv, SMTT(30)

LEMMA OwnersInv ==
  ASSUME IInv, NEW w \in Worker, GiveCommit(w) \/ TakeCommit(w) PROVE IInv'
<1> HIDE DEF Tx
<1> PICK h, o : h = tx[w].on /\ o = tx[w].who
  OBVIOUS
<1>1. PICK S : /\ tx' = Done(w, {}, S) /\ (S = {} \/ S = Doing({"delete"}, o))
               /\ owns' \subseteq owns \/ (owns' = owns \cup {<<h, o>>} /\ S = Doing({"delete"}, o))
  BY DEF GiveCommit, TakeCommit
<1>2. UNCHANGED <<team, role, gone, host>> /\ h \in Host /\ o \in Owner
  BY DEF GiveCommit, TakeCommit, IInv, Change, HostOp
<1>3. RowsOK'
  BY <1>2 DEF RowsOK, IInv, TypeOK, GiveCommit, TakeCommit
<1>4. ASSUME NEW v \in Worker, tx[v].op = "delete"
      PROVE  /\ team'[tx[v].on] = "live"
             /\ \/ tx[v].stale \/ v \in S
                \/ \A y \in Host : ~(<<y, tx[v].on>> \in owns' /\ host'[y] = "active")
  BY <1>1, <1>2, <1>4 DEF IInv, Deletion, OwnsActive, Doing
<1> QED
  BY <1>1, <1>2, <1>3, <1>4, MemberKept, ChangeKept, CommitInv, SMTT(30)

LEMMA DeleteHostInv ==
  ASSUME IInv, NEW h \in Host, DeleteHost(h) PROVE IInv'
<1> HIDE DEF Tx
<1>1. /\ host' = [host EXCEPT ![h] = "deleted"] /\ owns' = {x \in owns : x[1] # h}
      /\ UNCHANGED <<team, role, gone, tx>>
  BY DEF DeleteHost
<1>2. \A y \in Host : host'[y] = IF y = h THEN "deleted" ELSE host[y]
  BY <1>1 DEF IInv, TypeOK
<1>3. TypeOK'
  BY <1>1, <1>2 DEF IInv, TypeOK
<1>4. ASSUME NEW v \in Worker PROVE Member(tx[v])' /\ Deletion(tx[v])' /\ Change(tx[v])'
  <2> PICK r : r = tx[v]
    OBVIOUS
  <2>1. Member(r) /\ Deletion(r) /\ Change(r)
    BY DEF IInv
  <2>2. Member(r)'
    BY <1>1, <2>1 DEF Member, IsAdmin, OthersRemain
  <2>3. Deletion(r)'
    BY <1>1, <1>2, <2>1 DEF Deletion, OwnsActive
  <2>4. Change(r)'
    BY <1>1, <1>2, <2>1 DEF Change
  <2>5. tx'[v] = r
    BY <1>1
  <2> QED
    BY <2>2, <2>3, <2>4, <2>5 DEF Member, Deletion, Change, IsAdmin, OthersRemain, OwnsActive
<1> QED
  BY <1>3, <1>4 DEF IInv

LEMMA NextInv == IInv /\ [Next]_vars => IInv'
<1> HIDE DEF Tx
<1> SUFFICES ASSUME IInv, [Next]_vars PROVE IInv'
  OBVIOUS
<1>1. CASE UNCHANGED vars
  <2>1. TypeOK'
    BY <1>1 DEF vars, IInv, TypeOK
  <2>2. \A w \in Worker : Member(tx[w])'
    BY <1>1 DEF vars, IInv, Member, IsAdmin, OthersRemain
  <2>3. \A w \in Worker : Deletion(tx[w])'
    BY <1>1 DEF vars, IInv, Deletion, OwnsActive
  <2>4. \A w \in Worker : Change(tx[w])'
    BY <1>1 DEF vars, IInv, Change
  <2> QED
    BY <2>1, <2>2, <2>3, <2>4 DEF IInv
<1>2. CASE Next
  BY <1>2, ReadsInv, CreateInv, UpdateInv, AddInv, RolesInv, DeleteTeamInv, DeleteUserInv,
     DecommissionInv, OwnersInv, DeleteHostInv DEF Next
<1> QED
  BY <1>1, <1>2

-----------------------------------------------------------------------------
(* Memberships and ownership never point at a team or a host that is gone  *)
(* (the cascades of delete_team and delete_host_record).                   *)
THEOREM TypeCorrect == Spec => []TypeOK
<1>1. IInv => TypeOK
  BY DEF IInv
<1> QED
  BY <1>1, InitInv, NextInv, PTL DEF Spec

LEMMA TeamAdminStep ==
  ASSUME IInv, [Next]_vars, NEW t \in Team,
         LiveAdmins(t) # {}, LiveAdmins(t)' = {}, team'[t] = "live", gone' = gone,
         LostAdmins(t) = {}
  PROVE  Late({"demote", "remove"}, t)
<1> HIDE DEF Tx
<1>1. PICK x \in User : x \notin gone /\ IsAdmin(t, x)
  BY DEF LiveAdmins
<1>2. role'[t][x] # "admin"
  BY <1>1 DEF LiveAdmins, IsAdmin
<1>3. ~(UNCHANGED role)
  BY <1>1, <1>2 DEF IsAdmin
<1>4. ASSUME NEW w \in Worker, NEW s \in Team, NEW u \in User,
             Promote(w, s, u) \/ \E r \in {"member", "admin"} : AddMember(w, s, u, r)
      PROVE  FALSE
  <2>1. role[s][u] # "admin"
    BY <1>4 DEF Promote, AddMember
  <2> QED
    BY <1>1, <1>2, <1>4, <2>1 DEF IsAdmin, IInv, TypeOK, Promote, AddMember
<1>5. ASSUME NEW w \in Worker, DeleteCommit(w) PROVE FALSE
  <2>1. tx[w].on = t => team'[t] = "deleted"
    BY <1>5 DEF DeleteCommit, IInv, TypeOK
  <2> QED
    BY <1>1, <1>2, <1>5, <2>1 DEF DeleteCommit, IsAdmin, IInv, TypeOK
<1>6. PICK w \in Worker : DemoteCommit(w) \/ RemoveCommit(w)
  BY <1>3, <1>4, <1>5, ZenonT(60)
     DEF Next, vars, AskTeam, DemoteRead, RemoveRead, CreateTeam, UpdateTeam, DeleteRead,
         AskOrg, DeleteUser, AskHost, GiveRead, TakeRead, Decommission, GiveCommit,
         TakeCommit, Rollback, DeleteHost
<1>7. tx[w].op \in {"demote", "remove"}
  BY <1>6 DEF DemoteCommit, RemoveCommit
<1>8. \A y \in Team, z \in User :
        ~(y = tx[w].on /\ z = tx[w].who) => role'[y][z] = role[y][z]
  BY <1>6 DEF DemoteCommit, RemoveCommit, IInv, TypeOK
<1>9. tx[w].on = t /\ tx[w].who = x
  BY <1>1, <1>2, <1>8 DEF IsAdmin
<1>10. \A z \in User \ {x} : ~IsAdmin(t, z)
  BY <1>8, <1>9 DEF LiveAdmins, LostAdmins, IsAdmin
<1>11. tx[w].stale
  BY <1>1, <1>7, <1>9, <1>10 DEF IInv, Member, OthersRemain
<1>12. tx'[w] = Idle
  <2>1. PICK F, S : tx' = Done(w, F, S)
    BY <1>6 DEF DemoteCommit, RemoveCommit
  <2> QED
    BY <2>1, DoneType DEF IInv, TypeOK
<1> QED
  BY <1>7, <1>9, <1>11, <1>12 DEF Late

(* A surviving team loses its last admin who can sign in only to a request *)
(* whose count had gone stale, to the deletion of the account, or because  *)
(* a deleted account was counted (teams/service.py, "last-admin guard").   *)
THEOREM LastTeamAdminStays == Spec => TeamAdminKept
<1>1. IInv /\ [Next]_vars =>
        [\A t \in Team :
           LiveAdmins(t) # {} /\ LiveAdmins(t)' = {} /\ team'[t] = "live" =>
             Late({"demote", "remove"}, t) \/ gone' # gone \/ LostAdmins(t) # {}]_vars
  BY TeamAdminStep
<1> QED
  BY <1>1, InitInv, NextInv, PTL DEF Spec, TeamAdminKept

(* Four steps change who owns what.                                        *)
LEMMA OwnsStep ==
  ASSUME [Next]_vars, owns' # owns
  PROVE  \/ \E x \in Host : DeleteHost(x)
         \/ \E w \in Worker : GiveCommit(w) \/ TakeCommit(w) \/ DeleteCommit(w)
<1>1. \A w \in Worker, t \in Team, u \in User :
        AskTeam(w, u, t) \/ Promote(w, t, u) \/ DemoteRead(w, t, u) \/ RemoveRead(w, t, u)
        \/ (\E r \in {"member", "admin"} : AddMember(w, t, u, r)) => UNCHANGED owns
  BY DEF AskTeam, Promote, DemoteRead, RemoveRead, AddMember
<1>2. \A w \in Worker, t \in Team :
        CreateTeam(w, t) \/ UpdateTeam(w, t) \/ DeleteRead(w, t) => UNCHANGED owns
  BY DEF CreateTeam, UpdateTeam, DeleteRead
<1>3. \A w \in Worker, u \in User : AskOrg(w, u) \/ DeleteUser(w, u) => UNCHANGED owns
  BY DEF AskOrg, DeleteUser
<1>4. \A w \in Worker, h \in Host :
        \/ \E u \in User : AskHost(w, u, h)
        \/ \E o \in Owner : GiveRead(w, h, o) \/ TakeRead(w, h, o)
        \/ Decommission(w, h)
        => UNCHANGED owns
  BY DEF AskHost, GiveRead, TakeRead, Decommission
<1>5. \A w \in Worker : DemoteCommit(w) \/ RemoveCommit(w) \/ Rollback(w) => UNCHANGED owns
  BY DEF DemoteCommit, RemoveCommit, Rollback
<1>6. CASE UNCHANGED vars
  BY <1>6 DEF vars
<1> QED
  BY <1>1, <1>2, <1>3, <1>4, <1>5, <1>6 DEF Next

LEMMA HostTeamStep ==
  ASSUME IInv, [Next]_vars, NEW h \in Host, NEW t \in Team,
         <<h, t>> \in owns \ owns', host[h] = "active"
  PROVE  \/ \E w \in Worker : tx[w] = [At("take", h, t) EXCEPT !.stale = tx[w].stale]
                              /\ tx'[w] = Idle
         \/ host'[h] = "deleted"
         \/ Late({"delete"}, t)
<1>1. CASE \E x \in Host : DeleteHost(x)
  BY <1>1 DEF DeleteHost, IInv, TypeOK
<1>2. ASSUME NEW w \in Worker, TakeCommit(w)
      PROVE  tx[w] = [At("take", h, t) EXCEPT !.stale = tx[w].stale] /\ tx'[w] = Idle
  <2>1. tx[w].op = "take" /\ tx[w].on = h /\ tx[w].who = t
    BY <1>2 DEF TakeCommit
  <2>2. tx[w] \in Tx
    BY DEF IInv, TypeOK
  <2>3. tx[w] = [At("take", h, t) EXCEPT !.stale = tx[w].stale]
    BY <2>1, <2>2 DEF Tx, At
  <2>4. tx'[w] = Idle
    <3> HIDE DEF Tx
    <3> QED
      BY <1>2, DoneType DEF TakeCommit, IInv, TypeOK
  <2> QED
    BY <2>3, <2>4
<1>3. ASSUME NEW w \in Worker, DeleteCommit(w) PROVE Late({"delete"}, t)
  <2> HIDE DEF Tx
  <2>1. tx[w].op = "delete" /\ tx[w].on = t
    BY <1>3 DEF DeleteCommit
  <2>2. tx[w].stale
    BY <2>1 DEF IInv, Deletion, OwnsActive
  <2>3. tx'[w] = Idle
    BY <1>3, DoneType DEF DeleteCommit, IInv, TypeOK
  <2> QED
    BY <2>1, <2>2, <2>3 DEF Late
<1>4. ASSUME NEW w \in Worker, GiveCommit(w) PROVE FALSE
  BY <1>4 DEF GiveCommit
<1>5. owns' # owns
  OBVIOUS
<1>6. CASE \E w \in Worker : TakeCommit(w)
  BY <1>2, <1>6
<1>7. CASE \E w \in Worker : DeleteCommit(w)
  BY <1>3, <1>7
<1> QED
  BY <1>1, <1>4, <1>5, <1>6, <1>7, OwnsStep

(* An active host is not left behind by the deletion of its team, unless   *)
(* it was given to the team after delete_team had looked for such hosts.   *)
THEOREM TeamKeepsItsHosts == Spec => HostKeepsTeam
<1>1. IInv /\ [Next]_vars =>
        [\A h \in Host, t \in Team :
           <<h, t>> \in owns \ owns' /\ host[h] = "active" =>
             \/ \E w \in Worker : tx[w] = [At("take", h, t) EXCEPT !.stale = tx[w].stale]
                                  /\ tx'[w] = Idle
             \/ host'[h] = "deleted"
             \/ Late({"delete"}, t)]_vars
  BY HostTeamStep
<1> QED
  BY <1>1, InitInv, NextInv, PTL DEF Spec, HostKeepsTeam

LEMMA FrozenStep ==
  ASSUME IInv, [Next]_vars, NEW h \in Host, NEW o \in Owner,
         host[h] = "decommissioned", host'[h] = "decommissioned",
         ~(<<h, o>> \in owns <=> <<h, o>> \in owns')
  PROVE  Late(HostOp, h) \/ (o \in Team /\ team'[o] = "deleted")
<1> HIDE DEF Tx
<1>1. ASSUME NEW x \in Host, DeleteHost(x) PROVE FALSE
  BY <1>1 DEF DeleteHost, IInv, TypeOK
<1>2. ASSUME NEW w \in Worker, GiveCommit(w) \/ TakeCommit(w) PROVE Late(HostOp, h)
  <2>1. tx[w].op \in HostOp /\ tx[w].on = h
    BY <1>2 DEF GiveCommit, TakeCommit, HostOp
  <2>2. tx[w].stale
    BY <2>1 DEF IInv, Change
  <2>3. tx'[w] = Idle
    BY <1>2, DoneType DEF GiveCommit, TakeCommit, IInv, TypeOK
  <2> QED
    BY <2>1, <2>2, <2>3 DEF Late
<1>3. ASSUME NEW w \in Worker, DeleteCommit(w) PROVE o \in Team /\ team'[o] = "deleted"
  <2>1. tx[w].on = o /\ tx[w].on \in Team
    BY <1>3 DEF DeleteCommit, IInv, Deletion
  <2> QED
    BY <1>3, <2>1 DEF DeleteCommit, IInv, TypeOK
<1>4. owns' # owns
  OBVIOUS
<1> QED
  BY <1>1, <1>2, <1>3, <1>4, OwnsStep

(* The owners of a decommissioned host change only by a request that read  *)
(* its status before, or with a team that is deleted.                      *)
THEOREM OwnershipIsFrozen == Spec => FrozenOwnership
<1>1. IInv /\ [Next]_vars =>
        [\A h \in Host, o \in Owner :
           /\ host[h] = "decommissioned" /\ host'[h] = "decommissioned"
           /\ ~(<<h, o>> \in owns <=> <<h, o>> \in owns')
           => Late(HostOp, h) \/ (o \in Team /\ team'[o] = "deleted")]_vars
  BY FrozenStep
<1> QED
  BY <1>1, InitInv, NextInv, PTL DEF Spec, FrozenOwnership
=============================================================================
