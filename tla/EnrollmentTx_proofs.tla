------------------------ MODULE EnrollmentTx_proofs ------------------------
(* Machine-checked proofs about EnrollmentTx, for any number of hosts,     *)
(* enrollments, tokens and concurrent workers.                             *)
EXTENDS EnrollmentTx, TLAPS

Claiming(w) == tx[w].pc \in {"claimed", "selected", "flushed"}

(* A worker past its claim holds an enrollment that is open, unspent, and  *)
(* claimed by nobody else.                                                 *)
ClaimInv ==
  /\ \A w \in Worker :
       /\ tx[w].pc \in {"read", "revoke"} => tx[w].enr \in Enr
       /\ Claiming(w) => /\ tx[w].enr \in Enr
                         /\ enr[tx[w].enr].row = "open"
                         /\ ~enr[tx[w].enr].used
  /\ \A w, v \in Worker :
       Claiming(w) /\ Claiming(v) /\ tx[w].enr = tx[v].enr => w = v

(* The token a worker is about to insert is new, and its own.              *)
MintInv ==
  /\ \A w \in Worker : tx[w].pc = "flushed" =>
       tx[w].new \in Token /\ tok[tx[w].new].row = "absent"
  /\ \A w, v \in Worker :
       tx[w].pc = "flushed" /\ tx[v].pc = "flushed" /\ tx[w].new = tx[v].new => w = v

(* Spent enrollments and tokens correspond one to one.                     *)
SpentInv ==
  /\ SpentForAToken
  /\ \A t, u \in Token :
       tok[t].row # "absent" /\ tok[u].row # "absent" /\ tok[t].enr = tok[u].enr => t = u

(* An exchange that will write the host row writes over what it read,      *)
(* unless its read is out of date.                                         *)
ReadInv ==
  \A w \in Worker : tx[w].pc = "flushed" =>
    /\ tx[w].hosts = {HostOf[tx[w].enr]}
    /\ tx[w].dirty /\ Unmoved(w) => hst[HostOf[tx[w].enr]] = "provisioning"

(* A host about to be deleted has no token of an exchange that wrote its   *)
(* row, unless the delete's read is out of date.                           *)
DeleteInv ==
  \A w \in Worker : tx[w].pc \in {"delete", "sweep", "sweepDelete"} =>
    \A h \in tx[w].hosts \ tx[w].old : \A t \in TokenRows(h) : ~tok[t].bumped

IInv == TypeOK /\ ClaimInv /\ MintInv /\ SpentInv /\ NoOrphanCredential /\ ReadInv /\ DeleteInv

-----------------------------------------------------------------------------
(* The open transactions after a step.  A bystander keeps what it read and *)
(* wrote; a commit that wrote hosts H makes its reads of H out of date.    *)

Kept(v, H) ==
  /\ tx'[v].pc = tx[v].pc
  /\ tx'[v].enr = tx[v].enr
  /\ tx'[v].hosts = tx[v].hosts
  /\ tx'[v].toks = tx[v].toks
  /\ tx'[v].enrs = tx[v].enrs
  /\ tx'[v].new = tx[v].new
  /\ tx'[v].dirty = tx[v].dirty
  /\ tx'[v].old = tx[v].old \cup (H \cap tx[v].hosts)

LEMMA IdleShape ==
  /\ Idle \in Tx
  /\ Idle.pc = "idle"
  BY DEF Idle, Tx, Pc

LEMMA OutdateShape ==
  ASSUME tx \in [Worker -> Tx], NEW H \in SUBSET Host, tx' = Outdate(H)
  PROVE  /\ tx' \in [Worker -> Tx]
         /\ \A v \in Worker : Kept(v, H)
<1>1. ASSUME NEW v \in Worker
      PROVE  tx'[v] = [tx[v] EXCEPT !.old = tx[v].old \cup (H \cap tx[v].hosts)]
  BY <1>1 DEF Outdate
<1>2. ASSUME NEW v \in Worker
      PROVE  tx'[v] \in Tx /\ Kept(v, H)
  <2> DEFINE O == tx[v].old \cup (H \cap tx[v].hosts)
  <2>1. tx[v] \in Tx
    BY <1>2
  <2>2. O \in SUBSET Host
    BY <2>1 DEF Tx
  <2>3. tx'[v] = [tx[v] EXCEPT !.old = O]
    BY <1>1, <1>2
  <2> HIDE DEF O
  <2>4. tx'[v] \in Tx
    BY <2>1, <2>2, <2>3 DEF Tx
  <2>5. /\ tx'[v].pc = tx[v].pc
        /\ tx'[v].enr = tx[v].enr
        /\ tx'[v].hosts = tx[v].hosts
        /\ tx'[v].toks = tx[v].toks
        /\ tx'[v].enrs = tx[v].enrs
        /\ tx'[v].new = tx[v].new
        /\ tx'[v].dirty = tx[v].dirty
        /\ tx'[v].old = O
    BY <2>1, <2>3 DEF Tx
  <2> QED
    BY <2>4, <2>5 DEF Kept, O
<1>3. DOMAIN tx' = Worker /\ tx' = [v \in Worker |-> tx'[v]]
  BY DEF Outdate
<1> QED
  BY <1>2, <1>3

LEMMA CommitShape ==
  ASSUME tx \in [Worker -> Tx], NEW w \in Worker, NEW H \in SUBSET Host, Commit(w, H)
  PROVE  /\ tx' \in [Worker -> Tx]
         /\ tx'[w].pc = "idle"
         /\ \A v \in Worker \ {w} : Kept(v, H)
<1>1. ASSUME NEW v \in Worker \ {w}
      PROVE  tx'[v] = [tx[v] EXCEPT !.old = tx[v].old \cup (H \cap tx[v].hosts)]
  BY <1>1 DEF Outdate, Commit
<1>2. tx'[w] = Idle
  BY DEF Outdate, Commit
<1>3. ASSUME NEW v \in Worker \ {w}
      PROVE  tx'[v] \in Tx /\ Kept(v, H)
  <2> DEFINE O == tx[v].old \cup (H \cap tx[v].hosts)
  <2>1. tx[v] \in Tx
    BY <1>3
  <2>2. O \in SUBSET Host
    BY <2>1 DEF Tx
  <2>3. tx'[v] = [tx[v] EXCEPT !.old = O]
    BY <1>1, <1>3
  <2> HIDE DEF O
  <2>4. tx'[v] \in Tx
    BY <2>1, <2>2, <2>3 DEF Tx
  <2>5. /\ tx'[v].pc = tx[v].pc
        /\ tx'[v].enr = tx[v].enr
        /\ tx'[v].hosts = tx[v].hosts
        /\ tx'[v].toks = tx[v].toks
        /\ tx'[v].enrs = tx[v].enrs
        /\ tx'[v].new = tx[v].new
        /\ tx'[v].dirty = tx[v].dirty
        /\ tx'[v].old = O
    BY <2>1, <2>3 DEF Tx
  <2> QED
    BY <2>4, <2>5 DEF Kept, O
<1>4. DOMAIN tx' = Worker /\ tx' = [v \in Worker |-> tx'[v]]
  BY DEF Outdate, Commit
<1> QED
  BY <1>2, <1>3, <1>4, IdleShape

LEMMA OpenShape ==
  ASSUME tx \in [Worker -> Tx], NEW w \in Worker, NEW r \in Tx, Open(w, r)
  PROVE  /\ tx' \in [Worker -> Tx]
         /\ tx'[w] = r
         /\ \A v \in Worker \ {w} : Kept(v, {})
<1>1. tx'[w] = r /\ \A v \in Worker \ {w} : tx'[v] = tx[v]
  BY DEF Open
<1>2. tx' \in [Worker -> Tx]
  BY DEF Open
<1> QED
  BY <1>1, <1>2 DEF Kept

LEMMA AdvanceShape ==
  ASSUME tx \in [Worker -> Tx], NEW w \in Worker, NEW p \in Pc, Advance(w, p)
  PROVE  /\ tx' \in [Worker -> Tx]
         /\ tx'[w] = [tx[w] EXCEPT !.pc = p]
         /\ \A v \in Worker \ {w} : Kept(v, {})
<1>1. [tx[w] EXCEPT !.pc = p] \in Tx
  BY DEF Tx
<1>2. Open(w, [tx[w] EXCEPT !.pc = p])
  BY DEF Open, Advance
<1> QED
  BY <1>1, <1>2, OpenShape

(* Revoking tokens changes nothing but their row state, and a token that   *)
(* authenticated, or was revoked, becomes one of the two.                  *)
LEMMA RevokeLiveShape ==
  ASSUME tok \in [Token -> TokRow], NEW T \in SUBSET Token
  PROVE  /\ RevokeLive(T) \in [Token -> TokRow]
         /\ \A t \in Token :
              /\ RevokeLive(T)[t].enr = tok[t].enr
              /\ RevokeLive(T)[t].bumped = tok[t].bumped
              /\ RevokeLive(T)[t].row \in {"live", "revoked"} <=> tok[t].row \in {"live", "revoked"}
              /\ RevokeLive(T)[t].row = "absent" <=> tok[t].row = "absent"
<1>1. ASSUME NEW t \in Token
      PROVE  /\ RevokeLive(T)[t] \in TokRow
             /\ RevokeLive(T)[t].enr = tok[t].enr
             /\ RevokeLive(T)[t].bumped = tok[t].bumped
             /\ RevokeLive(T)[t].row \in {"live", "revoked"} <=> tok[t].row \in {"live", "revoked"}
             /\ RevokeLive(T)[t].row = "absent" <=> tok[t].row = "absent"
  <2>1. tok[t] \in TokRow
    BY <1>1
  <2> QED
    BY <2>1 DEF RevokeLive, TokRow
<1>2. RevokeLive(T) = [t \in Token |-> RevokeLive(T)[t]]
  BY DEF RevokeLive
<1> QED
  BY <1>1, <1>2

-----------------------------------------------------------------------------
LEMMA InitIInv == Init => IInv
  BY HostOfType, NoneIsNew DEF Init, IInv, TypeOK, Tx, EnrRow, TokRow, Pc, HostStatus, Idle, NoEnr, NoTok, ClaimInv, Claiming, MintInv, SpentInv, SpentForAToken, NoOrphanCredential, ReadInv, DeleteInv, TokenRows

-----------------------------------------------------------------------------
(* Steps that touch no row: what worker w's next transaction state r must  *)
(* satisfy for the invariant to hold of it.                                *)
LEMMA TxStepIInv ==
  ASSUME IInv, NEW w \in Worker, NEW r \in Tx, Open(w, r),
         UNCHANGED <<hst, beat, enr, tok>>,
         r.pc \in {"read", "revoke"} => r.enr \in Enr,
         r.pc \in {"claimed", "selected", "flushed"} =>
           /\ r.enr \in Enr
           /\ enr[r.enr].row = "open"
           /\ ~enr[r.enr].used
           /\ \A v \in Worker \ {w} : Claiming(v) => tx[v].enr # r.enr,
         r.pc = "flushed" =>
           /\ r.new \in Token
           /\ tok[r.new].row = "absent"
           /\ \A v \in Worker \ {w} : tx[v].new # r.new
           /\ r.hosts = {HostOf[r.enr]}
           /\ r.dirty => hst[HostOf[r.enr]] = "provisioning",
         r.pc \in {"delete", "sweep", "sweepDelete"} =>
           \A h \in r.hosts \ r.old : \A t \in TokenRows(h) : ~tok[t].bumped
  PROVE  IInv'
<1>1. /\ tx' \in [Worker -> Tx]
      /\ tx'[w] = r
      /\ \A v \in Worker \ {w} : Kept(v, {})
  BY OpenShape DEF IInv, TypeOK
<1>2. \A v \in Worker \ {w} :
         /\ tx'[v].pc = tx[v].pc
         /\ tx'[v].enr = tx[v].enr
         /\ tx'[v].hosts = tx[v].hosts
         /\ tx'[v].new = tx[v].new
         /\ tx'[v].dirty = tx[v].dirty
         /\ tx'[v].old = tx[v].old
  BY <1>1 DEF Kept
<1>3. TypeOK'
  BY <1>1 DEF IInv, TypeOK
<1>4. ClaimInv'
  BY <1>1, <1>2 DEF IInv, ClaimInv, Claiming
<1>5. MintInv'
  BY <1>1, <1>2 DEF IInv, MintInv
<1>6. SpentInv' /\ NoOrphanCredential'
  BY DEF IInv, SpentInv, SpentForAToken, NoOrphanCredential, Exists
<1>7. ReadInv'
  BY <1>1, <1>2 DEF IInv, ReadInv, Unmoved
<1>8. DeleteInv'
  BY <1>1, <1>2 DEF IInv, DeleteInv, TokenRows
<1> QED
  BY <1>3, <1>4, <1>5, <1>6, <1>7, <1>8 DEF IInv

(* Steps that write host rows and nothing else.                            *)
LEMMA HostStepIInv ==
  ASSUME IInv, NEW h \in Host, tx' = Outdate({h}), UNCHANGED <<enr, tok>>,
         hst' \in [Host -> HostStatus \cup {"absent", "gone"}],
         beat' \in [Host -> BOOLEAN],
         \A g \in Host \ {h} : hst'[g] = hst[g],
         Exists(h)'
  PROVE  IInv'
<1>1. /\ tx' \in [Worker -> Tx]
      /\ \A v \in Worker : Kept(v, {h})
  BY OutdateShape DEF IInv, TypeOK
<1>2. \A v \in Worker :
         /\ tx'[v].pc = tx[v].pc
         /\ tx'[v].enr = tx[v].enr
         /\ tx'[v].hosts = tx[v].hosts
         /\ tx'[v].new = tx[v].new
         /\ tx'[v].dirty = tx[v].dirty
  BY <1>1 DEF Kept
<1>3. \A v \in Worker : tx[v].old \subseteq tx'[v].old
  BY <1>1 DEF Kept
<1>4. \A v \in Worker : h \in tx[v].hosts => h \in tx'[v].old
  BY <1>1 DEF Kept
<1>5. enr' = enr /\ tok' = tok
  OBVIOUS
<1>6. TypeOK'
  BY <1>1, <1>5 DEF IInv, TypeOK
<1>7. ClaimInv'
  <2>1. ClaimInv
    BY DEF IInv
  <2>2. \A v \in Worker : Claiming(v)' <=> Claiming(v)
    BY <1>2 DEF Claiming
  <2>3. ASSUME NEW v \in Worker
        PROVE  /\ tx'[v].pc \in {"read", "revoke"} => tx'[v].enr \in Enr
               /\ Claiming(v)' => /\ tx'[v].enr \in Enr
                                  /\ enr'[tx'[v].enr].row = "open"
                                  /\ ~enr'[tx'[v].enr].used
    BY <1>2, <1>5, <2>1, <2>2, <2>3 DEF ClaimInv
  <2>4. ASSUME NEW v \in Worker, NEW u \in Worker,
               Claiming(v)', Claiming(u)', tx'[v].enr = tx'[u].enr
        PROVE  v = u
    BY <1>2, <2>1, <2>2, <2>4 DEF ClaimInv
  <2> QED
    BY <2>3, <2>4 DEF ClaimInv
<1>8. MintInv'
  <2>1. \A v \in Worker : tx'[v].pc = tx[v].pc /\ tx'[v].new = tx[v].new
    BY <1>2
  <2>2. MintInv
    BY DEF IInv
  <2>3. ASSUME NEW v \in Worker, tx'[v].pc = "flushed"
        PROVE  tx'[v].new \in Token /\ tok'[tx'[v].new].row = "absent"
    BY <1>5, <2>1, <2>2, <2>3 DEF MintInv
  <2>4. ASSUME NEW v \in Worker, NEW u \in Worker, tx'[v].pc = "flushed",
               tx'[u].pc = "flushed", tx'[v].new = tx'[u].new
        PROVE  v = u
    BY <2>1, <2>2, <2>4 DEF MintInv
  <2> QED
    BY <2>3, <2>4 DEF MintInv
<1>9. SpentInv'
  BY <1>5 DEF IInv, SpentInv, SpentForAToken
<1>10. NoOrphanCredential'
  <2>1. \A g \in Host : Exists(g) => Exists(g)'
    BY DEF Exists
  <2>2. \A t \in Token : tok[t].row \in {"live", "revoked"} => tok[t].enr \in Enr
    BY DEF IInv, TypeOK, TokRow
  <2>3. \A e \in Enr : enr'[e].row = "open" => Exists(HostOf[e])'
    BY <1>5, <2>1, HostOfType DEF IInv, NoOrphanCredential
  <2>4. \A t \in Token : tok'[t].row \in {"live", "revoked"} =>
          enr'[tok'[t].enr].row = "open" /\ Exists(HostOf[tok[t].enr])'
    BY <1>5, <2>1, <2>2, HostOfType DEF IInv, NoOrphanCredential
  <2> QED
    BY <1>5, <2>3, <2>4 DEF NoOrphanCredential, Exists
<1>11. ReadInv'
  <2> SUFFICES ASSUME NEW v \in Worker, tx'[v].pc = "flushed"
               PROVE  /\ tx'[v].hosts = {HostOf[tx'[v].enr]}
                      /\ tx'[v].dirty /\ tx'[v].old = {} => hst'[HostOf[tx'[v].enr]] = "provisioning"
    BY DEF ReadInv, Unmoved
  <2>1. HostOf[tx[v].enr] \in Host
    <3>1. tx[v].pc = "flushed"
      BY <1>2
    <3>2. ClaimInv
      BY DEF IInv
    <3>3. tx[v].enr \in Enr
      BY <3>1, <3>2 DEF ClaimInv, Claiming
    <3> QED
      BY <3>3, HostOfType
  <2>2. /\ tx[v].hosts = {HostOf[tx[v].enr]}
        /\ tx[v].dirty /\ tx[v].old = {} => hst[HostOf[tx[v].enr]] = "provisioning"
    <3>1. ReadInv /\ tx[v].pc = "flushed"
      BY <1>2 DEF IInv
    <3> QED
      BY <3>1 DEF ReadInv, Unmoved
  <2>3. tx'[v].old = {} => tx[v].old = {} /\ h \notin tx[v].hosts
    BY <1>3, <1>4
  <2>4. tx'[v].hosts = tx[v].hosts /\ tx'[v].enr = tx[v].enr /\ tx'[v].dirty = tx[v].dirty
    BY <1>2
  <2>5. HostOf[tx[v].enr] # h => hst'[HostOf[tx[v].enr]] = hst[HostOf[tx[v].enr]]
    BY <2>1
  <2>6. tx'[v].dirty /\ tx'[v].old = {} => hst'[HostOf[tx[v].enr]] = "provisioning"
    BY <2>2, <2>3, <2>4, <2>5
  <2> QED
    BY <2>2, <2>4, <2>6
<1>12. DeleteInv'
  <2> SUFFICES ASSUME NEW v \in Worker, tx'[v].pc \in {"delete", "sweep", "sweepDelete"},
                      NEW g \in tx'[v].hosts \ tx'[v].old, NEW t \in TokenRows(g)'
               PROVE  ~tok'[t].bumped
    BY DEF DeleteInv
  <2>1. g \in tx[v].hosts \ tx[v].old /\ t \in TokenRows(g)
    BY <1>2, <1>3, <1>5 DEF TokenRows
  <2> QED
    BY <1>2, <1>5, <2>1 DEF IInv, DeleteInv
<1> QED
  BY <1>6, <1>7, <1>8, <1>9, <1>10, <1>11, <1>12 DEF IInv

(* Committing a revocation.                                                *)
LEMMA RevokeIInv ==
  ASSUME IInv, NEW w \in Worker, RevokeCommit(w)
  PROVE  IInv'
<1> DEFINE e == tx[w].enr
<1>1. /\ tx' \in [Worker -> Tx]
      /\ tx'[w].pc = "idle"
      /\ \A v \in Worker \ {w} : Kept(v, {})
  BY CommitShape DEF IInv, TypeOK, RevokeCommit
<1>2. \A v \in Worker \ {w} :
         /\ tx'[v].pc = tx[v].pc
         /\ tx'[v].enr = tx[v].enr
         /\ tx'[v].hosts = tx[v].hosts
         /\ tx'[v].new = tx[v].new
         /\ tx'[v].dirty = tx[v].dirty
         /\ tx'[v].old = tx[v].old
  BY <1>1 DEF Kept
<1>3. /\ e \in Enr
      /\ UNCHANGED <<hst, beat, tok>>
      /\ enr' = [enr EXCEPT ![e].revoked = TRUE]
  BY DEF RevokeCommit, IInv, ClaimInv
<1>4. /\ enr' \in [Enr -> EnrRow]
      /\ \A f \in Enr : enr'[f].row = enr[f].row /\ enr'[f].used = enr[f].used
  <2>1. enr \in [Enr -> EnrRow]
    BY DEF IInv, TypeOK
  <2> QED
    BY <1>3, <2>1 DEF EnrRow
<1>5. TypeOK'
  BY <1>1, <1>3, <1>4 DEF IInv, TypeOK
<1>6. ClaimInv'
  <2>1. ClaimInv
    BY DEF IInv
  <2> QED
    BY <1>1, <1>2, <1>4, <2>1 DEF ClaimInv, Claiming
<1>7. MintInv'
  BY <1>1, <1>2, <1>3 DEF IInv, MintInv
<1>8. SpentInv'
  BY <1>3, <1>4 DEF IInv, SpentInv, SpentForAToken
<1>9. NoOrphanCredential'
  <2>1. \A t \in Token : tok[t].row \in {"live", "revoked"} => tok[t].enr \in Enr
    BY DEF IInv, TypeOK, TokRow
  <2> QED
    BY <1>3, <1>4, <2>1 DEF IInv, NoOrphanCredential, Exists
<1>10. ReadInv'
  BY <1>1, <1>2, <1>3 DEF IInv, ReadInv, Unmoved
<1>11. DeleteInv'
  BY <1>1, <1>2, <1>3 DEF IInv, DeleteInv, TokenRows
<1> QED
  BY <1>5, <1>6, <1>7, <1>8, <1>9, <1>10, <1>11 DEF IInv

(* Committing a removal: tokens and enrollments of the host are revoked.   *)
LEMMA GoodbyeIInv ==
  ASSUME IInv, NEW w \in Worker, GoodbyeCommit(w)
  PROVE  IInv'
<1> DEFINE W == IF tx[w].dirty THEN tx[w].hosts ELSE {}
<1>1. tx[w] \in Tx /\ W \in SUBSET Host /\ tx[w].toks \in SUBSET Token
  BY DEF IInv, TypeOK, Tx
<1>2. /\ tok' = RevokeLive(tx[w].toks)
      /\ hst' = hst
      /\ Commit(w, W)
  BY DEF GoodbyeCommit
<1>3. /\ tx' \in [Worker -> Tx]
      /\ tx'[w].pc = "idle"
      /\ \A v \in Worker \ {w} : Kept(v, W)
  BY <1>1, <1>2, CommitShape DEF IInv, TypeOK
<1>4. \A v \in Worker \ {w} :
         /\ tx'[v].pc = tx[v].pc
         /\ tx'[v].enr = tx[v].enr
         /\ tx'[v].hosts = tx[v].hosts
         /\ tx'[v].new = tx[v].new
         /\ tx'[v].dirty = tx[v].dirty
         /\ tx[v].old \subseteq tx'[v].old
  BY <1>3 DEF Kept
<1>5. /\ enr' \in [Enr -> EnrRow]
      /\ \A e \in Enr : enr'[e].row = enr[e].row /\ enr'[e].used = enr[e].used
  <2>1. enr \in [Enr -> EnrRow]
    BY DEF IInv, TypeOK
  <2>2. \E R : enr' = [e \in Enr |-> IF e \in R THEN [enr[e] EXCEPT !.revoked = TRUE]
                                              ELSE enr[e]]
    BY DEF GoodbyeCommit
  <2>3. PICK R : enr' = [e \in Enr |-> IF e \in R THEN [enr[e] EXCEPT !.revoked = TRUE]
                                                  ELSE enr[e]]
    BY <2>2
  <2> QED
    BY <2>1, <2>3 DEF EnrRow
<1>6. /\ tok' \in [Token -> TokRow]
      /\ \A t \in Token :
           /\ tok'[t].enr = tok[t].enr
           /\ tok'[t].bumped = tok[t].bumped
           /\ tok'[t].row \in {"live", "revoked"} <=> tok[t].row \in {"live", "revoked"}
           /\ tok'[t].row = "absent" <=> tok[t].row = "absent"
  BY <1>1, <1>2, RevokeLiveShape DEF IInv, TypeOK
<1>7. beat' \in [Host -> BOOLEAN]
  BY DEF GoodbyeCommit, IInv, TypeOK
<1>8. TypeOK'
  BY <1>2, <1>3, <1>5, <1>6, <1>7 DEF IInv, TypeOK
<1>9. ClaimInv'
  BY <1>3, <1>4, <1>5 DEF IInv, ClaimInv, Claiming
<1>10. MintInv'
  BY <1>3, <1>4, <1>6 DEF IInv, MintInv
<1>11. SpentInv'
  BY <1>5, <1>6 DEF IInv, SpentInv, SpentForAToken
<1>12. NoOrphanCredential'
  <2>1. \A t \in Token : tok[t].row \in {"live", "revoked"} => tok[t].enr \in Enr
    BY DEF IInv, TypeOK, TokRow
  <2> QED
    BY <1>2, <1>5, <1>6, <2>1 DEF IInv, NoOrphanCredential, Exists
<1>13. ReadInv'
  <2> SUFFICES ASSUME NEW v \in Worker, tx'[v].pc = "flushed"
               PROVE  /\ tx'[v].hosts = {HostOf[tx'[v].enr]}
                      /\ tx'[v].dirty /\ tx'[v].old = {} => hst'[HostOf[tx'[v].enr]] = "provisioning"
    BY DEF ReadInv, Unmoved
  <2>1. v # w /\ tx[v].pc = "flushed"
    BY <1>3, <1>4
  <2>2. /\ tx[v].hosts = {HostOf[tx[v].enr]}
        /\ tx[v].dirty /\ tx[v].old = {} => hst[HostOf[tx[v].enr]] = "provisioning"
    BY <2>1 DEF IInv, ReadInv, Unmoved
  <2> QED
    BY <1>2, <1>4, <2>1, <2>2
<1>14. DeleteInv'
  <2> SUFFICES ASSUME NEW v \in Worker, tx'[v].pc \in {"delete", "sweep", "sweepDelete"},
                      NEW g \in tx'[v].hosts \ tx'[v].old, NEW t \in TokenRows(g)'
               PROVE  ~tok'[t].bumped
    BY DEF DeleteInv
  <2>1. v # w /\ tx[v].pc \in {"delete", "sweep", "sweepDelete"}
    BY <1>3, <1>4
  <2>2. g \in tx[v].hosts \ tx[v].old
    BY <1>4, <2>1
  <2>3. t \in TokenRows(g)
    BY <1>6 DEF TokenRows
  <2>4. ~tok[t].bumped
    BY <2>1, <2>2, <2>3 DEF IInv, DeleteInv
  <2> QED
    BY <1>6, <2>3, <2>4 DEF TokenRows
<1> QED
  BY <1>8, <1>9, <1>10, <1>11, <1>12, <1>13, <1>14 DEF IInv

(* Committing the deletion of host records, by a handler or the sweep.     *)
LEMMA DeleteHostsIInv ==
  ASSUME IInv, NEW w \in Worker, NEW H \in SUBSET Host, DeleteHosts(w, H)
  PROVE  IInv'
<1>1. /\ tx' \in [Worker -> Tx]
      /\ tx'[w].pc = "idle"
      /\ \A v \in Worker \ {w} : Kept(v, H)
  BY CommitShape DEF IInv, TypeOK, DeleteHosts
<1>2. \A v \in Worker \ {w} :
         /\ tx'[v].pc = tx[v].pc
         /\ tx'[v].enr = tx[v].enr
         /\ tx'[v].hosts = tx[v].hosts
         /\ tx'[v].new = tx[v].new
         /\ tx'[v].dirty = tx[v].dirty
         /\ tx[v].old \subseteq tx'[v].old
  BY <1>1 DEF Kept
<1>3. \A v \in Worker \ {w} : H \cap tx[v].hosts \subseteq tx'[v].old
  BY <1>1 DEF Kept
<1>4. /\ enr' \in [Enr -> EnrRow]
      /\ \A e \in Enr :
           /\ enr'[e].used = enr[e].used
           /\ HostOf[e] \in H => enr'[e].row # "open"
           /\ HostOf[e] \notin H => enr'[e].row = enr[e].row
           /\ enr'[e].row = "open" => enr[e].row = "open"
  BY DEF DeleteHosts, DropEnrollments, IInv, TypeOK, EnrRow
<1>5. /\ tok' \in [Token -> TokRow]
      /\ \A t \in Token :
           /\ tok'[t].enr = tok[t].enr
           /\ tok'[t].bumped = tok[t].bumped
           /\ tok'[t].row = "absent" <=> tok[t].row = "absent"
           /\ tok'[t].row \in {"live", "revoked"} =>
                tok[t].row \in {"live", "revoked"} /\ HostOf[tok[t].enr] \notin H
  <2>1. ASSUME NEW t \in Token
        PROVE  /\ tok'[t] \in TokRow
               /\ tok'[t].enr = tok[t].enr
               /\ tok'[t].bumped = tok[t].bumped
               /\ tok'[t].row = "absent" <=> tok[t].row = "absent"
               /\ tok'[t].row \in {"live", "revoked"} =>
                    tok[t].row \in {"live", "revoked"} /\ HostOf[tok[t].enr] \notin H
    <3>1. tok[t] \in TokRow
      BY DEF IInv, TypeOK
    <3>2. CASE \E h \in H : t \in TokenRows(h)
      <4>1. tok'[t] = [tok[t] EXCEPT !.row = "gone"]
        BY <3>2 DEF DeleteHosts
      <4>2. tok[t].row \in {"live", "revoked"}
        BY <3>2 DEF TokenRows
      <4> QED
        BY <3>1, <4>1, <4>2 DEF TokRow
    <3>3. CASE ~\E h \in H : t \in TokenRows(h)
      <4>1. tok'[t] = tok[t]
        BY <3>3 DEF DeleteHosts
      <4>2. tok[t].row \in {"live", "revoked"} => HostOf[tok[t].enr] \notin H
        BY <3>3 DEF TokenRows
      <4> QED
        BY <3>1, <4>1, <4>2
    <3> QED
      BY <3>2, <3>3
  <2>2. tok' = [t \in Token |-> tok'[t]]
    BY DEF DeleteHosts
  <2> QED
    BY <2>1, <2>2
<1>6. /\ hst' \in [Host -> HostStatus \cup {"absent", "gone"}]
      /\ \A h \in Host \ H : hst'[h] = hst[h]
      /\ UNCHANGED beat
  BY DEF DeleteHosts, IInv, TypeOK
<1>7. TypeOK'
  BY <1>1, <1>4, <1>5, <1>6 DEF IInv, TypeOK
<1>8. \A v \in Worker \ {w} : Claiming(v) => HostOf[tx[v].enr] \notin H
  <2> SUFFICES ASSUME NEW v \in Worker \ {w}, Claiming(v), HostOf[tx[v].enr] \in H
               PROVE  FALSE
    OBVIOUS
  <2>1. LockedEnrs(v) = {tx[v].enr} /\ tx[v].enr \in Enr
    BY DEF LockedEnrs, Claiming, IInv, ClaimInv
  <2>2. tx[v].enr \in EnrsOf(HostOf[tx[v].enr])
    BY <2>1 DEF EnrsOf
  <2>3. EnrFree(w, EnrsOf(HostOf[tx[v].enr]))
    BY DEF DeleteHosts, CascadeFree
  <2> QED
    BY <2>1, <2>2, <2>3 DEF EnrFree
<1>9. ClaimInv'
  <2> DEFINE Busy(v) == tx'[v].pc \in {"claimed", "selected", "flushed"}
  <2>1. \A v \in Worker : Busy(v) => v # w /\ Claiming(v)
    BY <1>1, <1>2 DEF Claiming
  <2>2. ASSUME NEW v \in Worker, Busy(v)
        PROVE  /\ tx'[v].enr \in Enr
               /\ enr'[tx'[v].enr].row = "open"
               /\ ~enr'[tx'[v].enr].used
    BY <1>2, <1>4, <1>8, <2>1, <2>2 DEF IInv, ClaimInv
  <2>3. ASSUME NEW v \in Worker, NEW u \in Worker, Busy(v), Busy(u), tx'[v].enr = tx'[u].enr
        PROVE  v = u
    BY <1>2, <2>1, <2>3 DEF IInv, ClaimInv
  <2>4. \A v \in Worker : tx'[v].pc \in {"read", "revoke"} => tx'[v].enr \in Enr
    BY <1>1, <1>2 DEF IInv, ClaimInv
  <2> QED
    BY <2>2, <2>3, <2>4 DEF ClaimInv, Claiming
<1>10. MintInv'
  BY <1>1, <1>2, <1>5 DEF IInv, MintInv
<1>11. SpentInv'
  BY <1>4, <1>5 DEF IInv, SpentInv, SpentForAToken
<1>12. NoOrphanCredential'
  <2>1. \A t \in Token : tok[t].row \in {"live", "revoked"} => tok[t].enr \in Enr
    BY DEF IInv, TypeOK, TokRow
  <2>2. \A e \in Enr : enr'[e].row = "open" => hst'[HostOf[e]] \in HostStatus
    BY <1>4, <1>6, HostOfType DEF IInv, NoOrphanCredential, Exists
  <2>3. \A t \in Token : tok'[t].row \in {"live", "revoked"} =>
           enr'[tok'[t].enr].row = "open"
    BY <1>4, <1>5, <2>1 DEF IInv, NoOrphanCredential
  <2>4. \A t \in Token : tok'[t].row \in {"live", "revoked"} => tok'[t].enr \in Enr
    BY <1>5, <2>1
  <2> QED
    BY <2>2, <2>3, <2>4 DEF NoOrphanCredential, Exists
<1>13. ReadInv'
  <2> SUFFICES ASSUME NEW v \in Worker, tx'[v].pc = "flushed"
               PROVE  /\ tx'[v].hosts = {HostOf[tx'[v].enr]}
                      /\ tx'[v].dirty /\ tx'[v].old = {} => hst'[HostOf[tx'[v].enr]] = "provisioning"
    BY DEF ReadInv, Unmoved
  <2>1. v # w /\ tx[v].pc = "flushed"
    BY <1>1, <1>2
  <2>2. HostOf[tx[v].enr] \in Host /\ HostOf[tx[v].enr] \notin H
    BY <1>8, <2>1, HostOfType DEF IInv, ClaimInv, Claiming
  <2>3. /\ tx[v].hosts = {HostOf[tx[v].enr]}
        /\ tx[v].dirty /\ tx[v].old = {} => hst[HostOf[tx[v].enr]] = "provisioning"
    BY <2>1 DEF IInv, ReadInv, Unmoved
  <2> QED
    BY <1>2, <1>6, <2>1, <2>2, <2>3
<1>14. DeleteInv'
  <2> SUFFICES ASSUME NEW v \in Worker, tx'[v].pc \in {"delete", "sweep", "sweepDelete"},
                      NEW g \in tx'[v].hosts \ tx'[v].old, NEW t \in TokenRows(g)'
               PROVE  ~tok'[t].bumped
    BY DEF DeleteInv
  <2>1. v # w /\ tx[v].pc \in {"delete", "sweep", "sweepDelete"}
    BY <1>1, <1>2
  <2>2. g \in tx[v].hosts \ tx[v].old
    BY <1>2, <2>1
  <2>3. t \in TokenRows(g)
    BY <1>5 DEF TokenRows
  <2>4. ~tok[t].bumped
    BY <2>1, <2>2, <2>3 DEF IInv, DeleteInv
  <2> QED
    BY <1>5, <2>3, <2>4 DEF TokenRows
<1> QED
  BY <1>7, <1>9, <1>10, <1>11, <1>12, <1>13, <1>14 DEF IInv

(* Committing an exchange: the token appears, its enrollment is spent, and *)
(* a host that was provisioning becomes active.                            *)
LEMMA ExchangeIInv ==
  ASSUME IInv, NEW w \in Worker, ExchangeCommit(w)
  PROVE  IInv'
<1> DEFINE e == tx[w].enr
           h == HostOf[tx[w].enr]
           n == tx[w].new
           W == IF tx[w].dirty THEN {HostOf[tx[w].enr]} ELSE {}
<1>1. /\ tx[w] \in Tx
      /\ e \in Enr
      /\ h \in Host
      /\ n \in Token
      /\ tok[n].row = "absent"
      /\ enr[e].row = "open"
      /\ ~enr[e].used
      /\ tx[w].hosts = {h}
  BY HostOfType DEF ExchangeCommit, IInv, TypeOK, ClaimInv, Claiming, MintInv, ReadInv
<1>2. tx[w].pc = "flushed" /\ W \in SUBSET Host /\ tx[w].toks \in SUBSET Token
  BY <1>1 DEF ExchangeCommit, Tx
<1>3. /\ tx' \in [Worker -> Tx]
      /\ tx'[w].pc = "idle"
      /\ \A v \in Worker \ {w} : Kept(v, W)
  <2>1. Commit(w, W)
    BY DEF ExchangeCommit
  <2> QED
    BY <1>2, <2>1, CommitShape DEF IInv, TypeOK
<1>4. \A v \in Worker \ {w} :
         /\ tx'[v].pc = tx[v].pc
         /\ tx'[v].enr = tx[v].enr
         /\ tx'[v].hosts = tx[v].hosts
         /\ tx'[v].new = tx[v].new
         /\ tx'[v].dirty = tx[v].dirty
         /\ tx[v].old \subseteq tx'[v].old
  BY <1>3 DEF Kept
<1>5. \A v \in Worker \ {w} : tx[w].dirty /\ h \in tx[v].hosts => h \in tx'[v].old
  BY <1>3 DEF Kept
<1>6. /\ enr' \in [Enr -> EnrRow]
      /\ \A f \in Enr : enr'[f].row = enr[f].row
      /\ enr'[e].used
      /\ \A f \in Enr \ {e} : enr'[f].used = enr[f].used
  <2>1. enr \in [Enr -> EnrRow]
    BY DEF IInv, TypeOK
  <2>2. enr' = [enr EXCEPT ![e].used = TRUE]
    BY DEF ExchangeCommit
  <2>3. e \in Enr
    BY <1>1
  <2> HIDE DEF e
  <2> QED
    BY <2>1, <2>2, <2>3 DEF EnrRow
<1>7. /\ tok' \in [Token -> TokRow]
      /\ tok'[n] = Minted(w)
      /\ \A t \in Token \ {n} :
           /\ tok'[t].enr = tok[t].enr
           /\ tok'[t].bumped = tok[t].bumped
           /\ tok'[t].row \in {"live", "revoked"} <=> tok[t].row \in {"live", "revoked"}
           /\ tok'[t].row = "absent" <=> tok[t].row = "absent"
  <2>1. Minted(w) \in TokRow
    BY <1>1 DEF Minted, TokRow, Tx
  <2>2. tok' = [RevokeLive(tx[w].toks) EXCEPT ![n] = Minted(w)]
    BY DEF ExchangeCommit
  <2>3. /\ RevokeLive(tx[w].toks) \in [Token -> TokRow]
        /\ \A t \in Token :
              /\ RevokeLive(tx[w].toks)[t].enr = tok[t].enr
              /\ RevokeLive(tx[w].toks)[t].bumped = tok[t].bumped
              /\ RevokeLive(tx[w].toks)[t].row \in {"live", "revoked"} <=> tok[t].row \in {"live", "revoked"}
              /\ RevokeLive(tx[w].toks)[t].row = "absent" <=> tok[t].row = "absent"
    BY <1>2, RevokeLiveShape DEF IInv, TypeOK
  <2>4. tok'[n] = Minted(w) /\ \A t \in Token \ {n} : tok'[t] = RevokeLive(tx[w].toks)[t]
    BY <1>1, <2>2, <2>3
  <2>5. tok' \in [Token -> TokRow]
    BY <2>1, <2>2, <2>3
  <2> QED
    BY <2>3, <2>4, <2>5
<1>8. /\ tok'[n].row = "live"
      /\ tok'[n].enr = e
      /\ tok'[n].bumped = tx[w].dirty
  BY <1>7 DEF Minted
<1>9. /\ hst' \in [Host -> HostStatus \cup {"absent", "gone"}]
      /\ \A g \in Host \ W : hst'[g] = hst[g]
      /\ \A g \in Host : hst[g] \in HostStatus => hst'[g] \in HostStatus
      /\ UNCHANGED beat
  <2>1. CASE tx[w].dirty
    <3>1. hst' = [hst EXCEPT ![h] = "active"] /\ beat' = beat
      BY <2>1 DEF ExchangeCommit
    <3> QED
      BY <1>1, <2>1, <3>1 DEF IInv, TypeOK, HostStatus
  <2>2. CASE ~tx[w].dirty
    <3>1. hst' = hst /\ beat' = beat
      BY <2>2 DEF ExchangeCommit
    <3> QED
      BY <3>1 DEF IInv, TypeOK
  <2> QED
    BY <2>1, <2>2
<1>10. \A t \in Token : tok[t].row # "absent" => tok[t].enr # e /\ tok[t].enr \in Enr
  <2>1. \A t \in Token : tok[t].row # "absent" => tok[t].enr \in Enr
    BY DEF IInv, TypeOK, TokRow
  <2> QED
    BY <1>1, <2>1 DEF IInv, SpentInv, SpentForAToken
<1>11. TypeOK'
  <2>1. \A t \in Token : tok'[t].row = "absent" <=> tok'[t].enr = None
    BY <1>1, <1>7, <1>8, NoneIsNew DEF IInv, TypeOK
  <2> QED
    BY <1>3, <1>6, <1>7, <1>9, <2>1 DEF IInv, TypeOK
<1>12. ClaimInv'
  <2> DEFINE Busy(v) == tx'[v].pc \in {"claimed", "selected", "flushed"}
  <2>1. \A v \in Worker : Busy(v) => v # w /\ Claiming(v)
    BY <1>3, <1>4 DEF Claiming
  <2>2. \A v \in Worker : Busy(v) => tx[v].enr # e
    BY <1>2, <2>1 DEF IInv, ClaimInv, Claiming
  <2>3. ASSUME NEW v \in Worker, Busy(v)
        PROVE  /\ tx'[v].enr \in Enr
               /\ enr'[tx'[v].enr].row = "open"
               /\ ~enr'[tx'[v].enr].used
    BY <1>4, <1>6, <2>1, <2>2, <2>3 DEF IInv, ClaimInv
  <2>4. ASSUME NEW v \in Worker, NEW u \in Worker, Busy(v), Busy(u), tx'[v].enr = tx'[u].enr
        PROVE  v = u
    BY <1>4, <2>1, <2>4 DEF IInv, ClaimInv
  <2>5. \A v \in Worker : tx'[v].pc \in {"read", "revoke"} => tx'[v].enr \in Enr
    BY <1>3, <1>4 DEF IInv, ClaimInv
  <2> QED
    BY <2>3, <2>4, <2>5 DEF ClaimInv, Claiming
<1>13. MintInv'
  <2>1. \A v \in Worker : tx'[v].pc = "flushed" =>
          /\ v # w
          /\ tx[v].pc = "flushed"
          /\ tx'[v].new = tx[v].new
    BY <1>3, <1>4
  <2>2. \A v \in Worker : tx'[v].pc = "flushed" => tx[v].new # n
    BY <1>2, <2>1 DEF IInv, MintInv
  <2>3. ASSUME NEW v \in Worker, tx'[v].pc = "flushed"
        PROVE  tx'[v].new \in Token /\ tok'[tx'[v].new].row = "absent"
    BY <1>7, <2>1, <2>2, <2>3 DEF IInv, MintInv
  <2>4. ASSUME NEW v \in Worker, NEW u \in Worker, tx'[v].pc = "flushed",
               tx'[u].pc = "flushed", tx'[v].new = tx'[u].new
        PROVE  v = u
    BY <2>1, <2>4 DEF IInv, MintInv
  <2> QED
    BY <2>3, <2>4 DEF MintInv
<1>14. SpentInv'
  <2>1. SpentForAToken'
    <3> SUFFICES ASSUME NEW f \in Enr
                 PROVE  enr'[f].used <=> \E t \in Token : tok'[t].row # "absent" /\ tok'[t].enr = f
      BY DEF SpentForAToken
    <3>1. CASE f = e
      BY <1>1, <1>6, <1>8, <3>1
    <3>2. CASE f # e
      <4>1. enr[f].used <=> \E t \in Token : tok[t].row # "absent" /\ tok[t].enr = f
        BY DEF IInv, SpentInv, SpentForAToken
      <4>2. \A t \in Token : (tok'[t].row # "absent" /\ tok'[t].enr = f)
                               <=> (tok[t].row # "absent" /\ tok[t].enr = f)
        BY <1>1, <1>7, <1>8, <3>2
      <4> QED
        BY <1>6, <3>2, <4>1, <4>2
    <3> QED
      BY <3>1, <3>2
  <2>2. ASSUME NEW t \in Token, NEW u \in Token, tok'[t].row # "absent",
               tok'[u].row # "absent", tok'[t].enr = tok'[u].enr
        PROVE  t = u
    <3>1. CASE t = n \/ u = n
      BY <1>7, <1>8, <1>10, <2>2, <3>1
    <3>2. CASE t # n /\ u # n
      BY <1>7, <2>2, <3>2 DEF IInv, SpentInv
    <3> QED
      BY <3>1, <3>2
  <2> QED
    BY <2>1, <2>2 DEF SpentInv
<1>15. NoOrphanCredential'
  <2>1. \A f \in Enr : enr'[f].row = "open" => hst'[HostOf[f]] \in HostStatus
    BY <1>6, <1>9, HostOfType DEF IInv, NoOrphanCredential, Exists
  <2>2. \A t \in Token : tok'[t].row \in {"live", "revoked"} =>
          tok'[t].enr \in Enr /\ enr'[tok'[t].enr].row = "open"
    <3> SUFFICES ASSUME NEW t \in Token, tok'[t].row \in {"live", "revoked"}
                 PROVE  tok'[t].enr \in Enr /\ enr'[tok'[t].enr].row = "open"
      OBVIOUS
    <3>1. CASE t = n
      BY <1>1, <1>6, <1>8, <3>1
    <3>2. CASE t # n
      BY <1>6, <1>7, <1>10, <3>2 DEF IInv, NoOrphanCredential
    <3> QED
      BY <3>1, <3>2
  <2> QED
    BY <2>1, <2>2 DEF NoOrphanCredential, Exists
<1>16. ReadInv'
  <2> SUFFICES ASSUME NEW v \in Worker, tx'[v].pc = "flushed"
               PROVE  /\ tx'[v].hosts = {HostOf[tx'[v].enr]}
                      /\ tx'[v].dirty /\ tx'[v].old = {} => hst'[HostOf[tx'[v].enr]] = "provisioning"
    BY DEF ReadInv, Unmoved
  <2>1. v # w /\ tx[v].pc = "flushed"
    BY <1>3, <1>4
  <2>2. /\ tx[v].hosts = {HostOf[tx[v].enr]}
        /\ tx[v].dirty /\ tx[v].old = {} => hst[HostOf[tx[v].enr]] = "provisioning"
    BY <2>1 DEF IInv, ReadInv, Unmoved
  <2>3. HostOf[tx[v].enr] \in Host
    BY <2>1, HostOfType DEF IInv, ClaimInv, Claiming
  <2>4. tx'[v].old = {} => tx[v].old = {} /\ HostOf[tx[v].enr] \notin W
    BY <1>4, <1>5, <2>1, <2>2
  <2> QED
    BY <1>4, <1>9, <2>1, <2>2, <2>3, <2>4
<1>17. DeleteInv'
  <2> SUFFICES ASSUME NEW v \in Worker, tx'[v].pc \in {"delete", "sweep", "sweepDelete"},
                      NEW g \in tx'[v].hosts \ tx'[v].old, NEW t \in TokenRows(g)'
               PROVE  ~tok'[t].bumped
    BY DEF DeleteInv
  <2>1. v # w /\ tx[v].pc \in {"delete", "sweep", "sweepDelete"}
    BY <1>3, <1>4
  <2>2. g \in tx[v].hosts \ tx[v].old
    BY <1>4, <2>1
  <2>3. CASE t = n
    <3>1. g = h
      BY <1>8, <2>3 DEF TokenRows
    <3> QED
      BY <1>5, <1>8, <2>1, <2>2, <2>3, <3>1
  <2>4. CASE t # n
    <3>1. t \in TokenRows(g) /\ tok'[t].bumped = tok[t].bumped
      BY <1>7, <2>4 DEF TokenRows
    <3> QED
      BY <2>1, <2>2, <3>1 DEF IInv, DeleteInv
  <2> QED
    BY <2>3, <2>4
<1> QED
  BY <1>11, <1>12, <1>13, <1>14, <1>15, <1>16, <1>17 DEF IInv

LEMMA StepIInv == IInv /\ [Next]_vars => IInv'
<1> SUFFICES ASSUME IInv, [Next]_vars PROVE IInv'
  OBVIOUS
<1>0. \A w \in Worker : tx[w] \in Tx
  BY DEF IInv, TypeOK
<1>1. ASSUME NEW h \in Host, NEW s \in HostStatus, CreateHost(h, s)
      PROVE  IInv'
  <2>1. /\ hst' \in [Host -> HostStatus \cup {"absent", "gone"}]
        /\ UNCHANGED <<beat, enr, tok, tx>>
        /\ hst[h] = "absent"
        /\ \A g \in Host \ {h} : hst'[g] = hst[g]
        /\ Exists(h)'
    BY <1>1 DEF CreateHost, IInv, TypeOK, Exists
  <2>2. TypeOK' /\ ClaimInv' /\ MintInv' /\ SpentInv' /\ DeleteInv'
    BY <2>1 DEF IInv, TypeOK, ClaimInv, Claiming, MintInv, SpentInv, SpentForAToken, DeleteInv, TokenRows
  <2>3. NoOrphanCredential'
    <3>1. \A g \in Host : Exists(g) => Exists(g)'
      BY <2>1 DEF Exists, HostStatus
    <3>2. \A t \in Token : tok[t].row \in {"live", "revoked"} => tok[t].enr \in Enr
      BY DEF IInv, TypeOK, TokRow
    <3>3. \A e \in Enr : enr[e].row = "open" => Exists(HostOf[e])'
      BY <3>1, HostOfType DEF IInv, NoOrphanCredential
    <3> QED
      BY <2>1, <3>2, <3>3 DEF IInv, NoOrphanCredential, Exists
  <2>4. ReadInv'
    <3> SUFFICES ASSUME NEW v \in Worker, tx[v].pc = "flushed"
                 PROVE  /\ tx[v].hosts = {HostOf[tx[v].enr]}
                        /\ tx[v].dirty /\ tx[v].old = {} => hst'[HostOf[tx[v].enr]] = "provisioning"
      BY <2>1 DEF ReadInv, Unmoved
    <3>1. HostOf[tx[v].enr] \in Host
      BY HostOfType DEF IInv, ClaimInv, Claiming
    <3>2. /\ tx[v].hosts = {HostOf[tx[v].enr]}
          /\ tx[v].dirty /\ tx[v].old = {} => hst[HostOf[tx[v].enr]] = "provisioning"
      BY DEF IInv, ReadInv, Unmoved
    <3> QED
      BY <2>1, <3>1, <3>2
  <2> QED
    BY <2>2, <2>3, <2>4 DEF IInv
<1>2. ASSUME NEW h \in Host, NEW s \in HostStatus, UpdateHost(h, s)
      PROVE  IInv'
  BY <1>2, HostStepIInv DEF UpdateHost, IInv, TypeOK, HostStatus, Exists
<1>3. ASSUME NEW h \in Host, DecommissionHost(h)
      PROVE  IInv'
  BY <1>3, HostStepIInv DEF DecommissionHost, IInv, TypeOK, HostStatus, Exists
<1>4. ASSUME NEW h \in Host, Heartbeat(h)
      PROVE  IInv'
  BY <1>4, HostStepIInv DEF Heartbeat, IInv, TypeOK, HostStatus, Exists
<1>5. ASSUME NEW e \in Enr, CreateEnrollment(e)
      PROVE  IInv'
  <2>1. /\ enr' \in [Enr -> EnrRow]
        /\ \A f \in Enr : enr'[f].used = enr[f].used
        /\ \A f \in Enr \ {e} : enr'[f].row = enr[f].row
        /\ enr'[e].row = "open"
        /\ UNCHANGED <<hst, beat, tok, tx>>
        /\ Exists(HostOf[e])
    BY <1>5 DEF CreateEnrollment, IInv, TypeOK, EnrRow
  <2>2. TypeOK' /\ ClaimInv' /\ MintInv'
    BY <2>1 DEF IInv, TypeOK, ClaimInv, Claiming, MintInv
  <2>3. SpentInv'
    BY <2>1 DEF IInv, SpentInv, SpentForAToken
  <2>4. ReadInv' /\ DeleteInv'
    BY <2>1 DEF IInv, ReadInv, Unmoved, DeleteInv, TokenRows
  <2>5. NoOrphanCredential'
    <3>1. \A t \in Token : tok[t].row \in {"live", "revoked"} => tok[t].enr \in Enr
      BY DEF IInv, TypeOK, TokRow
    <3> QED
      BY <2>1, <3>1 DEF IInv, NoOrphanCredential, Exists
  <2> QED
    BY <2>2, <2>3, <2>4, <2>5 DEF IInv
<1>6. ASSUME NEW e \in Enr, Age(e)
      PROVE  IInv'
  <2>1. /\ enr' \in [Enr -> EnrRow]
        /\ \A f \in Enr : enr'[f].used = enr[f].used /\ enr'[f].row = enr[f].row
        /\ UNCHANGED <<hst, beat, tok, tx>>
    BY <1>6 DEF Age, IInv, TypeOK, EnrRow
  <2>2. TypeOK' /\ ClaimInv' /\ MintInv'
    BY <2>1 DEF IInv, TypeOK, ClaimInv, Claiming, MintInv
  <2>3. SpentInv'
    BY <2>1 DEF IInv, SpentInv, SpentForAToken
  <2>4. ReadInv' /\ DeleteInv'
    BY <2>1 DEF IInv, ReadInv, Unmoved, DeleteInv, TokenRows
  <2>5. NoOrphanCredential'
    <3>1. \A t \in Token : tok[t].row \in {"live", "revoked"} => tok[t].enr \in Enr
      BY DEF IInv, TypeOK, TokRow
    <3> QED
      BY <2>1, <3>1 DEF IInv, NoOrphanCredential, Exists
  <2> QED
    BY <2>2, <2>3, <2>4, <2>5 DEF IInv
<1>7. ASSUME NEW w \in Worker, NEW e \in Enr, ExchangeRead(w, e)
      PROVE  IInv'
  <2> DEFINE r == [Idle EXCEPT !.pc = "read", !.enr = e]
  <2>1. r \in Tx /\ r.pc = "read" /\ r.enr = e
    BY DEF Tx, Pc, Idle
  <2> HIDE DEF r
  <2>2. Open(w, r) /\ UNCHANGED <<hst, beat, enr, tok>>
    BY <1>7 DEF ExchangeRead, r
  <2> QED
    BY <2>1, <2>2, TxStepIInv
<1>8. ASSUME NEW w \in Worker, NEW e \in Enr, RevokeRead(w, e)
      PROVE  IInv'
  <2> DEFINE r == [Idle EXCEPT !.pc = "revoke", !.enr = e]
  <2>1. r \in Tx /\ r.pc = "revoke" /\ r.enr = e
    BY DEF Tx, Pc, Idle
  <2> HIDE DEF r
  <2>2. Open(w, r) /\ UNCHANGED <<hst, beat, enr, tok>>
    BY <1>8 DEF RevokeRead, r
  <2> QED
    BY <2>1, <2>2, TxStepIInv
<1>9. ASSUME NEW w \in Worker, NEW h \in Host, DeleteRead(w, h)
      PROVE  IInv'
  <2> DEFINE r == [Idle EXCEPT !.pc = "delete", !.hosts = {h}]
  <2>1. r \in Tx /\ r.pc = "delete" /\ r.hosts = {h}
    BY DEF Tx, Pc, Idle
  <2> HIDE DEF r
  <2>2. Open(w, r) /\ UNCHANGED <<hst, beat, enr, tok>> /\ TokenRows(h) = {}
    BY <1>9 DEF DeleteRead, EverEnrolled, r
  <2> QED
    BY <2>1, <2>2, TxStepIInv
<1>10. ASSUME NEW w \in Worker, NEW h \in Host, NEW d \in BOOLEAN, GoodbyeRead(w, h, d)
       PROVE  IInv'
  <2> DEFINE r == [Idle EXCEPT !.pc = "goodbyeToks", !.hosts = {h},
                               !.toks = LiveTokens(h), !.dirty = d]
  <2>1. LiveTokens(h) \in SUBSET Token
    BY DEF LiveTokens, TokenRows
  <2>2. r \in Tx /\ r.pc = "goodbyeToks"
    BY <2>1 DEF Tx, Pc, Idle
  <2> HIDE DEF r
  <2>3. Open(w, r) /\ UNCHANGED <<hst, beat, enr, tok>>
    BY <1>10 DEF GoodbyeRead, r
  <2> QED
    BY <2>2, <2>3, TxStepIInv
<1>11. ASSUME NEW w \in Worker, SweepRead(w)
       PROVE  IInv'
  <2> DEFINE F == {h \in Host : Stale(h)}
             r == [Idle EXCEPT !.pc = "sweep", !.hosts = F]
  <2>1. F \in SUBSET Host /\ \A h \in F : TokenRows(h) = {}
    BY DEF Stale, EverEnrolled
  <2> HIDE DEF F
  <2>2. r \in Tx /\ r.pc = "sweep" /\ r.hosts = F
    BY <2>1 DEF Tx, Pc, Idle
  <2> HIDE DEF r
  <2>3. Open(w, r) /\ UNCHANGED <<hst, beat, enr, tok>>
    BY <1>11 DEF SweepRead, r, F
  <2> QED
    BY <2>1, <2>2, <2>3, TxStepIInv
<1>12. ASSUME NEW w \in Worker, ExchangeClaim(w)
       PROVE  IInv'
  <2>1. tx[w].pc = "read" /\ tx[w].enr \in Enr /\ UNCHANGED <<hst, beat, enr, tok>>
    BY <1>12 DEF ExchangeClaim, IInv, ClaimInv
  <2>2. CASE Claimable(tx[w].enr)
    <3> DEFINE r == [tx[w] EXCEPT !.pc = "claimed"]
    <3>1. r \in Tx /\ r.pc = "claimed" /\ r.enr = tx[w].enr
      BY <1>0 DEF Tx, Pc
    <3> HIDE DEF r
    <3>2. Open(w, r)
      BY <1>12, <2>2 DEF ExchangeClaim, Advance, Open, r
    <3>3. \A v \in Worker \ {w} : Claiming(v) => tx[v].enr # tx[w].enr
      BY <1>12 DEF ExchangeClaim, EnrFree, LockedEnrs, Claiming
    <3>4. enr[tx[w].enr].row = "open" /\ ~enr[tx[w].enr].used
      BY <2>2 DEF Claimable
    <3> QED
      BY <2>1, <3>1, <3>2, <3>3, <3>4, TxStepIInv
  <2>3. CASE ~Claimable(tx[w].enr)
    <3>1. Open(w, Idle)
      BY <1>12, <2>3 DEF ExchangeClaim
    <3> QED
      BY <2>1, <3>1, IdleShape, TxStepIInv
  <2> QED
    BY <2>2, <2>3
<1>13. ASSUME NEW w \in Worker, ExchangeSelect(w)
       PROVE  IInv'
  <2> DEFINE r == [tx[w] EXCEPT !.pc = "selected", !.toks = LiveTokens(HostOf[tx[w].enr])]
  <2>1. LiveTokens(HostOf[tx[w].enr]) \in SUBSET Token
    BY DEF LiveTokens, TokenRows
  <2>2. r \in Tx /\ r.pc = "selected" /\ r.enr = tx[w].enr
    BY <1>0, <2>1 DEF Tx, Pc
  <2> HIDE DEF r
  <2>3. Open(w, r) /\ UNCHANGED <<hst, beat, enr, tok>>
    BY <1>13 DEF ExchangeSelect, r
  <2>4. Claiming(w)
    BY <1>13 DEF ExchangeSelect, Claiming
  <2>5. /\ tx[w].enr \in Enr
        /\ enr[tx[w].enr].row = "open"
        /\ ~enr[tx[w].enr].used
        /\ \A v \in Worker \ {w} : Claiming(v) => tx[v].enr # tx[w].enr
    BY <2>4 DEF IInv, ClaimInv
  <2> QED
    BY <2>2, <2>3, <2>5, TxStepIInv
<1>14. ASSUME NEW w \in Worker, NEW t \in Token, ExchangeFlush(w, t)
       PROVE  IInv'
  <2> DEFINE h == HostOf[tx[w].enr]
             d == hst[HostOf[tx[w].enr]] = "provisioning"
             r == [tx[w] EXCEPT !.pc = "flushed", !.new = t, !.hosts = {h}, !.dirty = d]
  <2>1. Claiming(w)
    BY <1>14 DEF ExchangeFlush, Claiming
  <2>2. /\ tx[w].enr \in Enr
        /\ enr[tx[w].enr].row = "open"
        /\ ~enr[tx[w].enr].used
        /\ \A v \in Worker \ {w} : Claiming(v) => tx[v].enr # tx[w].enr
    BY <2>1 DEF IInv, ClaimInv
  <2>3. h \in Host
    BY <2>2, HostOfType
  <2>4. d \in BOOLEAN
    OBVIOUS
  <2>5. Open(w, r) /\ UNCHANGED <<hst, beat, enr, tok>>
    BY <1>14 DEF ExchangeFlush
  <2> HIDE DEF h, d
  <2>6. r \in Tx
    BY <1>0, <2>3, <2>4 DEF Tx, Pc
  <2>7. r.pc = "flushed" /\ r.enr = tx[w].enr /\ r.new = t /\ r.hosts = {h} /\ r.dirty = d
    BY <1>0 DEF Tx
  <2> HIDE DEF r
  <2>8. tok[t].row = "absent" /\ \A v \in Worker : tx[v].new # t
    BY <1>14 DEF ExchangeFlush
  <2>9. r.hosts = {HostOf[r.enr]} /\ (r.dirty => hst[HostOf[r.enr]] = "provisioning")
    BY <2>7 DEF h, d
  <2> QED
    BY <2>2, <2>5, <2>6, <2>7, <2>8, <2>9, TxStepIInv
<1>15. ASSUME NEW w \in Worker, GoodbyeTokens(w)
       PROVE  IInv'
  <2> DEFINE E == {e \in Enr : /\ HostOf[e] \in tx[w].hosts
                               /\ enr[e].row = "open"
                               /\ ~enr[e].used
                               /\ ~enr[e].revoked}
             r == [tx[w] EXCEPT !.pc = "goodbyeEnrs", !.enrs = E]
  <2>1. E \in SUBSET Enr
    OBVIOUS
  <2>2. Open(w, r) /\ UNCHANGED <<hst, beat, enr, tok>>
    BY <1>15 DEF GoodbyeTokens
  <2> HIDE DEF E
  <2>3. r \in Tx /\ r.pc = "goodbyeEnrs"
    BY <1>0, <2>1 DEF Tx, Pc
  <2> HIDE DEF r
  <2> QED
    BY <2>2, <2>3, TxStepIInv
<1>16. ASSUME NEW w \in Worker, SweepCheck(w)
       PROVE  IInv'
  <2>1. UNCHANGED <<hst, beat, enr, tok>> /\ tx[w].pc = "sweep"
    BY <1>16 DEF SweepCheck
  <2>2. CASE \E h \in tx[w].hosts : EverEnrolled(h)
    <3>1. Open(w, Idle)
      BY <1>16, <2>2 DEF SweepCheck
    <3> QED
      BY <2>1, <3>1, IdleShape, TxStepIInv
  <2>3. CASE ~\E h \in tx[w].hosts : EverEnrolled(h)
    <3> DEFINE r == [tx[w] EXCEPT !.pc = "sweepDelete"]
    <3>1. r \in Tx /\ r.pc = "sweepDelete" /\ r.hosts = tx[w].hosts
      BY <1>0 DEF Tx, Pc
    <3> HIDE DEF r
    <3>2. Open(w, r)
      BY <1>16, <2>3 DEF SweepCheck, Advance, Open, r
    <3>3. \A h \in tx[w].hosts : TokenRows(h) = {}
      BY <2>3 DEF EverEnrolled
    <3> QED
      BY <2>1, <3>1, <3>2, <3>3, TxStepIInv
  <2> QED
    BY <2>2, <2>3
<1>17. ASSUME NEW w \in Worker, Rollback(w)
       PROVE  IInv'
  <2>1. Open(w, Idle) /\ UNCHANGED <<hst, beat, enr, tok>>
    BY <1>17 DEF Rollback, Open
  <2> QED
    BY <2>1, IdleShape, TxStepIInv
<1>18. ASSUME NEW w \in Worker, DeleteCommit(w) \/ SweepCommit(w)
       PROVE  IInv'
  <2>1. tx[w].hosts \in SUBSET Host
    BY <1>0 DEF Tx
  <2> QED
    BY <1>18, <2>1, DeleteHostsIInv DEF DeleteCommit, SweepCommit
<1>19. CASE UNCHANGED vars
  <2>1. hst' = hst /\ beat' = beat /\ enr' = enr /\ tok' = tok /\ tx' = tx
    BY <1>19 DEF vars
  <2> QED
    BY <2>1 DEF IInv, TypeOK, ClaimInv, Claiming, MintInv, SpentInv, SpentForAToken, NoOrphanCredential, Exists, ReadInv, Unmoved, DeleteInv, TokenRows
<1>20. CASE \E h \in Host : HostStep(h)
  BY <1>1, <1>2, <1>3, <1>4, <1>20 DEF HostStep
<1>21. CASE \E e \in Enr : EnrStep(e)
  BY <1>5, <1>6, <1>21 DEF EnrStep
<1>22. ASSUME NEW w \in Worker, Begin(w)
       PROVE  IInv'
  BY <1>7, <1>8, <1>9, <1>10, <1>11, <1>22 DEF Begin
<1>23. ASSUME NEW w \in Worker, Step(w)
       PROVE  IInv'
  BY <1>12, <1>13, <1>14, <1>15, <1>16, <1>18, <1>23, ExchangeIInv, RevokeIInv, GoodbyeIInv
     DEF Step, ExchangeStep, GoodbyeStep, SweepStep
<1> QED
  BY <1>17, <1>19, <1>20, <1>21, <1>22, <1>23 DEF Next

-----------------------------------------------------------------------------
LEMMA IInvAlways == Spec => []IInv
  BY InitIInv, StepIInv, PTL DEF Spec

(* Rows and open transactions keep their shapes whatever interleaves: what *)
(* consume_enrollment, complete and the sweep leave in the tables is       *)
(* always a row the models of agents/ and auth/ describe.                  *)
THEOREM TypeCorrect == Spec => []TypeOK
<1>1. IInv => TypeOK
  BY DEF IInv
<1> QED
  BY <1>1, IInvAlways, PTL

(* No two agent tokens ever come from one enrollment, however many         *)
(* exchanges of it overlap (agents/service.py consume_enrollment).         *)
THEOREM ExchangedOnce == Spec => []SingleUse
<1>1. IInv => SingleUse
  BY DEF IInv, SpentInv, ClaimInv, Claiming, SingleUse
<1> QED
  BY <1>1, IInvAlways, PTL

(* An enrollment is marked used exactly when the token it bought exists:   *)
(* the claim and the mint of consume_enrollment commit or vanish together. *)
THEOREM SpentMeansMinted == Spec => []SpentForAToken
<1>1. IInv => SpentForAToken
  BY DEF IInv, SpentInv
<1> QED
  BY <1>1, IInvAlways, PTL

(* A token or an open enrollment always belongs to a host record that      *)
(* exists: deletes cascade to, and wait for, what exchanges write.         *)
THEOREM CredentialsHaveHosts == Spec => []NoOrphanCredential
<1>1. IInv => NoOrphanCredential
  BY DEF IInv
<1> QED
  BY <1>1, IInvAlways, PTL

(* The version check keeps an exchange that read a provisioning host from  *)
(* undoing decommission_host, for any number of overlapping handlers.      *)
THEOREM DecommissionIsForGood == Spec => DecommissionIsFinal
<1> DEFINE Final == \A h \in Host : hst[h] = "decommissioned" => hst'[h] \in {"decommissioned", "gone"}
<1>1. IInv /\ [Next]_vars => [Final]_vars
  <2> SUFFICES ASSUME IInv, Next, NEW h \in Host, hst[h] = "decommissioned"
               PROVE  hst'[h] \in {"decommissioned", "gone"}
    OBVIOUS
  <2>1. hst \in [Host -> HostStatus \cup {"absent", "gone"}]
    BY DEF IInv, TypeOK
  <2>2. CASE \E g \in Host : HostStep(g)
    BY <2>1, <2>2 DEF HostStep, CreateHost, UpdateHost, DecommissionHost, Heartbeat
  <2>3. CASE \E e \in Enr : EnrStep(e)
    BY <2>3 DEF EnrStep, CreateEnrollment, Age
  <2>4. ASSUME NEW w \in Worker, Begin(w) \/ Rollback(w)
        PROVE  hst' = hst
    BY <2>4 DEF Begin, ExchangeRead, RevokeRead, DeleteRead, GoodbyeRead, SweepRead, Rollback
  <2>5. ASSUME NEW w \in Worker, ExchangeCommit(w)
        PROVE  hst'[h] = hst[h]
    <3>1. CASE tx[w].dirty
      <4>1. hst[HostOf[tx[w].enr]] = "provisioning"
        BY <2>5, <3>1 DEF ExchangeCommit, IInv, ReadInv
      <4>2. hst' = [hst EXCEPT ![HostOf[tx[w].enr]] = "active"]
        BY <2>5, <3>1 DEF ExchangeCommit
      <4> QED
        BY <2>1, <4>1, <4>2
    <3>2. CASE ~tx[w].dirty
      BY <2>5, <3>2 DEF ExchangeCommit
    <3> QED
      BY <3>1, <3>2
  <2>6. ASSUME NEW w \in Worker, DeleteCommit(w) \/ SweepCommit(w)
        PROVE  hst'[h] \in {"gone", hst[h]}
    BY <2>6 DEF DeleteCommit, SweepCommit, DeleteHosts
  <2>7. ASSUME NEW w \in Worker, Step(w)
        PROVE  hst'[h] \in {"gone", hst[h]}
    BY <2>5, <2>6, <2>7 DEF Step, ExchangeStep, GoodbyeStep, SweepStep, ExchangeClaim, ExchangeSelect,
         ExchangeFlush, RevokeCommit, GoodbyeTokens, GoodbyeCommit, SweepCheck
  <2> QED
    BY <2>2, <2>3, <2>4, <2>7 DEF Next
<1> QED
  BY <1>1, IInvAlways, PTL DEF Spec, DecommissionIsFinal

(* A delete commits only on a host nobody wrote since it was found without *)
(* tokens, so a host an exchange made active is never deleted.             *)
THEOREM ProvisionedSurvives == Spec => ProvisionedHostSurvives
<1> DEFINE Kind == \A h \in Host : Exists(h) /\ hst'[h] = "gone" =>
                     \A t \in TokenRows(h) : ~tok[t].bumped
<1>1. IInv /\ [Next]_vars => [Kind]_vars
  <2> SUFFICES ASSUME IInv, Next, NEW h \in Host, Exists(h), hst'[h] = "gone"
               PROVE  \A t \in TokenRows(h) : ~tok[t].bumped
    OBVIOUS
  <2>1. hst \in [Host -> HostStatus \cup {"absent", "gone"}] /\ hst[h] # "gone"
    BY DEF IInv, TypeOK, Exists, HostStatus
  <2>2. CASE \E g \in Host : HostStep(g)
    BY <2>1, <2>2 DEF HostStep, CreateHost, UpdateHost, DecommissionHost, Heartbeat
  <2>3. CASE \E e \in Enr : EnrStep(e)
    BY <2>1, <2>3 DEF EnrStep, CreateEnrollment, Age
  <2>4. ASSUME NEW w \in Worker, Begin(w) \/ Rollback(w)
        PROVE  hst' = hst
    BY <2>4 DEF Begin, ExchangeRead, RevokeRead, DeleteRead, GoodbyeRead, SweepRead, Rollback
  <2>5. ASSUME NEW w \in Worker, ExchangeCommit(w)
        PROVE  hst'[h] # "gone"
    BY <2>1, <2>5 DEF ExchangeCommit
  <2>6. ASSUME NEW w \in Worker, DeleteCommit(w) \/ SweepCommit(w)
        PROVE  \A t \in TokenRows(h) : ~tok[t].bumped
    <3>1. tx[w].pc \in {"delete", "sweepDelete"} /\ DeleteHosts(w, tx[w].hosts)
      BY <2>6 DEF DeleteCommit, SweepCommit
    <3>2. tx[w].old = {} /\ h \in tx[w].hosts
      BY <2>1, <3>1 DEF DeleteHosts, Unmoved
    <3> QED
      BY <3>1, <3>2 DEF IInv, DeleteInv
  <2>7. ASSUME NEW w \in Worker, Step(w)
        PROVE  \A t \in TokenRows(h) : ~tok[t].bumped
    <3>1. CASE ExchangeCommit(w)
      BY <2>5, <3>1
    <3>2. CASE DeleteCommit(w) \/ SweepCommit(w)
      BY <2>6, <3>2
    <3>3. CASE hst' = hst
      BY <2>1, <3>3
    <3> QED
      BY <2>7, <3>1, <3>2, <3>3 DEF Step, ExchangeStep, GoodbyeStep, SweepStep, ExchangeClaim, ExchangeSelect,
           ExchangeFlush, RevokeCommit, GoodbyeTokens, GoodbyeCommit, SweepCheck
  <2> QED
    BY <2>1, <2>2, <2>3, <2>4, <2>7 DEF Next
<1> QED
  BY <1>1, IInvAlways, PTL DEF Spec, ProvisionedHostSurvives

-----------------------------------------------------------------------------
(* The refinement of Credentials.  What a step does to the rows determines *)
(* what it does to the abstract state.                                     *)

Issued == {e \in Enr : enr[e].row # "absent"}
Dropped == {e \in Enr : enr[e].row = "gone"}
Spent == [e \in Enr |-> TheToken(MintedFor(e))]
Live == {t \in Token : tok[t].row = "live"}
Retired == {t \in Token : tok[t].row \in {"revoked", "gone"}}

(* A step that neither creates nor deletes an enrollment and leaves the    *)
(* tokens alone is a stutter.                                              *)
LEMMA RowsKeptStutter ==
  ASSUME tok' = tok, \A e \in Enr : enr'[e].row = enr[e].row
  PROVE  UNCHANGED <<Issued, Dropped, Spent, Live, Retired>>
<1>1. \A e \in Enr : MintedFor(e)' = MintedFor(e)
  BY DEF MintedFor
<1>2. Spent' = Spent
  BY <1>1 DEF Spent
<1> QED
  BY <1>2 DEF Issued, Dropped, Live, Retired

(* Tokens keep their enrollment and only go from live to retired: nothing  *)
(* is spent.                                                               *)
LEMMA SpentKept ==
  ASSUME \A t \in Token : /\ tok'[t].enr = tok[t].enr
                          /\ tok'[t].row = "absent" <=> tok[t].row = "absent"
  PROVE  Spent' = Spent
<1>1. \A e \in Enr : MintedFor(e)' = MintedFor(e)
  BY DEF MintedFor
<1> QED
  BY <1>1 DEF Spent

(* What the abstract next-state relation allows, in these terms.           *)
LEMMA StutterIsAbstract ==
  ASSUME UNCHANGED <<Issued, Dropped, Spent, Live, Retired>>
  PROVE  [Abstract!Next]_Abstract!cvars
  BY DEF Abstract!cvars, Issued, Dropped, Spent, Live, Retired

LEMMA IssueIsAbstract ==
  ASSUME NEW e \in Enr, e \notin Issued, Issued' = Issued \cup {e},
         UNCHANGED <<Dropped, Spent, Live, Retired>>
  PROVE  Abstract!Next
  BY DEF Abstract!Next, Abstract!Issue, Issued, Dropped, Spent, Live, Retired

LEMMA ExchangeIsAbstract ==
  ASSUME NEW e \in Enr, NEW t \in Token, NEW S \in SUBSET Live,
         e \in Issued \ Dropped, Spent[e] = None, t \notin Live \cup Retired,
         Spent' = [Spent EXCEPT ![e] = t], Live' = (Live \ S) \cup {t},
         Retired' = Retired \cup S, UNCHANGED <<Issued, Dropped>>
  PROVE  Abstract!Next
<1>1. Abstract!Exchange(e, t, S)
  BY DEF Abstract!Exchange, Issued, Dropped, Spent, Live, Retired
<1> QED
  BY <1>1 DEF Abstract!Next, Live

LEMMA RetireIsAbstract ==
  ASSUME NEW E \in SUBSET Issued, NEW S \in SUBSET Live,
         Dropped' = Dropped \cup E, Live' = Live \ S,
         Retired' = Retired \cup S, UNCHANGED <<Issued, Spent>>
  PROVE  Abstract!Next
<1>1. Abstract!Retire(E, S)
  BY DEF Abstract!Retire, Issued, Dropped, Spent, Live, Retired
<1> QED
  BY <1>1 DEF Abstract!Next, Live, Issued

LEMMA InitRefines == Init => Abstract!Init
<1> SUFFICES ASSUME Init PROVE Abstract!Init
  OBVIOUS
<1>1. \A e \in Enr : enr[e].row = "absent"
  BY DEF Init, NoEnr
<1>2. \A t \in Token : tok[t].row = "absent"
  BY DEF Init, NoTok
<1>3. \A e \in Enr : TheToken(MintedFor(e)) = None
  BY <1>2 DEF MintedFor, TheToken
<1> QED
  BY <1>1, <1>2, <1>3 DEF Abstract!Init

LEMMA ExchangeRefines ==
  ASSUME IInv, NEW w \in Worker, ExchangeCommit(w),
         NEW e \in Enr, e = tx[w].enr, NEW n \in Token, n = tx[w].new
  PROVE  Abstract!Next
<1> DEFINE T == tx[w].toks
           S == {t \in Token : t \in T /\ tok[t].row = "live"}
<1>1. /\ tok[n].row = "absent"
      /\ enr[e].row = "open"
      /\ ~enr[e].used
  BY DEF ExchangeCommit, IInv, ClaimInv, Claiming, MintInv
<1>2. T \in SUBSET Token
  BY DEF IInv, TypeOK, Tx
<1>3. \A f \in Enr : enr'[f].row = enr[f].row
  BY <1>1 DEF ExchangeCommit, IInv, TypeOK, EnrRow
<1>4. /\ tok'[n].row = "live"
      /\ tok'[n].enr = e
      /\ \A t \in Token \ {n} : tok'[t] = RevokeLive(T)[t]
  <2>1. tok' = [RevokeLive(T) EXCEPT ![n] = Minted(w)]
    BY DEF ExchangeCommit
  <2>2. DOMAIN RevokeLive(T) = Token
    BY DEF RevokeLive
  <2>3. tok'[n] = Minted(w)
    BY <1>1, <2>1, <2>2
  <2>4. \A t \in Token \ {n} : tok'[t] = RevokeLive(T)[t]
    BY <2>1, <2>2
  <2> QED
    BY <2>3, <2>4 DEF Minted
<1>5. \A t \in Token :
        /\ t \in S => RevokeLive(T)[t].row = "revoked"
        /\ t \notin S => RevokeLive(T)[t] = tok[t]
  BY DEF RevokeLive, IInv, TypeOK, TokRow
<1>6. \A t \in Token : RevokeLive(T)[t].enr = tok[t].enr
  BY <1>2, RevokeLiveShape DEF IInv, TypeOK
<1>7. \A t \in Token : tok[t].row # "absent" => tok[t].enr # e
  BY <1>1 DEF IInv, SpentInv, SpentForAToken
<1>8. Live' = (Live \ S) \cup {n}
  <2>1. \A t \in Token \ {n} : tok'[t].row = "live" <=> tok[t].row = "live" /\ t \notin S
    BY <1>4, <1>5
  <2> QED
    BY <1>1, <1>4, <2>1 DEF Live
<1>9. Retired' = Retired \cup S
  <2>1. \A t \in Token \ {n} :
          tok'[t].row \in {"revoked", "gone"} <=> tok[t].row \in {"revoked", "gone"} \/ t \in S
    BY <1>4, <1>5
  <2>2. n \notin S /\ n \notin Retired
    BY <1>1 DEF Retired
  <2> QED
    BY <1>4, <2>1, <2>2 DEF Retired
<1>10. MintedFor(e) = {} /\ MintedFor(e)' = {n}
  <2>1. MintedFor(e) = {}
    BY <1>7 DEF MintedFor
  <2>2. \A t \in Token \ {n} : tok'[t].row # "absent" => tok'[t].enr # e
    BY <1>4, <1>5, <1>6, <1>7
  <2>3. \A t \in Token : tok'[t].row # "absent" /\ tok'[t].enr = e <=> t = n
    BY <1>4, <2>2
  <2>4. MintedFor(e)' = {t \in Token : tok'[t].row # "absent" /\ tok'[t].enr = e}
    BY DEF MintedFor
  <2>5. MintedFor(e)' = {n}
    BY <1>1, <2>3, <2>4
  <2> QED
    BY <2>1, <2>5
<1>11. \A f \in Enr \ {e} : MintedFor(f)' = MintedFor(f)
  <2>1. \A t \in Token \ {n} : /\ tok'[t].enr = tok[t].enr
                               /\ tok'[t].row = "absent" <=> tok[t].row = "absent"
    BY <1>4, <1>5, <1>6
  <2> SUFFICES ASSUME NEW f \in Enr \ {e}
               PROVE  {t \in Token : tok'[t].row # "absent" /\ tok'[t].enr = f}
                        = {t \in Token : tok[t].row # "absent" /\ tok[t].enr = f}
    BY DEF MintedFor
  <2> QED
    BY <1>1, <1>4, <2>1
<1>12. Spent' = [Spent EXCEPT ![e] = n] /\ Spent[e] = None
  <2>1. TheToken({}) = None /\ TheToken({n}) = n
    BY DEF TheToken
  <2>2. TheToken(MintedFor(e)) = None /\ TheToken(MintedFor(e)') = n
    BY <1>10, <2>1
  <2>3. \A f \in Enr \ {e} : TheToken(MintedFor(f)') = TheToken(MintedFor(f))
    BY <1>11
  <2>4. Spent[e] = None
    BY <1>1, <2>2 DEF Spent
  <2>5. Spent' = [f \in Enr |-> TheToken(MintedFor(f)')]
    BY DEF Spent
  <2>6. [Spent EXCEPT ![e] = n] = [f \in Enr |-> IF f = e THEN n ELSE TheToken(MintedFor(f))]
    BY DEF Spent
  <2>7. \A f \in Enr : TheToken(MintedFor(f)') = IF f = e THEN n ELSE TheToken(MintedFor(f))
    BY <2>2, <2>3
  <2> QED
    BY <2>4, <2>5, <2>6, <2>7
<1>13. UNCHANGED <<Issued, Dropped>> /\ e \in Issued \ Dropped
  BY <1>1, <1>3 DEF Issued, Dropped
<1>14. n \notin Live \cup Retired /\ S \in SUBSET Live
  BY <1>1 DEF Live, Retired
<1> QED
  BY <1>1, <1>8, <1>9, <1>12, <1>13, <1>14, ExchangeIsAbstract

LEMMA GoodbyeRefines ==
  ASSUME IInv, NEW w \in Worker, GoodbyeCommit(w)
  PROVE  Abstract!Next
<1> DEFINE T == tx[w].toks
           S == {t \in Token : t \in T /\ tok[t].row = "live"}
<1>1. tok' = RevokeLive(T) /\ T \in SUBSET Token
  BY DEF GoodbyeCommit, IInv, TypeOK, Tx
<1>2. \A t \in Token : /\ tok'[t].enr = tok[t].enr
                       /\ tok'[t].row = "absent" <=> tok[t].row = "absent"
  BY <1>1, RevokeLiveShape DEF IInv, TypeOK
<1>3. \A t \in Token :
        /\ t \in S => tok'[t].row = "revoked"
        /\ t \notin S => tok'[t] = tok[t]
  BY <1>1 DEF RevokeLive, IInv, TypeOK, TokRow
<1>4. \A e \in Enr : enr'[e].row = enr[e].row
  BY DEF GoodbyeCommit, IInv, TypeOK, EnrRow
<1>5. S \in SUBSET Live /\ Live' = Live \ S /\ Retired' = Retired \cup S
  BY <1>3 DEF Live, Retired
<1>6. Spent' = Spent
  BY <1>2, SpentKept
<1>7. Issued' = Issued /\ Dropped' = Dropped \cup {} /\ {} \in SUBSET Issued
  BY <1>4 DEF Issued, Dropped
<1> QED
  BY <1>5, <1>6, <1>7, RetireIsAbstract

LEMMA DeleteRefines ==
  ASSUME IInv, NEW w \in Worker, NEW H \in SUBSET Host, DeleteHosts(w, H)
  PROVE  Abstract!Next
<1> DEFINE D == {t \in Token : \E h \in H : t \in TokenRows(h)}
           S == {t \in D : tok[t].row = "live"}
           E == {e \in Enr : HostOf[e] \in H /\ enr[e].row = "open"}
<1>1. \A t \in Token :
        /\ t \in D => tok'[t] = [tok[t] EXCEPT !.row = "gone"]
        /\ t \notin D => tok'[t] = tok[t]
  BY DEF DeleteHosts
<1>2. \A t \in D : tok[t].row \in {"live", "revoked"}
  BY DEF TokenRows
<1>3. \A t \in Token : tok[t] \in TokRow
  BY DEF IInv, TypeOK
<1> HIDE DEF D
<1>4. \A t \in Token :
        /\ t \in D => tok'[t].row = "gone"
        /\ tok'[t].enr = tok[t].enr
        /\ tok'[t].row = "absent" <=> tok[t].row = "absent"
  <2> SUFFICES ASSUME NEW t \in Token
               PROVE  /\ t \in D => tok'[t].row = "gone"
                      /\ tok'[t].enr = tok[t].enr
                      /\ tok'[t].row = "absent" <=> tok[t].row = "absent"
    OBVIOUS
  <2>1. tok[t] \in TokRow
    BY <1>3
  <2>2. CASE t \in D
    BY <1>1, <1>2, <2>1, <2>2 DEF TokRow
  <2>3. CASE t \notin D
    BY <1>1, <2>3
  <2> QED
    BY <2>2, <2>3
<1>5. \A e \in Enr :
        /\ e \in E => enr'[e].row = "gone" /\ enr[e].row = "open"
        /\ e \notin E => enr'[e].row = enr[e].row
  BY DEF DeleteHosts, DropEnrollments, IInv, TypeOK, EnrRow
<1>6. S \in SUBSET Live /\ Live' = Live \ S
  <2>1. \A t \in Token : tok'[t].row = "live" <=> tok[t].row = "live" /\ t \notin D
    BY <1>1, <1>4
  <2>2. D \subseteq Token
    BY DEF D
  <2> QED
    BY <2>1, <2>2 DEF Live
<1>7. Retired' = Retired \cup S
  <2>1. \A t \in Token :
          tok'[t].row \in {"revoked", "gone"} <=> tok[t].row \in {"revoked", "gone"} \/ t \in S
    BY <1>1, <1>2, <1>4
  <2>2. S \subseteq Token
    BY DEF D
  <2> QED
    BY <2>1, <2>2 DEF Retired
<1>8. Spent' = Spent
  BY <1>4, SpentKept
<1>9. Issued' = Issued /\ Dropped' = Dropped \cup E /\ E \in SUBSET Issued
  <2> HIDE DEF E
  <2>1. E \subseteq Enr
    BY DEF E
  <2> QED
    BY <1>5, <2>1 DEF Issued, Dropped
<1> QED
  BY <1>6, <1>7, <1>8, <1>9, RetireIsAbstract

LEMMA StepRefines == IInv /\ [Next]_vars => [Abstract!Next]_Abstract!cvars
<1> SUFFICES ASSUME IInv, [Next]_vars PROVE [Abstract!Next]_Abstract!cvars
  OBVIOUS
<1>1. ASSUME tok' = tok, \A e \in Enr : enr'[e].row = enr[e].row
      PROVE  [Abstract!Next]_Abstract!cvars
  BY <1>1, RowsKeptStutter, StutterIsAbstract
<1>2. ASSUME NEW e \in Enr, CreateEnrollment(e)
      PROVE  Abstract!Next
  <2>1. /\ enr[e].row = "absent"
        /\ enr'[e].row = "open"
        /\ \A f \in Enr \ {e} : enr'[f].row = enr[f].row
        /\ tok' = tok
    BY <1>2 DEF CreateEnrollment, IInv, TypeOK, EnrRow
  <2>2. Spent' = Spent
    BY <2>1, SpentKept
  <2>3. e \notin Issued /\ Issued' = Issued \cup {e} /\ UNCHANGED <<Dropped, Live, Retired>>
    BY <2>1 DEF Issued, Dropped, Live, Retired
  <2> QED
    BY <2>2, <2>3, IssueIsAbstract
<1>3. ASSUME NEW e \in Enr, Age(e)
      PROVE  tok' = tok /\ \A f \in Enr : enr'[f].row = enr[f].row
  BY <1>3 DEF Age, IInv, TypeOK, EnrRow
<1>4. ASSUME NEW w \in Worker, RevokeCommit(w)
      PROVE  tok' = tok /\ \A f \in Enr : enr'[f].row = enr[f].row
  BY <1>4 DEF RevokeCommit, IInv, TypeOK, EnrRow
<1>5. ASSUME NEW w \in Worker, DeleteCommit(w) \/ SweepCommit(w)
      PROVE  Abstract!Next
  <2>1. tx[w].hosts \in SUBSET Host
    BY DEF IInv, TypeOK, Tx
  <2> QED
    BY <1>5, <2>1, DeleteRefines DEF DeleteCommit, SweepCommit
<1>6. CASE \E h \in Host : HostStep(h)
  BY <1>1, <1>6 DEF HostStep, CreateHost, UpdateHost, DecommissionHost, Heartbeat
<1>7. CASE \E e \in Enr : EnrStep(e)
  BY <1>1, <1>2, <1>3, <1>7 DEF EnrStep
<1>8. ASSUME NEW w \in Worker, Begin(w) \/ Rollback(w)
      PROVE  tok' = tok /\ enr' = enr
  BY <1>8 DEF Begin, ExchangeRead, RevokeRead, DeleteRead, GoodbyeRead, SweepRead, Rollback
<1>9. ASSUME NEW w \in Worker, Step(w)
      PROVE  [Abstract!Next]_Abstract!cvars
  <2>1. CASE ExchangeCommit(w)
    <3>1. tx[w].enr \in Enr /\ tx[w].new \in Token
      BY <2>1 DEF ExchangeCommit, IInv, ClaimInv, Claiming, MintInv
    <3> QED
      BY <2>1, <3>1, ExchangeRefines
  <2>2. CASE RevokeCommit(w)
    BY <1>1, <1>4, <2>2
  <2>3. CASE DeleteCommit(w) \/ SweepCommit(w)
    BY <1>5, <2>3
  <2>4. CASE GoodbyeCommit(w)
    BY <2>4, GoodbyeRefines
  <2>5. CASE tok' = tok /\ enr' = enr
    BY <1>1, <2>5
  <2> QED
    BY <1>9, <2>1, <2>2, <2>3, <2>4, <2>5 DEF Step, ExchangeStep, GoodbyeStep, SweepStep,
         ExchangeClaim, ExchangeSelect, ExchangeFlush, GoodbyeTokens, SweepCheck
<1>10. CASE UNCHANGED vars
  BY <1>1, <1>10 DEF vars
<1> QED
  BY <1>1, <1>6, <1>7, <1>8, <1>9, <1>10 DEF Next

(* However their transactions interleave, the handlers implement the       *)
(* indivisible issue, exchange and retire operations of Credentials.       *)
THEOREM RefinesCredentials == Spec => ImplementsCredentials
<1>1. Spec => Abstract!Init /\ [][Abstract!Next]_Abstract!cvars
  BY InitRefines, StepRefines, IInvAlways, PTL DEF Spec
<1> QED
  BY <1>1 DEF ImplementsCredentials, Abstract!Spec
=============================================================================
