-------------------------- MODULE ServerUpdate_proofs --------------------------
(* Proofs about the self-update, for any number of requests, releases and  *)
(* commands that outlive their time limit.                                 *)
(*                                                                         *)
(* None of the properties is inductive.  UpdateInv adds what each of them  *)
(* rests on: Releases, what every record that names a release names;       *)
(* Asking, the order in which requests come and rows appear; Alone, that   *)
(* only the latest run is acted on, hence one updater; Stages, what each   *)
(* stage of that updater has already made true; Standing, that its dump    *)
(* and the requests in flight agree with the verdicts reached.             *)
EXTENDS ServerUpdate, WellFoundedInduction, TLAPS

-----------------------------------------------------------------------------
(* The newest of a set of runs is one of them and none is newer.           *)
LEMMA NewestIs ==
  ASSUME NEW S \in SUBSET Run, S # {}
  PROVE  Newest(S) \in S /\ \A s \in S : s <= Newest(S)
<1> DEFINE T == {MaxRun - s : s \in S}
           Less == OpToRel(<, Nat)
<1> USE BoundsAssumption
<1>1. \A s \in S : s \in Int /\ MaxRun - s \in Nat
  BY DEF Run
<1>2. T \in SUBSET Nat /\ T # {}
  BY <1>1
<1>3. PICK x \in T : \A y \in T : <<y, x>> \notin Less
  <2> HIDE DEF T
  <2>1. IsWellFoundedOn(Less, Nat)
    BY NatLessThanWellFounded
  <2> HIDE DEF Less
  <2> QED
    BY <1>2, <2>1, WFMin
<1>4. ASSUME NEW y \in T
      PROVE  x <= y
  <2>1. x \in Nat /\ y \in Nat
    BY <1>2
  <2>2. <<y, x>> \notin Less
    BY <1>3
  <2>3. ~(y < x)
    BY <2>1, <2>2 DEF OpToRel
  <2> QED
    BY <2>1, <2>3
<1>5. PICK r \in S : x = MaxRun - r
  OBVIOUS
<1>6. ASSUME NEW s \in S
      PROVE  s <= r
  <2>1. x <= MaxRun - s
    BY <1>4
  <2> QED
    BY <1>1, <1>5, <2>1
<1>7. \E q \in S : \A s \in S : s <= q
  BY <1>6
<1> QED
  BY <1>7 DEF Newest

(* The latest row: the newest of those that exist, 0 when there is none.   *)
LEMMA LatestIs ==
  /\ Latest \in Run \cup {0}
  /\ Latest = 0 => \A r \in Run : ~Exists(r)
  /\ Latest # 0 => Exists(Latest) /\ \A r \in Run : Exists(r) => r <= Latest
<1> DEFINE S == {r \in Run : Exists(r)}
<1>0. 0 \notin Run
  BY BoundsAssumption DEF Run
<1>1. CASE S = {}
  BY <1>1 DEF Latest
<1>2. CASE S # {}
  <2>1. Latest = Newest(S)
    BY <1>2 DEF Latest
  <2>2. Newest(S) \in S /\ \A s \in S : s <= Newest(S)
    BY <1>2, NewestIs
  <2> QED
    BY <1>0, <2>1, <2>2
<1> QED
  BY <1>1, <1>2

(* Where an updater can be. *)
Place == {"none", "boot", "picked", "check", "r_sync", "r_restore", "r_restart",
          "r_verify", "ended"} \cup (Status \ {"absent", "queued"})

(* Only the process u, its updater and its dump, changes.                  *)
OnlyUpd(u) == \A v \in Run \ {u} : upd'[v] = upd[v]
OnlyDump(u) == \A v \in Run \ {u} : dump'[v] = dump[v]

(* It works on the same run.                                               *)
SameRun(u) ==
  upd'[u].row = upd[u].row /\ upd'[u].from = upd[u].from /\ upd'[u].to = upd[u].to

LEMMA GotoDoes ==
  ASSUME TypeOK, NEW u \in Run, NEW p \in Place, Goto(u, p)
  PROVE  /\ upd' \in [Run -> UpdType]
         /\ upd'[u].pc = p /\ ~upd'[u].told /\ SameRun(u) /\ upd'[u].old = upd[u].old
         /\ OnlyUpd(u)
<1> DEFINE w == [upd[u] EXCEPT !.pc = p, !.told = FALSE]
<1>1. upd[u] \in UpdType /\ upd \in [Run -> UpdType]
  BY DEF TypeOK
<1>2. upd' = [upd EXCEPT ![u] = w]
  BY <1>1 DEF Goto, UpdType
<1>3. /\ w \in UpdType /\ w.pc = p /\ w.told = FALSE /\ w.row = upd[u].row
      /\ w.from = upd[u].from /\ w.to = upd[u].to /\ w.old = upd[u].old
  BY <1>1 DEF UpdType, Place
<1> HIDE DEF w
<1>4. upd'[u] = w /\ OnlyUpd(u) /\ upd' \in [Run -> UpdType]
  BY <1>1, <1>2, <1>3 DEF OnlyUpd
<1> QED
  BY <1>3, <1>4 DEF SameRun

LEMMA UpdOverIs == UpdOver \in UpdType /\ UpdOver.pc = "ended"
<1>1. NoUpd \in UpdType
  BY BoundsAssumption DEF NoUpd, UpdType
<1> QED
  BY <1>1 DEF UpdOver, UpdType

LEMMA EndDoes ==
  ASSUME TypeOK, NEW u \in Run, End(u)
  PROVE  /\ upd' \in [Run -> UpdType] /\ dump' \in [Run -> DumpType]
         /\ upd'[u].pc = "ended" /\ dump'[u] = NoDump
         /\ OnlyUpd(u) /\ OnlyDump(u)
<1>1. UpdOver \in UpdType /\ UpdOver.pc = "ended"
  BY UpdOverIs
<1>2. NoDump \in DumpType
  BY BoundsAssumption DEF NoDump, DumpType, NoRow, RowType, Status
<1> QED
  BY <1>1, <1>2 DEF End, TypeOK, OnlyUpd, OnlyDump

LEMMA OverIs ==
  /\ NoReq \in ReqType /\ NoReq.pc = "none"
  /\ ReqOver \in ReqType /\ ReqOver.pc = "done"
<1>0. 0 \in 0..MaxRun /\ 0 \in 0..MaxVersion
  BY BoundsAssumption
<1>1. NoReq \in ReqType /\ NoReq.pc = "none"
  BY <1>0 DEF NoReq, ReqType
<1> QED
  BY <1>1 DEF ReqOver, ReqType

LEMMA HandlersEnd ==
  ASSUME TypeOK, req' = HandlersOver
  PROVE  /\ req' \in [Run -> ReqType]
         /\ \A r \in Run : req'[r].pc = IF req[r].pc = "none" THEN "none" ELSE "done"
<1> QED
  BY OverIs DEF HandlersOver

(* One handler moves on.                                                   *)
LEMMA HandlerMoves ==
  ASSUME TypeOK, NEW r \in Run, NEW w \in ReqType, req' = [req EXCEPT ![r] = w]
  PROVE  req' \in [Run -> ReqType] /\ req'[r] = w /\ \A q \in Run \ {r} : req'[q] = req[q]
BY DEF TypeOK

(* A row gets a new status, and nothing else of the table changes.         *)
LEMMA RowGets ==
  ASSUME NEW t \in [Run -> RowType], NEW r \in Run, NEW s \in Status, NEW n,
         n = [t EXCEPT ![r].status = s]
  PROVE  /\ n \in [Run -> RowType]
         /\ n[r].status = s /\ n[r].from = t[r].from /\ n[r].to = t[r].to
         /\ \A q \in Run \ {r} : n[q] = t[q]
BY DEF RowType

LEMMA CommandIs ==
  ASSUME TypeOK, NEW u \in Run, Running(u)
  PROVE  LET c == Command(u)
             p == upd[u].pc
         IN /\ c \in CommandType
            /\ p = "checking_out" => c.kind = "checkout" /\ c.ver = upd[u].to
            /\ p = "rolling_back" => c.kind = "checkout" /\ c.ver = upd[u].old
            /\ p \in {"syncing", "r_sync"} => c.kind = "sync" /\ c.ver = code
            /\ p = "migrating" => c.kind = "migrate" /\ c.ver = code
            /\ p \in {"restarting", "r_restart"} => c.kind = "restart"
            /\ p = "r_restore" => c.kind = "restore" /\ c.from = dump[u]
            /\ p # "r_restore" => c.from = NoDump
            /\ p \in {"checking_out", "rolling_back", "syncing", "r_sync", "migrating",
                      "restarting", "r_restart", "r_restore"}
<1>1. upd[u] \in UpdType /\ dump[u] \in DumpType /\ code \in 0..MaxVersion /\ 0 \in 0..MaxVersion
  BY BoundsAssumption DEF TypeOK, Version
<1>2. NoDump \in DumpType
  BY BoundsAssumption DEF NoDump, DumpType, NoRow, RowType, Status
<1>3. upd[u].pc \in {"checking_out", "rolling_back", "syncing", "r_sync", "migrating",
                     "restarting", "r_restart", "r_restore"}
  BY DEF Running, Forward
<1>4. upd[u].to \in 0..MaxVersion /\ upd[u].old \in 0..MaxVersion
  BY <1>1 DEF UpdType
<1> QED
  BY <1>1, <1>2, <1>3, <1>4 DEF Command, CommandType

-----------------------------------------------------------------------------
(* Real releases.  Whatever names a release names a real one: a row, in    *)
(* the table, in a dump or in a pg_restore still running; an updater past  *)
(* the row it picked; a command.  An updater has a dump exactly from the   *)
(* snapshot on, and no handler outlives the service.                       *)
RowsOk(t) == \A r \in Run : t[r].status # "absent" => t[r].from \in Version /\ t[r].to \in Version

DumpOk(d) == RowsOk(d.row) /\ IF d.taken THEN d.schema \in Version ELSE d = NoDump

Early == {"none", "boot", "picked", "check", "snapshotting", "ended"}
Dumped == Forward \cup Backward \cup {"success", "rolled_back"}

UpdOk(w, d) ==
  /\ w.pc \notin {"none", "boot", "ended"} => w.to \in Version /\ w.from \in Version
  /\ w.pc \in Dumped \cup {"snapshotting"} => w.old \in Version
  /\ w.pc \in Dumped => d.taken
  /\ w.pc \in Early => ~d.taken

ReqOk(q, s) ==
  /\ q.pc = "checked" => q.to \in Version
  /\ q.pc \in {"checked", "inserted", "failing"} => s # 0

CommandOk(c) ==
  /\ c.kind \in {"checkout", "sync", "migrate"} => c.ver \in Version
  /\ c.kind = "restore" => c.from.taken
  /\ DumpOk(c.from)

Releases ==
  /\ RowsOk(row)
  /\ \A u \in Run : DumpOk(dump[u])
  /\ \A u \in Run : UpdOk(upd[u], dump[u])
  /\ \A r \in Run : ReqOk(req[r], server)
  /\ \A r \in Run : req[r].pc # "done" => upd[r].pc = "none"
  /\ \A c \in orphan : CommandOk(c)

LEMMA NothingDumped == NoDump \in DumpType /\ DumpOk(NoDump) /\ ~NoDump.taken
<1>1. NoRow \in RowType /\ NoRow.status = "absent"
  BY BoundsAssumption DEF NoRow, RowType, Status
<1>2. NoDump.row = [r \in Run |-> NoRow] /\ ~NoDump.taken
  BY DEF NoDump
<1>3. NoDump \in DumpType
  BY <1>1, BoundsAssumption DEF NoDump, DumpType
<1> QED
  BY <1>1, <1>2, <1>3 DEF DumpOk, RowsOk

LEMMA CommandReal ==
  ASSUME TypeOK, Releases, NEW u \in Run, Running(u)
  PROVE  Command(u) \in CommandType /\ CommandOk(Command(u))
<1> DEFINE c == Command(u)
           p == upd[u].pc
<1>1. /\ c \in CommandType
      /\ p = "checking_out" => c.kind = "checkout" /\ c.ver = upd[u].to
      /\ p = "rolling_back" => c.kind = "checkout" /\ c.ver = upd[u].old
      /\ p \in {"syncing", "r_sync"} => c.kind = "sync" /\ c.ver = code
      /\ p = "migrating" => c.kind = "migrate" /\ c.ver = code
      /\ p \in {"restarting", "r_restart"} => c.kind = "restart"
      /\ p = "r_restore" => c.kind = "restore" /\ c.from = dump[u]
      /\ p # "r_restore" => c.from = NoDump
      /\ p \in {"checking_out", "rolling_back", "syncing", "r_sync", "migrating",
                "restarting", "r_restart", "r_restore"}
  BY CommandIs
<1> HIDE DEF c
<1>2. UpdOk(upd[u], dump[u]) /\ DumpOk(dump[u]) /\ code \in Version
  BY DEF Releases, TypeOK
<1>3. p \in Dumped /\ p \notin {"none", "boot", "ended"}
  BY <1>1 DEF Dumped, Forward, Backward
<1>4. upd[u].to \in Version /\ upd[u].old \in Version /\ dump[u].taken
  BY <1>2, <1>3 DEF UpdOk
<1>5. CommandOk(c)
  BY <1>1, <1>2, <1>4, NothingDumped DEF CommandOk
<1> QED
  BY <1>1, <1>5 DEF c

(* What a command may do, whichever it is.                                 *)
LEMMA TakesDoes ==
  ASSUME TypeOK, NEW c \in CommandType, CommandOk(c), Takes(c)
  PROVE  /\ code' \in Version /\ venv' \in Version \cup {0} /\ schema' \in Version
         /\ server' \in Version \cup {0}
         /\ row' \in [Run -> RowType] /\ (RowsOk(row) => RowsOk(row'))
         /\ req' \in [Run -> ReqType]
         /\ \/ UNCHANGED <<req, server>>
            \/ c.kind = "restart" /\ req' = HandlersOver
         /\ UNCHANGED row \/ (c.kind = "restore" /\ row' = c.from.row)
<1>1. c.from \in DumpType /\ c.from.row \in [Run -> RowType]
  BY DEF CommandType, DumpType
<1>2. /\ row \in [Run -> RowType] /\ req \in [Run -> ReqType] /\ server \in Version \cup {0}
      /\ code \in Version /\ venv \in Version \cup {0} /\ schema \in Version
  BY DEF TypeOK
<1>3. CASE c.kind \in {"checkout", "sync", "migrate"}
  BY <1>2, <1>3 DEF Takes, CommandOk
<1>4. CASE c.kind = "restart"
  <2>1. req' = HandlersOver /\ server' \in {code, 0} /\ UNCHANGED <<row, code, venv, schema>>
    BY <1>4 DEF Takes
  <2>2. req' \in [Run -> ReqType]
    BY <2>1, HandlersEnd
  <2> QED
    BY <1>2, <1>4, <2>1, <2>2
<1>5. CASE c.kind = "restore"
  <2>1. row' = c.from.row /\ schema' = c.from.schema /\ UNCHANGED <<req, code, venv, server>>
    BY <1>5 DEF Takes
  <2>2. RowsOk(c.from.row) /\ c.from.schema \in Version
    BY <1>5 DEF CommandOk, DumpOk
  <2> QED
    BY <1>1, <1>2, <1>5, <2>1, <2>2
<1> QED
  BY <1>3, <1>4, <1>5 DEF CommandType

TypeInv == TypeOK /\ Releases

(* A command that fails: nothing, half of it or all of it was done.        *)
LEMMA FailsDoes ==
  ASSUME TypeInv, NEW u \in Run, CommandFails(u)
  PROVE  /\ Running(u) /\ GiveUp(u)
         /\ code' \in Version /\ venv' \in Version \cup {0} /\ schema' \in Version
         /\ server' \in Version \cup {0} /\ intact' \in BOOLEAN
         /\ row' \in [Run -> RowType] /\ RowsOk(row')
         /\ UNCHANGED <<req, server>> \/ req' = HandlersOver
         /\ \/ UNCHANGED row
            \/ upd[u].pc = "r_restore" /\ row' = dump[u].row /\ UNCHANGED req
         /\ UNCHANGED <<dump, orphan, flaw>>
<1>1. /\ TypeOK /\ row \in [Run -> RowType] /\ RowsOk(row) /\ intact \in BOOLEAN
      /\ code \in Version /\ venv \in Version \cup {0} /\ schema \in Version
      /\ server \in Version \cup {0}
  BY DEF TypeInv, TypeOK, Releases
<1>2. Running(u) /\ GiveUp(u) /\ UNCHANGED <<dump, orphan, flaw>>
  BY DEF CommandFails
<1>3. CASE UNCHANGED <<row, req, release, intact>>
  BY <1>1, <1>2, <1>3 DEF release
<1>4. CASE StopsHalfway(Command(u)) /\ UNCHANGED <<row, code, schema>>
  BY <1>1, <1>2, <1>4 DEF StopsHalfway
<1>5. CASE Takes(Command(u)) /\ UNCHANGED intact
  <2>1. Command(u) \in CommandType /\ CommandOk(Command(u))
    BY <1>2, CommandReal DEF TypeInv
  <2>2. /\ code' \in Version /\ venv' \in Version \cup {0} /\ schema' \in Version
        /\ server' \in Version \cup {0} /\ row' \in [Run -> RowType] /\ RowsOk(row')
        /\ UNCHANGED <<req, server>> \/ req' = HandlersOver
    BY <1>1, <1>5, <2>1, TakesDoes
  <2>3. CASE Command(u).kind = "restore"
    <3>1. upd[u].pc = "r_restore" /\ Command(u).from = dump[u]
      BY <1>1, <1>2, <2>3, CommandIs
    <3>2. row' = Command(u).from.row /\ UNCHANGED req
      BY <1>5, <2>3 DEF Takes
    <3> QED
      BY <1>1, <1>2, <1>5, <2>2, <3>1, <3>2
  <2>4. CASE Command(u).kind # "restore"
    <3>1. UNCHANGED row
      BY <1>1, <1>5, <2>1, <2>4, TakesDoes
    <3> QED
      BY <1>1, <1>2, <1>5, <2>2, <3>1
  <2> QED
    BY <2>3, <2>4
<1> QED
  BY <1>3, <1>4, <1>5 DEF CommandFails

LEMMA TypeInit == Init => TypeInv
<1> SUFFICES ASSUME Init PROVE TypeInv
  OBVIOUS
<1>0. 0 \in 0..MaxRun /\ 0 \in 0..MaxVersion /\ 1 \in Version
  BY BoundsAssumption DEF Version
<1>1. NoRow \in RowType /\ NoRow.status = "absent"
  BY <1>0 DEF NoRow, RowType, Status
<1>2. NoReq \in ReqType /\ NoReq.pc = "none" /\ NoUpd \in UpdType /\ NoUpd.pc = "none"
  BY <1>0 DEF NoReq, ReqType, NoUpd, UpdType
<1>3. TypeOK
  BY <1>0, <1>1, <1>2, NothingDumped DEF Init, TypeOK
<1>4. RowsOk(row)
  BY <1>1 DEF Init, RowsOk
<1>5. UpdOk(NoUpd, NoDump)
  BY <1>2, NothingDumped DEF UpdOk, Dumped, Forward, Backward
<1>6. ReqOk(NoReq, server)
  BY <1>2 DEF ReqOk
<1>7. Releases
  BY <1>2, <1>4, <1>5, <1>6, NothingDumped DEF Releases, Init
<1> QED
  BY <1>3, <1>7 DEF TypeInv

LEMMA TypeNext == TypeInv /\ [Next]_vars => TypeInv'
<1> SUFFICES ASSUME TypeInv, [Next]_vars
             PROVE  TypeInv'
  OBVIOUS
<1>0. TypeOK /\ Releases
  BY DEF TypeInv
<1>a. /\ row \in [Run -> RowType] /\ req \in [Run -> ReqType] /\ upd \in [Run -> UpdType]
      /\ dump \in [Run -> DumpType] /\ code \in Version /\ venv \in Version \cup {0}
      /\ schema \in Version
      /\ server \in Version \cup {0} /\ intact \in BOOLEAN /\ orphan \subseteq CommandType
      /\ flaw \subseteq {"race", "reaped", "timeout", "late"}
  BY <1>0 DEF TypeOK
<1>b. /\ RowsOk(row) /\ (\A u \in Run : DumpOk(dump[u])) /\ (\A u \in Run : UpdOk(upd[u], dump[u]))
      /\ (\A r \in Run : ReqOk(req[r], server))
      /\ (\A r \in Run : req[r].pc # "done" => upd[r].pc = "none") /\ \A c \in orphan : CommandOk(c)
  BY <1>0 DEF Releases
\* A step of a handler changes at most the table, its own record and `flaw`.
<1>c. ASSUME row' \in [Run -> RowType], RowsOk(row'), req' \in [Run -> ReqType],
             \A r \in Run : ReqOk(req'[r], server'),
             \A r \in Run : req[r].pc = "done" => req'[r].pc = "done", server' \in Version \cup {0},
             flaw' \subseteq {"race", "reaped", "timeout", "late"},
             UNCHANGED <<upd, dump, code, venv, schema, intact, orphan>>
      PROVE  TypeInv'
  BY <1>a, <1>b, <1>c DEF TypeInv, TypeOK, Releases
<1>d. ASSUME NEW u \in Run, upd' \in [Run -> UpdType], OnlyUpd(u), UNCHANGED dump,
             UpdOk(upd'[u], dump[u])
      PROVE  \A v \in Run : UpdOk(upd'[v], dump'[v])
  BY <1>b, <1>d DEF OnlyUpd
<1>e. ASSUME NEW u \in Run, upd' \in [Run -> UpdType], UpdOk(upd'[u], dump[u]), OnlyUpd(u),
             upd[u].pc # "none", row' \in [Run -> RowType], RowsOk(row'),
             UNCHANGED <<req, dump, release, intact, orphan, flaw>>
      PROVE  TypeInv'
  <2>1. \A v \in Run : UpdOk(upd'[v], dump'[v])
    BY <1>d, <1>e
  <2> QED
    BY <1>a, <1>b, <1>e, <2>1 DEF OnlyUpd, TypeInv, TypeOK, Releases, release
<1>f. ASSUME NEW u \in Run, End(u)
      PROVE  /\ upd' \in [Run -> UpdType] /\ dump' \in [Run -> DumpType]
             /\ \A v \in Run : DumpOk(dump'[v]) /\ UpdOk(upd'[v], dump'[v])
  <2>1. /\ upd' \in [Run -> UpdType] /\ dump' \in [Run -> DumpType]
        /\ upd'[u].pc = "ended" /\ dump'[u] = NoDump /\ OnlyUpd(u) /\ OnlyDump(u)
    BY <1>0, <1>f, EndDoes
  <2>2. UpdOk(upd'[u], dump'[u]) /\ DumpOk(dump'[u])
    BY <2>1, NothingDumped DEF UpdOk, Dumped, Forward, Backward
  <2> QED
    BY <1>b, <2>1, <2>2 DEF OnlyUpd, OnlyDump
<1>1. ASSUME NEW r \in Run, NEW v \in Version, Request(r, v)
      PROVE  TypeInv'
  <2> DEFINE q == [pc |-> "checked", to |-> v, seen |-> Latest,
                   reap |-> Exists(Latest) /\ Abandoned(Latest)]
  <2>1. req' = [req EXCEPT ![r] = q] /\ server # 0 /\ req[r].pc = "none"
        /\ UNCHANGED <<row, upd, dump, release, intact, orphan>>
    BY <1>1 DEF Request
  <2>2. flaw' \subseteq {"race", "reaped", "timeout", "late"}
    BY <1>1, <1>a DEF Request
  <2>3. Latest \in 0..MaxRun
    BY LatestIs, BoundsAssumption DEF Run
  <2>4. q \in ReqType /\ ReqOk(q, server)
    BY <2>1, <2>3, BoundsAssumption DEF ReqType, ReqOk, Version
  <2> HIDE DEF q
  <2>5. req' \in [Run -> ReqType] /\ \A s \in Run : ReqOk(req'[s], server) /\ (req[s].pc = "done" => req'[s].pc = "done")
    BY <1>a, <1>b, <2>1, <2>4
  <2> QED
    BY <1>a, <1>b, <1>c, <2>1, <2>2, <2>5 DEF release
<1>2. ASSUME NEW r \in Run, Insert(r)
      PROVE  TypeInv'
  <2> DEFINE new == [status |-> "queued", from |-> server, to |-> req[r].to,
                     started |-> FALSE, overdue |-> FALSE]
             reaped == IF req[r].reap THEN [row EXCEPT ![req[r].seen].status = "failed"] ELSE row
  <2>1. /\ req[r].pc = "checked" /\ (req[r].reap => Exists(req[r].seen))
        /\ row' = [reaped EXCEPT ![r] = new] /\ req' = [req EXCEPT ![r].pc = "inserted"]
        /\ UNCHANGED <<upd, dump, release, intact, orphan>>
    BY <1>2 DEF Insert
  <2>2. flaw' \subseteq {"race", "reaped", "timeout", "late"}
    BY <1>2, <1>a DEF Insert
  <2>3. /\ req[r] \in ReqType /\ req[r].to \in Version /\ server # 0 /\ req[r].seen \in 0..MaxRun
    BY <1>a, <1>b, <2>1 DEF ReqOk, ReqType
  <2>4. new \in RowType /\ new.from \in Version /\ new.to \in Version
    BY <1>a, <2>3, BoundsAssumption DEF RowType, Status, Version
  <2>5. req' \in [Run -> ReqType] /\ \A s \in Run : ReqOk(req'[s], server) /\ (req[s].pc = "done" => req'[s].pc = "done")
    <3>1. req' = [req EXCEPT ![r] = [req[r] EXCEPT !.pc = "inserted"]]
      BY <1>a, <2>1
    <3>2. [req[r] EXCEPT !.pc = "inserted"] \in ReqType /\ [req[r] EXCEPT !.pc = "inserted"].pc = "inserted"
      BY <2>3 DEF ReqType
    <3> QED
      BY <1>a, <1>b, <2>1, <2>3, <3>1, <3>2 DEF ReqOk
  <2>6. reaped \in [Run -> RowType] /\ RowsOk(reaped)
    <3>1. CASE ~req[r].reap
      BY <1>a, <1>b, <3>1
    <3>2. CASE req[r].reap
      <4> DEFINE s == req[r].seen
      <4>1. s \in Run /\ row[s].status # "absent"
        BY <2>1, <2>3, <3>2, BoundsAssumption DEF Exists, Run
      <4>2. reaped = [row EXCEPT ![s].status = "failed"] /\ "failed" \in Status
        BY <3>2 DEF Status, Terminal
      <4> HIDE DEF reaped, s
      <4>3. /\ reaped \in [Run -> RowType] /\ reaped[s].from = row[s].from /\ reaped[s].to = row[s].to
            /\ \A t \in Run \ {s} : reaped[t] = row[t]
        BY <1>a, <4>1, <4>2, RowGets
      <4> QED
        BY <1>b, <4>1, <4>3 DEF RowsOk
    <3> QED
      BY <3>1, <3>2
  <2> HIDE DEF new, reaped
  <2>7. row' \in [Run -> RowType] /\ RowsOk(row')
    BY <2>1, <2>4, <2>6 DEF RowsOk
  <2> QED
    BY <1>a, <1>b, <1>c, <2>1, <2>2, <2>5, <2>7 DEF release
<1>3. ASSUME NEW r \in Run, Launch(r)
      PROVE  TypeInv'
  <2>1. /\ req[r].pc = "inserted" /\ upd' = [upd EXCEPT ![r].pc = "boot"]
        /\ req' = [req EXCEPT ![r] = ReqOver]
        /\ UNCHANGED <<row, dump, release, intact, orphan, flaw>>
    BY <1>3 DEF Launch
  <2>2. ReqOver \in ReqType /\ ReqOver.pc = "done"
    BY OverIs
  <2>3. req' \in [Run -> ReqType] /\ \A s \in Run : ReqOk(req'[s], server)
    BY <1>a, <1>b, <2>1, <2>2 DEF ReqOk
  <2>4. upd[r].pc = "none" /\ upd[r] \in UpdType /\ UpdOk(upd[r], dump[r])
    BY <1>a, <1>b, <2>1
  <2> DEFINE w == [upd[r] EXCEPT !.pc = "boot"]
  <2>5. w \in UpdType /\ w.pc = "boot"
    BY <2>4 DEF UpdType
  <2>6. UpdOk(w, dump[r])
    BY <2>4, <2>5 DEF UpdOk, Early, Dumped, Forward, Backward
  <2>7. upd' = [upd EXCEPT ![r] = w]
    BY <1>a, <2>1
  <2> HIDE DEF w
  <2>8. upd' \in [Run -> UpdType] /\ upd'[r] = w /\ OnlyUpd(r)
    BY <1>a, <2>5, <2>7 DEF OnlyUpd
  <2>9. \A v \in Run : UpdOk(upd'[v], dump'[v])
    BY <1>d, <2>1, <2>6, <2>8
  <2>10. \A v \in Run : req'[v].pc # "done" => upd'[v].pc = "none"
    BY <1>a, <1>b, <2>1, <2>2, <2>8 DEF OnlyUpd
  <2> QED
    BY <1>a, <1>b, <2>1, <2>3, <2>8, <2>9, <2>10 DEF TypeInv, TypeOK, Releases, release
<1>4. ASSUME NEW r \in Run, LaunchFails(r)
      PROVE  TypeInv'
  <2>1. /\ req[r].pc = "inserted" /\ UNCHANGED <<row, upd, dump, release, intact, orphan, flaw>>
        /\ \/ req' = [req EXCEPT ![r] = [@ EXCEPT !.pc = "failing"]]
           \/ req' = [req EXCEPT ![r] = ReqOver]
    BY <1>4 DEF LaunchFails
  <2>2. ReqOver \in ReqType /\ ReqOver.pc = "done"
    BY OverIs
  <2>3. [req[r] EXCEPT !.pc = "failing"] \in ReqType /\ [req[r] EXCEPT !.pc = "failing"].pc = "failing"
    BY <1>a DEF ReqType
  <2>4. server # 0
    BY <1>b, <2>1 DEF ReqOk
  <2>5. req' \in [Run -> ReqType] /\ \A s \in Run : ReqOk(req'[s], server) /\ (req[s].pc = "done" => req'[s].pc = "done")
    BY <1>a, <1>b, <2>1, <2>2, <2>3, <2>4 DEF ReqOk
  <2> QED
    BY <1>a, <1>b, <1>c, <2>1, <2>5 DEF release
<1>5. ASSUME NEW r \in Run, FailRow(r)
      PROVE  TypeInv'
  <2>1. /\ Exists(r) /\ row' = [row EXCEPT ![r].status = "failed"]
        /\ req' = [req EXCEPT ![r] = ReqOver]
        /\ UNCHANGED <<upd, dump, release, intact, orphan, flaw>>
    BY <1>5 DEF FailRow
  <2>2. ReqOver \in ReqType /\ ReqOver.pc = "done"
    BY OverIs
  <2>3. req' \in [Run -> ReqType] /\ \A s \in Run : ReqOk(req'[s], server) /\ (req[s].pc = "done" => req'[s].pc = "done")
    BY <1>a, <1>b, <2>1, <2>2 DEF ReqOk
  <2>a. "failed" \in Status
    BY DEF Status, Terminal
  <2>4. /\ row' \in [Run -> RowType] /\ row'[r].from = row[r].from /\ row'[r].to = row[r].to
        /\ \A t \in Run \ {r} : row'[t] = row[t]
    BY <1>a, <2>1, <2>a DEF RowType
  <2>5. RowsOk(row')
    BY <1>b, <2>1, <2>4 DEF RowsOk, Exists
  <2> QED
    BY <1>a, <1>b, <1>c, <2>1, <2>3, <2>4, <2>5 DEF release
<1>6. ASSUME NEW r \in Run, Drop(r)
      PROVE  TypeInv'
  <2>1. /\ req' = [req EXCEPT ![r] = ReqOver]
        /\ UNCHANGED <<row, upd, dump, release, intact, orphan, flaw>>
    BY <1>6 DEF Drop
  <2>2. ReqOver \in ReqType /\ ReqOver.pc = "done"
    BY OverIs
  <2>3. req' \in [Run -> ReqType] /\ \A s \in Run : ReqOk(req'[s], server) /\ (req[s].pc = "done" => req'[s].pc = "done")
    BY <1>a, <1>b, <2>1, <2>2 DEF ReqOk
  <2> QED
    BY <1>a, <1>b, <1>c, <2>1, <2>3 DEF release
<1>7. ASSUME NEW r \in Run, Overdue(r)
      PROVE  TypeInv'
  <2>1. /\ row' = [row EXCEPT ![r].overdue = TRUE]
        /\ UNCHANGED <<req, upd, dump, release, intact, orphan, flaw>>
    BY <1>7 DEF Overdue
  <2> DEFINE w == [row[r] EXCEPT !.overdue = TRUE]
  <2>2. w \in RowType /\ w.status = row[r].status /\ w.from = row[r].from /\ w.to = row[r].to
    BY <1>a DEF RowType
  <2>3. row' = [row EXCEPT ![r] = w]
    BY <1>a, <2>1
  <2> HIDE DEF w
  <2>4. row' \in [Run -> RowType] /\ RowsOk(row')
    BY <1>a, <1>b, <2>2, <2>3 DEF RowsOk
  <2> QED
    BY <1>a, <1>b, <1>c, <2>1, <2>4 DEF release
\* An updater moves from one of its places to another and keeps its dump.
<1>g. ASSUME NEW u \in Run, NEW p \in Place, Goto(u, p), p # "snapshotting",
             upd[u].pc \notin {"none", "boot", "ended"},
             p \in Dumped => upd[u].pc \in Dumped, p \in Early => upd[u].pc \in Early
      PROVE  /\ upd' \in [Run -> UpdType] /\ UpdOk(upd'[u], dump[u]) /\ OnlyUpd(u)
  <2>1. /\ upd' \in [Run -> UpdType]
        /\ upd'[u].pc = p /\ ~upd'[u].told /\ SameRun(u) /\ upd'[u].old = upd[u].old
        /\ OnlyUpd(u)
    BY <1>0, <1>g, GotoDoes
  <2> QED
    BY <1>b, <1>g, <2>1 DEF UpdOk, SameRun
<1>8. ASSUME NEW u \in Run, Pick(u)
      PROVE  TypeInv'
  <2> DEFINE n == Newest(Queued)
             picked == [NoUpd EXCEPT !.pc = "picked", !.row = n,
                                     !.from = row[n].from, !.to = row[n].to]
  <2>1. /\ upd[u].pc = "boot" /\ upd' = [upd EXCEPT ![u] = IF Queued = {} THEN UpdOver ELSE picked]
        /\ UNCHANGED <<row, req, dump, release, intact, orphan, flaw>>
    BY <1>8 DEF Pick
  <2>2. ~dump[u].taken
    BY <1>b, <2>1 DEF UpdOk, Early
  <2>3. CASE Queued = {}
    <3>1. UpdOver \in UpdType /\ UpdOver.pc = "ended"
      BY UpdOverIs
    <3>2. UpdOk(UpdOver, dump[u])
      BY <2>2, <3>1 DEF UpdOk, Early, Dumped, Forward, Backward
    <3> QED
      BY <1>a, <1>b, <1>e, <2>1, <2>3, <3>1, <3>2 DEF OnlyUpd
  <2>4. CASE Queued # {}
    <3>1. n \in Run /\ row[n].status = "queued"
      BY <2>4, NewestIs DEF Queued
    <3>2. row[n].from \in Version /\ row[n].to \in Version
      BY <1>b, <3>1 DEF RowsOk
    <3>3. NoUpd \in UpdType
      BY BoundsAssumption DEF NoUpd, UpdType
    <3>4. picked \in UpdType /\ picked.pc = "picked" /\ picked.from = row[n].from /\ picked.to = row[n].to
      <4>1. n \in 0..MaxRun /\ row[n].from \in 0..MaxVersion /\ row[n].to \in 0..MaxVersion
        BY <3>1, <3>2, BoundsAssumption DEF Run, Version
      <4> HIDE DEF n
      <4> QED
        BY <3>3, <4>1 DEF UpdType
    <3> HIDE DEF picked, n
    <3>5. UpdOk(picked, dump[u])
      BY <2>2, <3>2, <3>4 DEF UpdOk, Early, Dumped, Forward, Backward
    <3> QED
      BY <1>a, <1>b, <1>e, <2>1, <2>4, <3>4, <3>5 DEF OnlyUpd
  <2> QED
    BY <2>3, <2>4
<1>9. ASSUME NEW u \in Run, Start(u)
      PROVE  TypeInv'
  <2> DEFINE r == upd[u].row
  <2>1. /\ upd[u].pc = "picked" /\ Goto(u, "check")
        /\ row' = IF Exists(r) THEN [row EXCEPT ![r].started = TRUE, ![r].overdue = FALSE] ELSE row
        /\ UNCHANGED <<req, dump, release, intact, orphan, flaw>>
    BY <1>9 DEF Start
  <2>2. r \in 0..MaxRun
    BY <1>a DEF UpdType
  <2>3. row' \in [Run -> RowType] /\ RowsOk(row')
    <3>1. CASE Exists(r)
      <4>1. r \in Run /\ row[r].status # "absent"
        BY <2>2, <3>1, BoundsAssumption DEF Exists, Run
      <4> DEFINE w == [row[r] EXCEPT !.started = TRUE, !.overdue = FALSE]
      <4>2. w \in RowType /\ w.from = row[r].from /\ w.to = row[r].to
        <5>1. row[r] \in RowType
          BY <1>a, <4>1
        <5> QED
          BY <5>1 DEF RowType
      <4>3. row' = [row EXCEPT ![r] = w]
        BY <1>a, <2>1, <3>1, <4>1 DEF RowType
      <4> HIDE DEF w, r
      <4> QED
        BY <1>a, <1>b, <4>1, <4>2, <4>3 DEF RowsOk
    <3> QED
      BY <1>a, <1>b, <2>1, <3>1
  <2>4. upd' \in [Run -> UpdType] /\ UpdOk(upd'[u], dump[u]) /\ OnlyUpd(u)
    BY <1>g, <2>1 DEF Place, Early, Dumped, Forward, Backward
  <2> QED
    BY <1>e, <2>1, <2>3, <2>4
<1>10. ASSUME NEW u \in Run, Report(u)
       PROVE  TypeInv'
  <2> DEFINE r == upd[u].row
             s == upd[u].pc
  <2>1. /\ s \in Status \ {"absent", "queued"}
        /\ row' = IF Exists(r) THEN [row EXCEPT ![r].status = s] ELSE row
        /\ End(u) \/ (upd' = [upd EXCEPT ![u].told = TRUE] /\ UNCHANGED dump)
        /\ UNCHANGED <<req, release, intact, orphan, flaw>>
    BY <1>10 DEF Report
  <2>2. r \in 0..MaxRun
    BY <1>a DEF UpdType
  <2>3. row' \in [Run -> RowType] /\ RowsOk(row')
    <3>1. CASE Exists(r)
      <4>1. r \in Run /\ row[r].status # "absent"
        BY <2>2, <3>1, BoundsAssumption DEF Exists, Run
      <4>2. row' = [row EXCEPT ![r].status = s] /\ s \in Status
        BY <2>1, <3>1
      <4> HIDE DEF s, r
      <4>3. /\ row' \in [Run -> RowType] /\ row'[r].from = row[r].from /\ row'[r].to = row[r].to
            /\ \A t \in Run \ {r} : row'[t] = row[t]
        BY <1>a, <4>1, <4>2 DEF RowType
      <4> QED
        BY <1>b, <4>1, <4>3 DEF RowsOk
    <3> QED
      BY <1>a, <1>b, <2>1, <3>1
  <2>4. s # "none"
    BY <2>1 DEF Status, Forward, Terminal
  <2>5. CASE End(u)
    <3>1. \A v \in Run : req'[v].pc # "done" => upd'[v].pc = "none"
      BY <1>b, <2>1, <2>4, <2>5, EndDoes, <1>0 DEF OnlyUpd
    <3> QED
      BY <1>a, <1>b, <1>f, <2>1, <2>3, <2>5, <3>1 DEF TypeInv, TypeOK, Releases, release
  <2>6. CASE upd' = [upd EXCEPT ![u].told = TRUE] /\ UNCHANGED dump
    <3> DEFINE w == [upd[u] EXCEPT !.told = TRUE]
    <3>1. w \in UpdType /\ w.pc = upd[u].pc /\ w.from = upd[u].from /\ w.to = upd[u].to /\ w.old = upd[u].old
      BY <1>a DEF UpdType
    <3>2. upd' = [upd EXCEPT ![u] = w]
      BY <1>a, <2>6
    <3> HIDE DEF w
    <3>3. upd' \in [Run -> UpdType] /\ UpdOk(upd'[u], dump[u]) /\ OnlyUpd(u)
      BY <1>a, <1>b, <3>1, <3>2 DEF OnlyUpd, UpdOk
    <3> QED
      BY <1>e, <2>1, <2>3, <2>4, <2>6, <3>3
  <2> QED
    BY <2>1, <2>5, <2>6
<1>11. ASSUME NEW u \in Run, ReportFails(u)
       PROVE  TypeInv'
  <2>1. PICK p \in {"rolling_back", "failed"} :
          /\ Goto(u, p)
          /\ upd[u].pc \in Forward \cup {"success", "rolled_back"}
          /\ UNCHANGED <<row, req, dump, release, intact, orphan, flaw>>
    BY <1>11 DEF ReportFails
  <2>2. p \in Place
    BY DEF Place, Status, Terminal
  <2>3. upd' \in [Run -> UpdType] /\ UpdOk(upd'[u], dump[u]) /\ OnlyUpd(u)
    BY <1>g, <2>1, <2>2 DEF Early, Dumped, Forward, Backward
  <2> QED
    BY <1>a, <1>b, <1>e, <2>1, <2>3 DEF Forward
<1>12. ASSUME NEW u \in Run, CheckTree(u)
       PROVE  TypeInv'
  <2>1. /\ upd[u].pc = "check"
        /\ \/ Goto(u, "failed")
           \/ upd' = [upd EXCEPT ![u].pc = "snapshotting", ![u].told = FALSE, ![u].old = code]
        /\ UNCHANGED <<row, req, dump, release, intact, orphan, flaw>>
    BY <1>12 DEF CheckTree
  <2>2. CASE Goto(u, "failed")
    <3>1. upd' \in [Run -> UpdType] /\ UpdOk(upd'[u], dump[u]) /\ OnlyUpd(u)
      BY <1>g, <2>1, <2>2 DEF Place, Status, Terminal, Early, Dumped, Forward, Backward
    <3> QED
      BY <1>a, <1>b, <1>e, <2>1, <3>1
  <2>3. CASE upd' = [upd EXCEPT ![u].pc = "snapshotting", ![u].told = FALSE, ![u].old = code]
    <3> DEFINE w == [upd[u] EXCEPT !.pc = "snapshotting", !.told = FALSE, !.old = code]
    <3>1. code \in 0..MaxVersion
      BY <1>a DEF Version
    <3>2. w \in UpdType /\ w.pc = "snapshotting" /\ w.from = upd[u].from /\ w.to = upd[u].to /\ w.old = code
      BY <1>a, <3>1 DEF UpdType, Status
    <3>3. upd' = [upd EXCEPT ![u] = w]
      BY <1>a, <2>3 DEF UpdType
    <3> HIDE DEF w
    <3>4. UpdOk(w, dump[u])
      BY <1>a, <1>b, <2>1, <3>2 DEF UpdOk, Early, Dumped, Forward, Backward
    <3> QED
      BY <1>a, <1>b, <1>e, <2>1, <3>2, <3>3, <3>4 DEF OnlyUpd
  <2> QED
    BY <2>1, <2>2, <2>3
<1>13. ASSUME NEW u \in Run, TakeDump(u)
       PROVE  TypeInv'
  <2> DEFINE d == [taken |-> TRUE, row |-> row, schema |-> schema]
  <2>1. /\ upd[u].pc = "snapshotting"
        /\ \/ dump' = [dump EXCEPT ![u] = d] /\ Goto(u, "checking_out")
           \/ Goto(u, "failed") /\ UNCHANGED dump
        /\ UNCHANGED <<row, req, release, intact, orphan, flaw>>
    BY <1>13 DEF TakeDump
  <2>2. CASE Goto(u, "failed") /\ UNCHANGED dump
    <3>1. upd' \in [Run -> UpdType] /\ UpdOk(upd'[u], dump[u]) /\ OnlyUpd(u)
      BY <1>g, <2>1, <2>2 DEF Place, Status, Terminal, Early, Dumped, Forward, Backward
    <3> QED
      BY <1>a, <1>b, <1>e, <2>1, <2>2, <3>1
  <2>3. CASE dump' = [dump EXCEPT ![u] = d] /\ Goto(u, "checking_out")
    <3>1. schema \in 0..MaxVersion
      BY <1>a DEF Version
    <3>2. d \in DumpType /\ d.taken /\ DumpOk(d)
      BY <1>a, <1>b, <3>1 DEF DumpType, DumpOk
    <3> HIDE DEF d
    <3>3. dump' \in [Run -> DumpType] /\ dump'[u] = d /\ OnlyDump(u)
      BY <1>a, <2>3, <3>2 DEF OnlyDump
    <3>4. /\ upd' \in [Run -> UpdType] /\ upd'[u].pc = "checking_out" /\ SameRun(u)
          /\ upd'[u].old = upd[u].old /\ OnlyUpd(u)
      BY <1>0, <2>3, GotoDoes DEF Place, Status, Forward
    <3>5. UpdOk(upd'[u], d)
      BY <1>b, <2>1, <3>2, <3>4 DEF UpdOk, SameRun, Early
    <3>6. \A v \in Run : UpdOk(upd'[v], dump'[v]) /\ DumpOk(dump'[v])
      BY <1>b, <3>2, <3>3, <3>4, <3>5 DEF OnlyUpd, OnlyDump
    <3>7. \A v \in Run : req'[v].pc # "done" => upd'[v].pc = "none"
      BY <1>b, <2>1, <3>4 DEF OnlyUpd
    <3> QED
      BY <1>a, <1>b, <2>1, <3>3, <3>4, <3>6, <3>7 DEF TypeInv, TypeOK, Releases, release
  <2> QED
    BY <2>1, <2>2, <2>3
\* What the handlers and the service are left with when a command is done
\* or fails.
<1>h. ASSUME NEW u \in Run, upd' \in [Run -> UpdType], OnlyUpd(u), upd[u].pc # "none",
             UNCHANGED <<req, server>> \/ req' = HandlersOver
      PROVE  /\ req' \in [Run -> ReqType]
             /\ \A v \in Run : ReqOk(req'[v], server')
             /\ \A v \in Run : req'[v].pc # "done" => upd'[v].pc = "none"
  <2>1. CASE UNCHANGED <<req, server>>
    BY <1>a, <1>b, <1>h, <2>1 DEF OnlyUpd
  <2>2. CASE req' = HandlersOver
    <3>1. /\ req' \in [Run -> ReqType]
          /\ \A r \in Run : req'[r].pc = IF req[r].pc = "none" THEN "none" ELSE "done"
      BY <1>0, <2>2, HandlersEnd
    <3> QED
      BY <1>b, <1>h, <3>1 DEF OnlyUpd, ReqOk
  <2> QED
    BY <1>h, <2>1, <2>2
<1>i. ASSUME NEW u \in Run, Running(u)
      PROVE  /\ upd[u].pc \in {"checking_out", "syncing", "migrating", "restarting", "rolling_back",
                               "r_sync", "r_restore", "r_restart"}
             /\ upd[u].pc \in Dumped \ {"none", "boot", "ended"}
  BY <1>i DEF Running, Forward, Backward, Dumped
<1>j. ASSUME NEW u \in Run, Running(u), GiveUp(u)
      PROVE  /\ upd' \in [Run -> UpdType] /\ OnlyUpd(u) /\ UpdOk(upd'[u], dump[u])
  <2> DEFINE p == IF upd[u].pc \in Forward THEN "rolling_back" ELSE "failed"
  <2>1. Goto(u, p) /\ p \in {"rolling_back", "failed"}
    BY <1>j DEF GiveUp
  <2>2. p \in Place
    BY <2>1 DEF Place, Status, Terminal
  <2> HIDE DEF p
  <2> QED
    BY <1>g, <1>i, <1>j, <2>1, <2>2 DEF Early
<1>14. ASSUME NEW u \in Run, CommandDone(u)
       PROVE  TypeInv'
  <2>1. /\ Running(u) /\ Takes(Command(u)) /\ Goto(u, Following(upd[u].pc))
        /\ UNCHANGED <<dump, intact, orphan, flaw>>
    BY <1>14 DEF CommandDone
  <2>2. Command(u) \in CommandType /\ CommandOk(Command(u))
    BY <1>0, <2>1, CommandReal
  <2>3. /\ code' \in Version /\ venv' \in Version \cup {0} /\ schema' \in Version
        /\ server' \in Version \cup {0}
        /\ row' \in [Run -> RowType] /\ RowsOk(row')
        /\ UNCHANGED <<req, server>> \/ req' = HandlersOver
    BY <1>0, <1>b, <2>1, <2>2, TakesDoes
  <2>4. PICK p \in {"syncing", "migrating", "restarting", "verifying", "r_sync", "r_restore",
                    "r_restart", "r_verify"} : Goto(u, p)
    BY <1>i, <2>1 DEF Following
  <2>5. p \in Place /\ p \in Dumped
    BY DEF Place, Status, Forward, Backward, Dumped
  <2>6. upd' \in [Run -> UpdType] /\ UpdOk(upd'[u], dump[u]) /\ OnlyUpd(u)
    BY <1>g, <1>i, <2>1, <2>4, <2>5 DEF Early
  <2>7. \A v \in Run : UpdOk(upd'[v], dump'[v])
    BY <1>d, <2>1, <2>6
  <2>8. /\ req' \in [Run -> ReqType] /\ \A v \in Run : ReqOk(req'[v], server')
        /\ \A v \in Run : req'[v].pc # "done" => upd'[v].pc = "none"
    BY <1>h, <1>i, <2>1, <2>3, <2>6
  <2> QED
    BY <1>a, <1>b, <2>1, <2>3, <2>6, <2>7, <2>8 DEF TypeInv, TypeOK, Releases
<1>15. ASSUME NEW u \in Run, CommandFails(u)
       PROVE  TypeInv'
  <2>1. /\ Running(u) /\ GiveUp(u)
        /\ code' \in Version /\ venv' \in Version \cup {0} /\ schema' \in Version
        /\ server' \in Version \cup {0} /\ intact' \in BOOLEAN
        /\ row' \in [Run -> RowType] /\ RowsOk(row')
        /\ UNCHANGED <<req, server>> \/ req' = HandlersOver
        /\ UNCHANGED <<dump, orphan, flaw>>
    BY <1>15, FailsDoes
  <2>2. upd' \in [Run -> UpdType] /\ OnlyUpd(u) /\ UpdOk(upd'[u], dump[u])
    BY <1>j, <2>1
  <2>3. \A v \in Run : UpdOk(upd'[v], dump'[v])
    BY <1>d, <2>1, <2>2
  <2>4. /\ req' \in [Run -> ReqType] /\ \A v \in Run : ReqOk(req'[v], server')
        /\ \A v \in Run : req'[v].pc # "done" => upd'[v].pc = "none"
    BY <1>h, <1>i, <2>1, <2>2
  <2> QED
    BY <1>a, <1>b, <2>1, <2>2, <2>3, <2>4 DEF TypeInv, TypeOK, Releases
<1>16. ASSUME NEW u \in Run, CommandTimesOut(u)
       PROVE  TypeInv'
  <2>1. /\ Running(u) /\ GiveUp(u) /\ orphan' = orphan \cup {Command(u)}
        /\ flaw' \subseteq {"race", "reaped", "timeout", "late"}
        /\ UNCHANGED <<row, req, dump, release, intact>>
    BY <1>16, <1>a DEF CommandTimesOut
  <2>2. upd' \in [Run -> UpdType] /\ OnlyUpd(u) /\ UpdOk(upd'[u], dump[u])
    BY <1>j, <2>1
  <2>3. \A v \in Run : UpdOk(upd'[v], dump'[v])
    BY <1>d, <2>1, <2>2
  <2>4. Command(u) \in CommandType /\ CommandOk(Command(u))
    BY <1>0, <2>1, CommandReal
  <2>5. \A v \in Run : req'[v].pc # "done" => upd'[v].pc = "none"
    BY <1>b, <1>i, <2>1, <2>2 DEF OnlyUpd
  <2> QED
    BY <1>a, <1>b, <2>1, <2>2, <2>3, <2>4, <2>5 DEF TypeInv, TypeOK, Releases, release
<1>17. ASSUME NEW u \in Run, Verify(u)
       PROVE  TypeInv'
  <2>1. PICK p \in {"success", "rolling_back", "rolled_back", "failed"} :
          /\ Goto(u, p)
          /\ upd[u].pc \in {"verifying", "r_verify"}
          /\ UNCHANGED <<row, req, dump, release, intact, orphan, flaw>>
    BY <1>17 DEF Verify
  <2>2. p \in Place
    BY DEF Place, Status, Terminal
  <2>3. upd' \in [Run -> UpdType] /\ UpdOk(upd'[u], dump[u]) /\ OnlyUpd(u)
    BY <1>g, <2>1, <2>2 DEF Early, Dumped, Forward, Backward
  <2> QED
    BY <1>a, <1>b, <1>e, <2>1, <2>3
<1>18. ASSUME NEW u \in Run, Crash(u)
       PROVE  TypeInv'
  <2>1. upd[u].pc # "none" /\ End(u) /\ UNCHANGED <<row, req, release, intact, orphan, flaw>>
    BY <1>18 DEF Crash, Live
  <2>2. \A v \in Run : req'[v].pc # "done" => upd'[v].pc = "none"
    BY <1>0, <1>b, <2>1, EndDoes DEF OnlyUpd
  <2> QED
    BY <1>a, <1>b, <1>f, <2>1, <2>2 DEF TypeInv, TypeOK, Releases, release
<1>19. ASSUME NEW c \in orphan, OrphanDone(c)
       PROVE  TypeInv'
  <2>1. /\ Takes(c) /\ orphan' = orphan \ {c} /\ UNCHANGED <<upd, dump, intact, flaw>>
    BY <1>19 DEF OrphanDone
  <2>2. c \in CommandType /\ CommandOk(c)
    BY <1>a, <1>b
  <2>3. /\ code' \in Version /\ venv' \in Version \cup {0} /\ schema' \in Version
        /\ server' \in Version \cup {0}
        /\ row' \in [Run -> RowType] /\ RowsOk(row') /\ req' \in [Run -> ReqType]
        /\ UNCHANGED <<req, server>> \/ req' = HandlersOver
    BY <1>0, <1>b, <2>1, <2>2, TakesDoes
  <2>4. /\ \A v \in Run : ReqOk(req'[v], server')
        /\ \A v \in Run : req'[v].pc # "done" => upd'[v].pc = "none"
    <3>1. CASE UNCHANGED <<req, server>>
      BY <1>b, <2>1, <3>1
    <3>2. CASE req' = HandlersOver
      BY <1>0, <1>b, <2>1, <3>2, HandlersEnd DEF ReqOk
    <3> QED
      BY <2>3, <3>1, <3>2
  <2> QED
    BY <1>a, <1>b, <2>1, <2>3, <2>4 DEF TypeInv, TypeOK, Releases
<1>20. ASSUME RestartServer
       PROVE  TypeInv'
  <2>1. /\ server' = code /\ req' = HandlersOver
        /\ UNCHANGED <<row, upd, dump, code, venv, schema, intact, orphan, flaw>>
    BY <1>20 DEF RestartServer
  <2>2. /\ req' \in [Run -> ReqType] /\ \A v \in Run : ReqOk(req'[v], server')
        /\ \A v \in Run : req'[v].pc # "done" => upd'[v].pc = "none"
    BY <1>0, <1>b, <2>1, HandlersEnd DEF ReqOk
  <2> QED
    BY <1>a, <1>b, <2>1, <2>2 DEF TypeInv, TypeOK, Releases
<1>21. CASE UNCHANGED vars
  BY <1>a, <1>b, <1>21 DEF vars, TypeInv, TypeOK, Releases
<1>22. ASSUME NEW r \in Run, Handler(r) \/ Updater(r) \/ Overdue(r)
       PROVE  TypeInv'
  <2>1. CASE Handler(r)
    BY <1>1, <1>2, <1>3, <1>4, <1>5, <1>6, <2>1 DEF Handler
  <2>2. CASE Updater(r)
    BY <1>8, <1>9, <1>10, <1>11, <1>12, <1>13, <1>14, <1>15, <1>16, <1>17, <1>18, <2>2 DEF Updater
  <2> QED
    BY <1>7, <1>22, <2>1, <2>2
<1> QED
  BY <1>19, <1>20, <1>21, <1>22 DEF Next

(* Rows, processes and releases always have their shapes, and the release  *)
(* checked out, the one synced and the one migrated to are releases        *)
(* (updates/system.py, updater/orchestrator.py).                           *)
THEOREM TypeCorrect == Spec => []TypeOK
<1>1. TypeInv => TypeOK
  BY DEF TypeInv
<1> QED
  BY <1>1, TypeInit, TypeNext, PTL DEF Spec

-----------------------------------------------------------------------------
(* The order of requests.  A row, wherever it is kept, is of a request     *)
(* that has inserted it; requests come in the order of their numbers; and  *)
(* a request that has read the table saw an earlier run.                   *)
Asked(r) == req[r].pc \notin {"none", "checked"}

RowsAsked(t) == \A r \in Run : t[r].status # "absent" => Asked(r)

Asking ==
  /\ RowsAsked(row)
  /\ \A u \in Run : RowsAsked(dump[u].row)
  /\ \A c \in orphan : RowsAsked(c.from.row)
  /\ \A q, r \in Run : q < r /\ req[r].pc # "none" => req[q].pc # "none"
  /\ \A q \in Run : req[q].pc = "checked" =>
        req[q].seen < q /\ (req[q].seen # 0 => Asked(req[q].seen))

(* A handler that has read the table moves on, and only forward.           *)
GoesOn(r) ==
  /\ req[r].pc # "none" <=> req'[r].pc # "none"
  /\ Asked(r) => Asked(r)'
  /\ req'[r].pc = "checked" => req'[r] = req[r]

AskedInv == TypeInv /\ Asking

LEMMA GoOn ==
  ASSUME TypeInv, [Next]_vars, \A r \in Run, v \in Version : ~Request(r, v)
  PROVE  \A r \in Run : GoesOn(r)
<1>a. /\ TypeOK /\ Releases /\ req \in [Run -> ReqType] /\ orphan \subseteq CommandType
      /\ \A c \in orphan : CommandOk(c)
  BY DEF TypeInv, TypeOK, Releases
<1>b. CASE UNCHANGED req
  BY <1>b DEF GoesOn, Asked
<1>c. CASE req' = HandlersOver
  BY <1>a, <1>c, HandlersEnd DEF GoesOn, Asked
<1>d. ASSUME NEW r \in Run, req[r].pc # "none",
             NEW w \in ReqType, w.pc \notin {"none", "checked"}, req' = [req EXCEPT ![r] = w]
      PROVE  \A q \in Run : GoesOn(q)
  BY <1>a, <1>d DEF GoesOn, Asked
<1>e. ReqOver \in ReqType /\ ReqOver.pc = "done"
  BY OverIs
<1>1. ASSUME NEW r \in Run, Insert(r) \/ LaunchFails(r)
      PROVE  \A q \in Run : GoesOn(q)
  <2>1. req[r].pc \in {"checked", "inserted"}
    BY <1>1 DEF Insert, LaunchFails
  <2>2. PICK p \in {"inserted", "failing"} :
          req' = [req EXCEPT ![r] = [@ EXCEPT !.pc = p]] \/ req' = [req EXCEPT ![r] = ReqOver]
    BY <1>1, <1>a DEF Insert, LaunchFails
  <2> DEFINE w == [req[r] EXCEPT !.pc = p]
  <2>3. w \in ReqType /\ w.pc = p
    BY <1>a DEF ReqType
  <2>4. req' = [req EXCEPT ![r] = w] \/ req' = [req EXCEPT ![r] = ReqOver]
    BY <1>a, <2>2
  <2> HIDE DEF w
  <2>5. CASE req' = [req EXCEPT ![r] = w]
    BY <1>d, <2>1, <2>3, <2>5
  <2>6. CASE req' = [req EXCEPT ![r] = ReqOver]
    BY <1>d, <1>e, <2>1, <2>6
  <2> QED
    BY <2>4, <2>5, <2>6
<1>2. ASSUME NEW r \in Run, Launch(r) \/ FailRow(r) \/ Drop(r)
      PROVE  \A q \in Run : GoesOn(q)
  <2>1. req[r].pc # "none" /\ req' = [req EXCEPT ![r] = ReqOver]
    BY <1>2 DEF Launch, FailRow, Drop
  <2> QED
    BY <1>d, <1>e, <2>1
<1>3. ASSUME NEW r \in Run, Overdue(r)
      PROVE  UNCHANGED req
  BY <1>3 DEF Overdue
<1>4. ASSUME NEW u \in Run, Updater(u)
      PROVE  UNCHANGED req \/ req' = HandlersOver
  <2>1. CASE CommandDone(u)
    <3>1. Running(u) /\ Takes(Command(u))
      BY <2>1 DEF CommandDone
    <3>2. Command(u) \in CommandType /\ CommandOk(Command(u))
      BY <1>a, <3>1, CommandReal
    <3> QED
      BY <1>a, <3>1, <3>2, TakesDoes
  <2>2. CASE CommandFails(u)
    BY <2>2, FailsDoes
  <2>3. CASE ~CommandDone(u) /\ ~CommandFails(u)
    BY <1>4, <2>3 DEF Updater, Pick, Start, Report, ReportFails, CheckTree, TakeDump,
                      CommandTimesOut, Verify, Crash
  <2> QED
    BY <2>1, <2>2, <2>3
<1>5. ASSUME NEW c \in orphan, OrphanDone(c)
      PROVE  UNCHANGED req \/ req' = HandlersOver
  BY <1>5, <1>a, TakesDoes DEF OrphanDone
<1>6. CASE RestartServer
  BY <1>6, <1>c DEF RestartServer
<1>7. CASE UNCHANGED vars
  BY <1>7, <1>b DEF vars
<1>8. ASSUME NEW r \in Run, Handler(r)
      PROVE  \A q \in Run : GoesOn(q)
  BY <1>1, <1>2, <1>8 DEF Handler
<1> QED
  BY <1>b, <1>c, <1>3, <1>4, <1>5, <1>6, <1>7, <1>8 DEF Next

(* What each action does to the statuses of the table.                     *)
SameStatus == \A r \in Run : row'[r].status = row[r].status

OneStatus(r, s) ==
  row'[r].status = s /\ \A q \in Run \ {r} : row'[q].status = row[q].status

LEMMA OverdueDoes ==
  ASSUME TypeInv, NEW r \in Run, Overdue(r)
  PROVE  SameStatus /\ UNCHANGED <<req, upd, dump, code, venv, schema, server, orphan, flaw>>
<1>1. row \in [Run -> RowType] /\ row' = [row EXCEPT ![r].overdue = TRUE]
  BY DEF TypeInv, TypeOK, Overdue
<1> QED
  BY <1>1 DEF SameStatus, RowType, Overdue, release

LEMMA StartDoes ==
  ASSUME TypeInv, NEW u \in Run, Start(u)
  PROVE  SameStatus /\ UNCHANGED <<req, dump, code, venv, schema, server, orphan, flaw>>
<1> DEFINE r == upd[u].row
<1>1. row \in [Run -> RowType] /\ r \in 0..MaxRun
  BY DEF TypeInv, TypeOK, UpdType
<1>2. row' = IF Exists(r) THEN [row EXCEPT ![r].started = TRUE, ![r].overdue = FALSE] ELSE row
  BY DEF Start
<1>3. CASE ~Exists(r)
  BY <1>2, <1>3 DEF SameStatus, Start, release
<1>4. CASE Exists(r)
  <2>1. r \in Run
    BY <1>1, <1>4, BoundsAssumption DEF Exists, Run
  <2> DEFINE w == [row[r] EXCEPT !.started = TRUE, !.overdue = FALSE]
  <2>2. w.status = row[r].status
    BY <1>1, <2>1 DEF RowType
  <2>3. row' = [row EXCEPT ![r] = w]
    BY <1>1, <1>2, <1>4, <2>1 DEF RowType
  <2> HIDE DEF w, r
  <2> QED
    BY <1>1, <2>1, <2>2, <2>3 DEF SameStatus, Start, release
<1> QED
  BY <1>3, <1>4

LEMMA ReportDoes ==
  ASSUME TypeInv, NEW u \in Run, Report(u)
  PROVE  /\ upd[u].pc \in Status \ {"absent", "queued"}
         /\ IF Exists(upd[u].row)
            THEN upd[u].row \in Run /\ OneStatus(upd[u].row, upd[u].pc)
            ELSE SameStatus
         /\ UNCHANGED <<req, code, venv, schema, server, orphan, flaw>>
         /\ IF upd[u].pc \in Terminal
            THEN End(u)
            ELSE /\ UNCHANGED dump /\ OnlyUpd(u) /\ upd'[u].pc = upd[u].pc
                 /\ SameRun(u) /\ upd'[u].old = upd[u].old
<1> DEFINE r == upd[u].row
           s == upd[u].pc
<1>1. row \in [Run -> RowType] /\ upd \in [Run -> UpdType] /\ r \in 0..MaxRun
  BY DEF TypeInv, TypeOK, UpdType
<1>2. s \in Status \ {"absent", "queued"}
  BY DEF Report
<1>3. row' = IF Exists(r) THEN [row EXCEPT ![r].status = s] ELSE row
  BY DEF Report
<1>4. ASSUME Exists(r)
      PROVE  r \in Run /\ OneStatus(r, s)
  <2>1. r \in Run
    BY <1>1, <1>4, BoundsAssumption DEF Exists, Run
  <2>2. row' = [row EXCEPT ![r].status = s]
    BY <1>3, <1>4
  <2> HIDE DEF r, s
  <2> QED
    BY <1>1, <2>1, <2>2 DEF OneStatus, RowType
<1>5. ASSUME ~Exists(r)
      PROVE  SameStatus
  BY <1>3, <1>5 DEF SameStatus
<1>6. IF s \in Terminal
      THEN End(u)
      ELSE /\ UNCHANGED dump /\ OnlyUpd(u) /\ upd'[u].pc = s
           /\ SameRun(u) /\ upd'[u].old = upd[u].old
  BY <1>1 DEF Report, OnlyUpd, SameRun, UpdType
<1> QED
  BY <1>2, <1>4, <1>5, <1>6 DEF Report, release

LEMMA FailRowDoes ==
  ASSUME TypeInv, NEW r \in Run, FailRow(r)
  PROVE  /\ OneStatus(r, "failed") /\ req[r].pc = "failing"
         /\ req'[r].pc = "done" /\ \A q \in Run \ {r} : req'[q] = req[q]
         /\ UNCHANGED <<upd, dump, code, venv, schema, server, orphan, flaw>>
<1>1. row \in [Run -> RowType] /\ req \in [Run -> ReqType] /\ ReqOver.pc = "done"
  BY OverIs DEF TypeInv, TypeOK
<1>2. row' = [row EXCEPT ![r].status = "failed"] /\ req' = [req EXCEPT ![r] = ReqOver]
  BY DEF FailRow
<1>3. OneStatus(r, "failed")
  BY <1>1, <1>2 DEF OneStatus, RowType
<1> QED
  BY <1>1, <1>2, <1>3 DEF FailRow, release

LEMMA InsertDoes ==
  ASSUME TypeInv, NEW r \in Run, Insert(r)
  PROVE  /\ req[r].pc = "checked" /\ (req[r].reap => Exists(req[r].seen))
         /\ row'[r].status = "queued"
         /\ \A q \in Run \ {r} :
              row'[q].status = IF req[r].reap /\ q = req[r].seen THEN "failed" ELSE row[q].status
         /\ req'[r].pc = "inserted" /\ \A q \in Run \ {r} : req'[q] = req[q]
         /\ Latest # req[r].seen => "race" \in flaw'
         /\ UNCHANGED <<upd, dump, code, venv, schema, server, orphan>> /\ flaw \subseteq flaw'
<1> DEFINE new == [status |-> "queued", from |-> server, to |-> req[r].to,
                   started |-> FALSE, overdue |-> FALSE]
           s == req[r].seen
           reaped == IF req[r].reap THEN [row EXCEPT ![s].status = "failed"] ELSE row
<1>1. row \in [Run -> RowType] /\ req \in [Run -> ReqType] /\ s \in 0..MaxRun
  BY DEF TypeInv, TypeOK, ReqType
<1>2. req[r].reap => Exists(s)
  BY DEF Insert
<1>3. DOMAIN reaped = Run /\ \A q \in Run :
        reaped[q].status = IF req[r].reap /\ q = s THEN "failed" ELSE row[q].status
  <2> HIDE DEF s
  <2>1. CASE req[r].reap
    <3>1. s \in Run
      BY <1>1, <1>2, <2>1, BoundsAssumption DEF Exists, Run
    <3> QED
      BY <1>1, <2>1, <3>1 DEF RowType
  <2> QED
    BY <1>1, <2>1
<1>4. row' = [reaped EXCEPT ![r] = new] /\ new.status = "queued"
  BY DEF Insert
<1> HIDE DEF new, reaped
<1>5. row'[r].status = "queued" /\ \A q \in Run \ {r} :
        row'[q].status = IF req[r].reap /\ q = s THEN "failed" ELSE row[q].status
  BY <1>3, <1>4
<1>6. req' = [req EXCEPT ![r].pc = "inserted"]
  BY DEF Insert
<1>7. req'[r].pc = "inserted" /\ \A q \in Run \ {r} : req'[q] = req[q]
  BY <1>1, <1>6 DEF ReqType
<1> QED
  BY <1>5, <1>7 DEF Insert, release

(* What a command of an updater does, done or given up.                    *)
LEMMA CommandDoneDoes ==
  ASSUME TypeInv, NEW u \in Run, CommandDone(u)
  PROVE  LET p == upd[u].pc
             next == upd'[u].pc
         IN
         /\ p = "checking_out" =>
              next = "syncing" /\ code' = upd[u].to /\ UNCHANGED <<row, req, venv, schema, server>>
         /\ p = "syncing" =>
              next = "migrating" /\ venv' = code /\ UNCHANGED <<row, req, code, schema, server>>
         /\ p = "migrating" =>
              next = "restarting" /\ schema' = code /\ UNCHANGED <<row, req, code, venv, server>>
         /\ p = "restarting" =>
              /\ next = "verifying" /\ server' \in {code, 0} /\ req' = HandlersOver
              /\ UNCHANGED <<row, code, venv, schema>>
         /\ p = "rolling_back" =>
              next = "r_sync" /\ code' = upd[u].old /\ UNCHANGED <<row, req, venv, schema, server>>
         /\ p = "r_sync" =>
              next = "r_restore" /\ venv' = code /\ UNCHANGED <<row, req, code, schema, server>>
         /\ p = "r_restore" =>
              /\ next = "r_restart" /\ row' = dump[u].row /\ schema' = dump[u].schema
              /\ UNCHANGED <<req, code, venv, server>>
         /\ p = "r_restart" =>
              /\ next = "r_verify" /\ server' \in {code, 0} /\ req' = HandlersOver
              /\ UNCHANGED <<row, code, venv, schema>>
         /\ p \in {"checking_out", "syncing", "migrating", "restarting", "rolling_back",
                   "r_sync", "r_restore", "r_restart"}
         /\ OnlyUpd(u) /\ SameRun(u) /\ upd'[u].old = upd[u].old
         /\ UNCHANGED <<dump, orphan, flaw>>
<1> DEFINE c == Command(u)
           p == upd[u].pc
<1>1. /\ TypeOK /\ Running(u) /\ Takes(c) /\ Goto(u, Following(p))
      /\ UNCHANGED <<dump, orphan, flaw>>
  BY DEF CommandDone, TypeInv
<1>2. /\ p = "checking_out" => c.kind = "checkout" /\ c.ver = upd[u].to
      /\ p = "rolling_back" => c.kind = "checkout" /\ c.ver = upd[u].old
      /\ p \in {"syncing", "r_sync"} => c.kind = "sync" /\ c.ver = code
      /\ p = "migrating" => c.kind = "migrate" /\ c.ver = code
      /\ p \in {"restarting", "r_restart"} => c.kind = "restart"
      /\ p = "r_restore" => c.kind = "restore" /\ c.from = dump[u]
      /\ p \in {"checking_out", "rolling_back", "syncing", "r_sync", "migrating",
                "restarting", "r_restart", "r_restore"}
  BY <1>1, CommandIs
<1>3. /\ p = "checking_out" => Following(p) = "syncing"
      /\ p = "syncing" => Following(p) = "migrating"
      /\ p = "migrating" => Following(p) = "restarting"
      /\ p = "restarting" => Following(p) = "verifying"
      /\ p = "rolling_back" => Following(p) = "r_sync"
      /\ p = "r_sync" => Following(p) = "r_restore"
      /\ p = "r_restore" => Following(p) = "r_restart"
      /\ p = "r_restart" => Following(p) = "r_verify"
  BY DEF Following
<1>4. Following(p) \in Place
  BY <1>2, <1>3 DEF Place, Status, Forward
<1>5. upd'[u].pc = Following(p) /\ OnlyUpd(u) /\ SameRun(u) /\ upd'[u].old = upd[u].old
  BY <1>1, <1>4, GotoDoes
<1> HIDE DEF c, p
<1>6. /\ c.kind = "checkout" => code' = c.ver /\ UNCHANGED <<row, req, venv, schema, server>>
      /\ c.kind = "sync" => venv' = c.ver /\ UNCHANGED <<row, req, code, schema, server>>
      /\ c.kind = "migrate" => schema' = c.ver /\ UNCHANGED <<row, req, code, venv, server>>
      /\ c.kind = "restart" => /\ server' \in {code, 0} /\ req' = HandlersOver
                               /\ UNCHANGED <<row, code, venv, schema>>
      /\ c.kind = "restore" => /\ row' = c.from.row /\ schema' = c.from.schema
                               /\ UNCHANGED <<req, code, venv, server>>
  BY <1>1 DEF Takes
<1> QED
  BY <1>1, <1>2, <1>3, <1>5, <1>6 DEF p

LEMMA GiveUpDoes ==
  ASSUME TypeInv, NEW u \in Run, Running(u), GiveUp(u)
  PROVE  /\ upd[u].pc \in {"checking_out", "syncing", "migrating", "restarting", "rolling_back",
                           "r_sync", "r_restore", "r_restart"}
         /\ upd'[u].pc \in {"rolling_back", "failed"}
         /\ OnlyUpd(u) /\ SameRun(u) /\ upd'[u].old = upd[u].old
<1> DEFINE p == IF upd[u].pc \in Forward THEN "rolling_back" ELSE "failed"
<1>1. TypeOK /\ Goto(u, p) /\ p \in {"rolling_back", "failed"}
  BY DEF TypeInv, GiveUp
<1>2. p \in Place
  BY <1>1 DEF Place, Status, Terminal
<1>3. upd[u].pc \in {"checking_out", "syncing", "migrating", "restarting", "rolling_back",
                     "r_sync", "r_restore", "r_restart"}
  BY DEF Running, Forward
<1> HIDE DEF p
<1> QED
  BY <1>1, <1>2, <1>3, GotoDoes

(* The steps of an updater that only move it.                              *)
LEMMA MoveDoes ==
  ASSUME TypeInv, NEW u \in Run, ReportFails(u) \/ CheckTree(u) \/ Verify(u)
  PROVE  /\ OnlyUpd(u) /\ SameRun(u) /\ upd[u].pc \notin {"none", "boot", "ended"}
         /\ upd'[u].pc \in {"failed", "rolling_back", "snapshotting", "success", "rolled_back"}
         /\ upd'[u].pc = "success" => upd[u].pc = "verifying" /\ Healthy(upd[u].to)
         /\ upd'[u].pc = "rolled_back" =>
              upd[u].pc = "r_verify" /\ Healthy(upd[u].from) /\ upd'[u].old = upd[u].old
         /\ UNCHANGED <<row, req, dump, code, venv, schema, server, orphan, flaw>>
<1>1. TypeOK /\ upd \in [Run -> UpdType]
  BY DEF TypeInv, TypeOK
<1>2. UNCHANGED <<row, req, dump, code, venv, schema, server, orphan, flaw>>
  BY DEF ReportFails, CheckTree, Verify, release
<1>3. upd[u].pc \notin {"none", "boot", "ended"}
  BY DEF ReportFails, CheckTree, Verify, Forward
<1>4. {"failed", "rolling_back", "success", "rolled_back"} \subseteq Place
  BY DEF Place, Status, Terminal
<1>5. \/ Goto(u, "failed") \/ Goto(u, "rolling_back")
      \/ Goto(u, "success") /\ upd[u].pc = "verifying" /\ Healthy(upd[u].to)
      \/ Goto(u, "rolled_back") /\ upd[u].pc = "r_verify" /\ Healthy(upd[u].from)
      \/ upd' = [upd EXCEPT ![u].pc = "snapshotting", ![u].told = FALSE, ![u].old = code]
  BY DEF ReportFails, CheckTree, Verify
<1>6. CASE upd' = [upd EXCEPT ![u].pc = "snapshotting", ![u].told = FALSE, ![u].old = code]
  <2>1. upd'[u].pc = "snapshotting" /\ OnlyUpd(u) /\ SameRun(u)
    BY <1>1, <1>6 DEF OnlyUpd, SameRun, UpdType
  <2> QED
    BY <1>2, <1>3, <2>1
<1>7. CASE Goto(u, "failed") \/ Goto(u, "rolling_back")
  <2>1. upd'[u].pc \in {"failed", "rolling_back"} /\ OnlyUpd(u) /\ SameRun(u)
    BY <1>1, <1>4, <1>7, GotoDoes
  <2> QED
    BY <1>2, <1>3, <2>1
<1>8. CASE Goto(u, "success") /\ upd[u].pc = "verifying" /\ Healthy(upd[u].to)
  <2>1. upd'[u].pc = "success" /\ OnlyUpd(u) /\ SameRun(u)
    BY <1>1, <1>4, <1>8, GotoDoes
  <2> QED
    BY <1>2, <1>3, <1>8, <2>1
<1>9. CASE Goto(u, "rolled_back") /\ upd[u].pc = "r_verify" /\ Healthy(upd[u].from)
  <2>1. upd'[u].pc = "rolled_back" /\ OnlyUpd(u) /\ SameRun(u) /\ upd'[u].old = upd[u].old
    BY <1>1, <1>4, <1>9, GotoDoes
  <2> QED
    BY <1>2, <1>3, <1>9, <2>1
<1> QED
  BY <1>5, <1>6, <1>7, <1>8, <1>9

LEMMA TakeDumpDoes ==
  ASSUME TypeInv, NEW u \in Run, TakeDump(u)
  PROVE  /\ OnlyUpd(u) /\ SameRun(u) /\ upd[u].pc = "snapshotting"
         /\ \/ upd'[u].pc = "failed" /\ UNCHANGED dump
            \/ /\ upd'[u].pc = "checking_out" /\ OnlyDump(u)
               /\ dump'[u] = [taken |-> TRUE, row |-> row, schema |-> schema]
         /\ UNCHANGED <<row, req, code, venv, schema, server, orphan, flaw>>
<1>1. TypeOK /\ dump \in [Run -> DumpType] /\ {"failed", "checking_out"} \subseteq Place
  BY DEF TypeInv, TypeOK, Place, Status, Terminal, Forward
<1>2. /\ upd[u].pc = "snapshotting"
      /\ UNCHANGED <<row, req, code, venv, schema, server, orphan, flaw>>
  BY DEF TakeDump, release
<1>3. CASE Goto(u, "failed") /\ UNCHANGED dump
  BY <1>1, <1>2, <1>3, GotoDoes
<1>4. CASE /\ dump' = [dump EXCEPT ![u] = [taken |-> TRUE, row |-> row, schema |-> schema]]
           /\ Goto(u, "checking_out")
  <2>1. dump'[u] = [taken |-> TRUE, row |-> row, schema |-> schema] /\ OnlyDump(u)
    BY <1>1, <1>4 DEF OnlyDump
  <2> QED
    BY <1>1, <1>2, <1>4, <2>1, GotoDoes
<1> QED
  BY <1>3, <1>4 DEF TakeDump

LEMMA PickDoes ==
  ASSUME TypeInv, NEW u \in Run, Pick(u)
  PROVE  /\ OnlyUpd(u) /\ upd[u].pc = "boot"
         /\ IF Queued = {}
            THEN upd'[u].pc = "ended"
            ELSE upd'[u].pc = "picked" /\ upd'[u].row = Newest(Queued)
         /\ UNCHANGED <<row, req, dump, code, venv, schema, server, orphan, flaw>>
<1> DEFINE n == Newest(Queued)
           picked == [NoUpd EXCEPT !.pc = "picked", !.row = n,
                                   !.from = row[n].from, !.to = row[n].to]
<1>1. upd \in [Run -> UpdType] /\ upd' = [upd EXCEPT ![u] = IF Queued = {} THEN UpdOver ELSE picked]
  BY DEF TypeInv, TypeOK, Pick
<1>2. UpdOver.pc = "ended" /\ picked.pc = "picked" /\ picked.row = n
  BY UpdOverIs DEF NoUpd
<1> HIDE DEF picked, n
<1>3. OnlyUpd(u) /\ upd'[u] = IF Queued = {} THEN UpdOver ELSE picked
  BY <1>1 DEF OnlyUpd
<1> QED
  BY <1>2, <1>3 DEF Pick, release, n

LEMMA AskingInit == Init => Asking
<1>1. NoRow.status = "absent" /\ NoReq.pc = "none"
  BY OverIs DEF NoRow
<1>2. \A r \in Run : NoDump.row[r].status = "absent"
  BY NothingDumped, <1>1 DEF NoDump
<1> QED
  BY <1>1, <1>2 DEF Init, Asking, RowsAsked

LEMMA AskingNext ==
  ASSUME AskedInv, [Next]_vars, TypeInv'
  PROVE  Asking'
<1>a. /\ TypeInv /\ Asking /\ TypeOK /\ req \in [Run -> ReqType] /\ dump \in [Run -> DumpType]
      /\ TypeOK' /\ orphan \subseteq CommandType /\ \A c \in orphan : CommandOk(c)
  BY DEF AskedInv, TypeInv, TypeOK, Releases
<1>b. \A r \in Run : NoDump.row[r].status = "absent"
  <2>1. NoRow.status = "absent"
    BY DEF NoRow
  <2> QED
    BY <2>1, NothingDumped DEF NoDump, DumpType
<1> DEFINE Later == \A r \in Run : Asked(r) => req'[r].pc \notin {"none", "checked"}
           RowsLater(t) == \A r \in Run : t[r].status # "absent" => req'[r].pc \notin {"none", "checked"}
           SeenLater == \A q \in Run : req'[q].pc = "checked" =>
                          /\ req'[q].seen < q
                          /\ req'[q].seen # 0 => req'[req'[q].seen].pc \notin {"none", "checked"}
           InTurn == \A q, r \in Run : q < r /\ req'[r].pc # "none" => req'[q].pc # "none"
\* No request asked before is forgotten, and none that reads anew.
<1>c. ASSUME NEW r \in Run, NEW v \in Version, Request(r, v)
      PROVE  Later /\ SeenLater /\ InTurn
  <2> DEFINE w == [pc |-> "checked", to |-> v, seen |-> Latest,
                   reap |-> Exists(Latest) /\ Abandoned(Latest)]
  <2>1. /\ req[r].pc = "none" /\ req' = [req EXCEPT ![r] = w]
        /\ \A q \in Run : q < r => req[q].pc # "none"
    BY <1>c DEF Request
  <2>2. w.pc = "checked" /\ w.seen = Latest
    OBVIOUS
  <2> HIDE DEF w
  <2>3. req'[r] = w /\ \A q \in Run \ {r} : req'[q] = req[q]
    BY <1>a, <2>1
  <2>4. Later
    BY <2>1, <2>3 DEF Asked
  <2>5. Latest # 0 => Latest \in Run /\ Asked(Latest)
    BY <1>a, LatestIs DEF Asking, RowsAsked, Exists
  <2>6. Latest # r /\ Latest < r
    <3>1. CASE Latest = 0
      BY <3>1, BoundsAssumption DEF Run
    <3>2. CASE Latest # 0
      <4>1. Latest \in Run /\ req[Latest].pc \notin {"none", "checked"}
        BY <2>5, <3>2 DEF Asked
      <4>2. ~(r < Latest)
        BY <1>a, <2>1, <4>1 DEF Asking
      <4> QED
        BY <2>1, <4>1, <4>2, BoundsAssumption DEF Run
    <3> QED
      BY <3>1, <3>2
  <2>7. ASSUME NEW q \in Run, req'[q].pc = "checked"
        PROVE  /\ req'[q].seen < q
               /\ req'[q].seen # 0 => req'[req'[q].seen].pc \notin {"none", "checked"}
    <3>1. CASE q = r
      BY <2>2, <2>3, <2>4, <2>5, <2>6, <3>1
    <3>2. CASE q # r
      <4>1. /\ req'[q] = req[q] /\ req[q].pc = "checked" /\ req[q] \in ReqType
            /\ req[q].seen < q /\ (req[q].seen # 0 => Asked(req[q].seen))
        BY <1>a, <2>3, <2>7, <3>2 DEF Asking
      <4>2. req[q].seen # 0 => req[q].seen \in Run
        BY <4>1, BoundsAssumption DEF ReqType, Run
      <4> QED
        BY <2>4, <4>1, <4>2
    <3> QED
      BY <3>1, <3>2
  <2>8. InTurn
    BY <1>a, <2>1, <2>2, <2>3 DEF Asking
  <2> QED
    BY <2>4, <2>7, <2>8
<1>d. ASSUME \A r \in Run : GoesOn(r)
      PROVE  Later /\ SeenLater /\ InTurn
  <2>1. Later
    BY <1>d DEF GoesOn, Asked
  <2>2. ASSUME NEW q \in Run, req'[q].pc = "checked"
        PROVE  /\ req'[q].seen < q
               /\ req'[q].seen # 0 => req'[req'[q].seen].pc \notin {"none", "checked"}
    <3>1. req'[q] = req[q] /\ req[q].seen < q /\ (req[q].seen # 0 => Asked(req[q].seen))
      BY <1>a, <1>d, <2>2 DEF GoesOn, Asking
    <3>2. req[q].seen # 0 => req[q].seen \in Run
      BY <1>a, BoundsAssumption DEF ReqType, Run
    <3> QED
      BY <2>1, <3>1, <3>2
  <2>3. InTurn
    BY <1>a, <1>d DEF GoesOn, Asking
  <2> QED
    BY <2>1, <2>2, <2>3
<1>e. Later /\ SeenLater /\ InTurn
  BY <1>a, <1>c, <1>d, GoOn
<1> HIDE DEF SeenLater, InTurn
<1>f. /\ RowsLater(row) /\ (\A u \in Run : RowsLater(dump[u].row))
      /\ (\A c \in orphan : RowsLater(c.from.row)) /\ RowsLater(NoDump.row)
  BY <1>a, <1>b, <1>e DEF Asking, RowsAsked
\* Every row of the table, of a dump or of a pg_restore was asked for.
<1>g. ASSUME RowsLater(row'), \A u \in Run : RowsLater(dump'[u].row),
             \A c \in orphan' : RowsLater(c.from.row)
      PROVE  Asking'
  BY <1>e, <1>g DEF Asking, RowsAsked, Asked, SeenLater, InTurn
<1>h. ASSUME SameStatus \/ UNCHANGED row
      PROVE  RowsLater(row')
  BY <1>f, <1>h DEF SameStatus
<1>i. ASSUME NEW u \in Run, End(u)
      PROVE  \A v \in Run : RowsLater(dump'[v].row)
  <2>1. dump'[u] = NoDump /\ OnlyDump(u)
    BY <1>a, <1>i, EndDoes
  <2> HIDE DEF RowsLater
  <2> QED
    BY <1>f, <2>1 DEF OnlyDump
<1>j. ASSUME UNCHANGED <<dump, orphan>>, RowsLater(row')
      PROVE  Asking'
  BY <1>f, <1>g, <1>j
<1>1. ASSUME NEW r \in Run, NEW v \in Version, Request(r, v)
      PROVE  Asking'
  BY <1>1, <1>h, <1>j DEF Request
<1>2. ASSUME NEW r \in Run, Insert(r)
      PROVE  Asking'
  <2>1. /\ req[r].reap => Exists(req[r].seen)
        /\ \A q \in Run \ {r} :
              row'[q].status = IF req[r].reap /\ q = req[r].seen THEN "failed" ELSE row[q].status
        /\ req'[r].pc = "inserted" /\ UNCHANGED <<dump, orphan>>
    BY <1>2, <1>a, InsertDoes
  <2>2. RowsLater(row')
    BY <1>f, <2>1 DEF Exists
  <2> QED
    BY <1>j, <2>1, <2>2
<1>3. ASSUME NEW r \in Run, FailRow(r)
      PROVE  Asking'
  <2>1. row[r].status # "absent"
    BY <1>3 DEF FailRow, Exists
  <2>2. RowsLater(row') /\ UNCHANGED <<dump, orphan>>
    BY <1>3, <1>a, <1>f, <2>1, FailRowDoes DEF OneStatus
  <2> QED
    BY <1>j, <2>2
<1>4. ASSUME NEW r \in Run, Launch(r) \/ LaunchFails(r) \/ Drop(r)
      PROVE  Asking'
  BY <1>4, <1>h, <1>j DEF Launch, LaunchFails, Drop
<1>5. ASSUME NEW r \in Run, Overdue(r)
      PROVE  Asking'
  BY <1>5, <1>a, <1>h, <1>j, OverdueDoes
<1>6. ASSUME NEW u \in Run, Pick(u) \/ ReportFails(u) \/ CheckTree(u) \/ Verify(u)
      PROVE  Asking'
  BY <1>6, <1>h, <1>j DEF Pick, ReportFails, CheckTree, Verify
<1>7. ASSUME NEW u \in Run, Start(u)
      PROVE  Asking'
  BY <1>7, <1>a, <1>h, <1>j, StartDoes
<1>8. ASSUME NEW u \in Run, Report(u)
      PROVE  Asking'
  <2>1. /\ IF Exists(upd[u].row)
            THEN upd[u].row \in Run /\ OneStatus(upd[u].row, upd[u].pc)
            ELSE SameStatus
        /\ UNCHANGED orphan /\ (End(u) \/ UNCHANGED dump)
    BY <1>8, <1>a, ReportDoes
  <2>2. RowsLater(row')
    BY <1>f, <2>1 DEF OneStatus, SameStatus, Exists
  <2>3. \A v \in Run : RowsLater(dump'[v].row)
    BY <1>f, <1>i, <2>1
  <2> QED
    BY <1>f, <1>g, <2>1, <2>2, <2>3
<1>9. ASSUME NEW u \in Run, TakeDump(u)
      PROVE  Asking'
  <2>1. /\ UNCHANGED dump \/ (OnlyDump(u) /\ dump'[u].row = row)
        /\ UNCHANGED <<row, orphan>>
    BY <1>9, <1>a, TakeDumpDoes
  <2>2. \A v \in Run : RowsLater(dump'[v].row)
    <3> HIDE DEF RowsLater
    <3> QED
      BY <1>f, <2>1 DEF OnlyDump
  <2> QED
    BY <1>f, <1>g, <2>1, <2>2
<1>10. ASSUME NEW u \in Run, CommandDone(u) \/ CommandFails(u)
       PROVE  Asking'
  <2>1. UNCHANGED row \/ row' = dump[u].row
    BY <1>10, <1>a, CommandDoneDoes, FailsDoes
  <2>2. UNCHANGED <<dump, orphan>>
    BY <1>10 DEF CommandDone, CommandFails
  <2>3. RowsLater(row')
    <3> HIDE DEF RowsLater
    <3> QED
      BY <1>f, <2>1
  <2> QED
    BY <1>j, <2>2, <2>3
<1>12. ASSUME NEW u \in Run, CommandTimesOut(u)
       PROVE  Asking'
  <2>1. Running(u) /\ orphan' = orphan \cup {Command(u)} /\ UNCHANGED <<row, dump>>
    BY <1>12 DEF CommandTimesOut
  <2>2. Command(u).from = NoDump \/ Command(u).from = dump[u]
    BY <1>a, <2>1, CommandIs
  <2>3. \A c \in orphan' : RowsLater(c.from.row)
    <3> HIDE DEF RowsLater
    <3> QED
      BY <1>f, <2>1, <2>2
  <2> QED
    BY <1>f, <1>g, <2>1, <2>3
<1>13. ASSUME NEW u \in Run, Crash(u)
       PROVE  Asking'
  <2>1. End(u) /\ UNCHANGED <<row, orphan>>
    BY <1>13 DEF Crash
  <2> QED
    BY <1>f, <1>g, <1>i, <2>1
<1>14. ASSUME NEW c \in orphan, OrphanDone(c)
       PROVE  Asking'
  <2>1. Takes(c) /\ orphan' = orphan \ {c} /\ UNCHANGED dump
    BY <1>14 DEF OrphanDone
  <2>2. UNCHANGED row \/ row' = c.from.row
    BY <1>a, <2>1, TakesDoes
  <2>3. RowsLater(row')
    <3> HIDE DEF RowsLater
    <3> QED
      BY <1>f, <2>2
  <2> QED
    BY <1>f, <1>g, <2>1, <2>3
<1>15. ASSUME RestartServer
       PROVE  Asking'
  BY <1>15, <1>h, <1>j DEF RestartServer
<1>16. CASE UNCHANGED vars
  BY <1>16, <1>h, <1>j DEF vars
<1>17. ASSUME NEW r \in Run, Handler(r) \/ Updater(r) \/ Overdue(r)
       PROVE  Asking'
  <2>1. CASE Handler(r)
    BY <1>1, <1>2, <1>3, <1>4, <2>1 DEF Handler
  <2>2. CASE Updater(r)
    BY <1>6, <1>7, <1>8, <1>9, <1>10, <1>12, <1>13, <2>2 DEF Updater
  <2> QED
    BY <1>5, <1>17, <2>1, <2>2
<1> QED
  BY <1>14, <1>15, <1>16, <1>17 DEF Next

-----------------------------------------------------------------------------
(* One at a time.  As long as no window of Calm was gone through, at most  *)
(* one run has a process that may act on it.  It is the latest row and not *)
(* finished, in the table and in the dump its updater holds; it is still   *)
(* queued until its updater has picked it, and that updater picks it and   *)
(* no other; no request in flight takes it for the latest; and no          *)
(* pg_restore is left running.                                             *)
Calm == {"race", "reaped", "late"} \cap flaw = {}

Acting(r) == req[r].pc \in {"inserted", "failing"} \/ Live(r)

Last(t, a) ==
  /\ t[a].status \notin Terminal \cup {"absent"}
  /\ \A r \in Run : t[r].status # "absent" => r <= a

AloneAt(a) ==
  /\ Last(row, a)
  /\ req[a].pc = "inserted" \/ upd[a].pc = "boot" => row[a].status = "queued"
  /\ Live(a) /\ upd[a].pc # "boot" => upd[a].row = a
  /\ dump[a].taken => Last(dump[a].row, a)
  /\ \A q \in Run : req[q].pc = "checked" => req[q].seen # a

Alone ==
  Calm =>
    /\ \A a, b \in Run : Acting(a) /\ Acting(b) => a = b
    /\ \A a \in Run : Acting(a) => AloneAt(a)
    /\ \A c \in orphan : c.kind # "restore"

AloneInv == AskedInv /\ Alone

(* A step that leaves the statuses alone and starts no process.            *)
LEMMA AloneFrame ==
  ASSUME Alone, Calm' => Calm,
         \A r \in Run : Acting(r)' => Acting(r),
         \A r \in Run : Acting(r)' =>
            /\ req'[r].pc = "inserted" \/ upd'[r].pc = "boot" =>
                 req[r].pc = "inserted" \/ upd[r].pc = "boot"
            /\ Live(r)' /\ upd'[r].pc # "boot" =>
                 upd'[r].row = r \/ (Live(r) /\ upd[r].pc # "boot" /\ upd'[r].row = upd[r].row)
            /\ dump'[r].taken => dump'[r].row = row \/ (dump[r].taken /\ dump'[r] = dump[r]),
         SameStatus,
         \A q \in Run : req'[q].pc = "checked" => req'[q] = req[q],
         Calm' => \A c \in orphan' : c \in orphan \/ c.kind # "restore"
  PROVE  Alone'
<1>1. SUFFICES ASSUME Calm'
               PROVE  /\ \A a, b \in Run : Acting(a)' /\ Acting(b)' => a = b
                      /\ \A a \in Run : Acting(a)' => AloneAt(a)'
                      /\ \A c \in orphan' : c.kind # "restore"
  BY DEF Alone
<1>2. /\ \A a, b \in Run : Acting(a) /\ Acting(b) => a = b
      /\ \A a \in Run : Acting(a) => AloneAt(a)
      /\ \A c \in orphan : c.kind # "restore"
  BY <1>1 DEF Alone
<1>3. ASSUME NEW a \in Run, Acting(a)'
      PROVE  AloneAt(a)'
  <2>1. AloneAt(a)
    BY <1>2, <1>3
  <2>2. Last(row, a) /\ Last(row, a)'
    BY <2>1 DEF AloneAt, Last, SameStatus
  <2>3. req'[a].pc = "inserted" \/ upd'[a].pc = "boot" => row'[a].status = "queued"
    BY <1>3, <2>1 DEF AloneAt, SameStatus
  <2>4. Live(a)' /\ upd'[a].pc # "boot" => upd'[a].row = a
    BY <1>3, <2>1 DEF AloneAt
  <2>5. dump'[a].taken => Last(dump'[a].row, a)
    BY <1>3, <2>1, <2>2 DEF AloneAt
  <2>6. \A q \in Run : req'[q].pc = "checked" => req'[q].seen # a
    BY <2>1 DEF AloneAt
  <2> QED
    BY <2>2, <2>3, <2>4, <2>5, <2>6 DEF AloneAt
<1> QED
  BY <1>1, <1>2, <1>3

(* The case of an updater that moves: it stays alive or ends, and keeps    *)
(* its run and its dump.                                                   *)
LEMMA AloneMove ==
  ASSUME AloneInv, Calm' => Calm, NEW u \in Run, OnlyUpd(u), SameStatus,
         upd[u].pc \notin {"none", "boot", "ended"},
         upd'[u].pc # "boot" /\ upd'[u].row = upd[u].row,
         UNCHANGED dump \/ (OnlyDump(u) /\ dump'[u].row = row) \/ (OnlyDump(u) /\ ~dump'[u].taken),
         UNCHANGED req \/ req' = HandlersOver,
         Calm' => \A c \in orphan' : c \in orphan \/ c.kind # "restore"
  PROVE  Alone'
<1>1. \A q \in Run : req'[q] = req[q] \/ req'[q].pc \in {"none", "done"}
  BY HandlersEnd DEF AloneInv, AskedInv, TypeInv
<1>2. ASSUME NEW r \in Run, Acting(r)'
      PROVE  /\ Acting(r)
             /\ req'[r].pc = "inserted" \/ upd'[r].pc = "boot" =>
                 req[r].pc = "inserted" \/ upd[r].pc = "boot"
             /\ Live(r)' /\ upd'[r].pc # "boot" =>
                 upd'[r].row = r \/ (Live(r) /\ upd[r].pc # "boot" /\ upd'[r].row = upd[r].row)
             /\ dump'[r].taken => dump'[r].row = row \/ (dump[r].taken /\ dump'[r] = dump[r])
  <2>1. CASE r = u
    BY <1>1, <1>2, <2>1 DEF Acting, Live
  <2>2. CASE r # u
    BY <1>1, <1>2, <2>2 DEF Acting, Live, OnlyUpd, OnlyDump
  <2> QED
    BY <2>1, <2>2
<1> QED
  BY <1>1, <1>2, AloneFrame DEF AloneInv

(* Nothing acts any more.                                                  *)
LEMMA NobodyActs ==
  ASSUME Alone, Calm' => Calm, Calm' => \A r \in Run : ~Acting(r)',
         Calm' => \A c \in orphan' : c \in orphan \/ c.kind # "restore"
  PROVE  Alone'
BY DEF Alone

(* With the order of requests: a row that may still be acted on is the     *)
(* latest one.                                                             *)
LEMMA ActingIsLatest ==
  ASSUME AloneInv, Calm, NEW a \in Run, Acting(a)
  PROVE  AloneAt(a) /\ Latest = a /\ Exists(a) /\ ~Finished(a)
<1>1. AloneAt(a)
  BY DEF AloneInv, Alone
<1>2. Exists(a) /\ ~Finished(a) /\ \A r \in Run : Exists(r) => r <= a
  BY <1>1, BoundsAssumption DEF AloneAt, Last, Exists, Finished, Run
<1>3. Latest \in Run /\ Latest <= a /\ a <= Latest
  BY <1>2, LatestIs
<1> QED
  BY <1>1, <1>2, <1>3, BoundsAssumption DEF Run

LEMMA AloneInit == Init => Alone
<1>1. NoReq.pc = "none" /\ NoUpd.pc = "none"
  BY OverIs DEF NoUpd
<1> QED
  BY <1>1 DEF Init, Alone, Acting, Live

LEMMA AloneRequest ==
  ASSUME AloneInv, NEW r \in Run, NEW v \in Version, Request(r, v)
  PROVE  Alone'
<1> DEFINE w == [pc |-> "checked", to |-> v, seen |-> Latest,
                 reap |-> Exists(Latest) /\ Abandoned(Latest)]
<1>1. /\ req[r].pc = "none" /\ req' = [req EXCEPT ![r] = w] /\ ~Blocking(Latest)
      /\ flaw' = IF Exists(Latest) /\ Abandoned(Latest) /\ InUse(Latest)
                 THEN flaw \cup {"reaped"} ELSE flaw
      /\ UNCHANGED <<row, upd, dump, orphan>>
  BY DEF Request
<1>2. w.pc = "checked" /\ w.seen = Latest
  OBVIOUS
<1> HIDE DEF w
<1>3. req'[r] = w /\ \A q \in Run \ {r} : req'[q] = req[q]
  BY <1>1 DEF AloneInv, AskedInv, TypeInv, TypeOK
<1>4. SUFFICES ASSUME Calm'
               PROVE  /\ \A a, b \in Run : Acting(a)' /\ Acting(b)' => a = b
                      /\ \A a \in Run : Acting(a)' => AloneAt(a)'
                      /\ \A c \in orphan' : c.kind # "restore"
  BY DEF Alone
<1>5. Calm
  BY <1>1, <1>4 DEF Calm
<1>6. \A a \in Run : Acting(a)' <=> Acting(a)
  BY <1>1, <1>2, <1>3 DEF Acting, Live
<1>7. ASSUME NEW a \in Run, Acting(a)
      PROVE  AloneAt(a)'
  <2>1. AloneAt(a) /\ Exists(a) /\ ~Finished(a) /\ Latest = a
    BY <1>5, <1>7, ActingIsLatest
  <2>2. Abandoned(a)
    BY <1>1, <2>1 DEF Blocking
  <2>3. InUse(a)
    BY <1>7, <2>1 DEF Acting, InUse, AloneAt
  <2>4. FALSE
    BY <1>1, <1>4, <2>1, <2>2, <2>3 DEF Calm
  <2> QED
    BY <2>4
<1> QED
  BY <1>1, <1>5, <1>6, <1>7 DEF Alone, AloneInv

LEMMA AloneInsert ==
  ASSUME AloneInv, NEW r \in Run, Insert(r)
  PROVE  Alone'
<1>a. TypeInv /\ Asking /\ upd[r].pc = "none" /\ Releases
  BY DEF AloneInv, AskedInv, TypeInv, Releases, Insert
<1>1. /\ req[r].pc = "checked" /\ (req[r].reap => Exists(req[r].seen))
      /\ row'[r].status = "queued"
      /\ \A q \in Run \ {r} :
            row'[q].status = IF req[r].reap /\ q = req[r].seen THEN "failed" ELSE row[q].status
      /\ req'[r].pc = "inserted" /\ \A q \in Run \ {r} : req'[q] = req[q]
      /\ Latest # req[r].seen => "race" \in flaw'
      /\ UNCHANGED <<upd, dump, orphan>> /\ flaw \subseteq flaw'
  BY <1>a, InsertDoes
<1>2. SUFFICES ASSUME Calm'
               PROVE  /\ \A a, b \in Run : Acting(a)' /\ Acting(b)' => a = b
                      /\ \A a \in Run : Acting(a)' => AloneAt(a)'
                      /\ \A c \in orphan' : c.kind # "restore"
  BY DEF Alone
<1>3. Calm /\ Latest = req[r].seen
  BY <1>1, <1>2 DEF Calm
<1>4. \A a \in Run : ~Acting(a)
  <2>1. SUFFICES ASSUME NEW a \in Run, Acting(a) PROVE FALSE
    OBVIOUS
  <2>2. AloneAt(a) /\ Latest = a
    BY <1>3, <2>1, ActingIsLatest
  <2> QED
    BY <1>1, <1>3, <2>2 DEF AloneAt
<1>5. \A a \in Run : Acting(a)' => a = r
  BY <1>1, <1>4 DEF Acting, Live
<1>6. AloneAt(r)'
  <2>1. \A q \in Run : Exists(q) => q < r
    <3>1. Latest < r
      BY <1>a, <1>1, <1>3 DEF Asking
    <3> QED
      BY <3>1, LatestIs, BoundsAssumption DEF Run
  <2>2. Last(row', r)
    <3>1. \A q \in Run \ {r} : row'[q].status # "absent" => Exists(q)
      BY <1>1, BoundsAssumption DEF Exists, Run
    <3> QED
      BY <1>1, <2>1, <3>1, BoundsAssumption DEF Last, Terminal, Run
  <2>3. ~dump[r].taken
    BY <1>a DEF Releases, UpdOk, Early
  <2>4. \A q \in Run \ {r} : req[q].pc = "checked" => req[q].seen # r
    BY <1>a, <1>1, BoundsAssumption DEF Asking, Asked, Run
  <2> QED
    BY <1>a, <1>1, <2>2, <2>3, <2>4 DEF AloneAt, Live
<1> QED
  BY <1>1, <1>3, <1>5, <1>6 DEF Alone, AloneInv

LEMMA AloneReport ==
  ASSUME AloneInv, NEW u \in Run, Report(u)
  PROVE  Alone'
<1>a. TypeInv /\ TypeOK /\ Alone /\ Releases
  BY DEF AloneInv, AskedInv, TypeInv
<1>1. /\ upd[u].pc \in Status \ {"absent", "queued"}
      /\ IF Exists(upd[u].row)
         THEN upd[u].row \in Run /\ OneStatus(upd[u].row, upd[u].pc)
         ELSE SameStatus
      /\ UNCHANGED <<req, orphan, flaw>>
      /\ IF upd[u].pc \in Terminal
         THEN End(u)
         ELSE UNCHANGED dump /\ OnlyUpd(u) /\ upd'[u].pc = upd[u].pc /\ SameRun(u)
  BY <1>a, ReportDoes
<1>2. Live(u) /\ upd[u].pc # "boot" /\ Acting(u) /\ req[u].pc = "done"
  BY <1>1, <1>a DEF Status, Forward, Terminal, Live, Acting, Releases
<1>3. CASE upd[u].pc \in Terminal
  <2>1. upd'[u].pc = "ended" /\ OnlyUpd(u)
    BY <1>1, <1>3, <1>a, EndDoes
  <2>2. Calm' => \A r \in Run : ~Acting(r)'
    BY <1>1, <1>2, <1>a, <2>1 DEF Alone, Calm, Acting, Live, OnlyUpd
  <2> QED
    BY <1>1, <1>a, <2>2, NobodyActs DEF Calm
<1>4. CASE upd[u].pc \notin Terminal
  <2>1. UNCHANGED dump /\ OnlyUpd(u) /\ upd'[u].pc = upd[u].pc /\ upd'[u].row = upd[u].row
    BY <1>1, <1>4 DEF SameRun
  <2>2. SUFFICES ASSUME Calm'
                 PROVE  /\ \A a, b \in Run : Acting(a)' /\ Acting(b)' => a = b
                        /\ \A a \in Run : Acting(a)' => AloneAt(a)'
                        /\ \A c \in orphan' : c.kind # "restore"
    BY DEF Alone
  <2>3. Calm
    BY <1>1, <2>2 DEF Calm
  <2>4. \A a \in Run : Acting(a)' => a = u
    BY <1>1, <1>2, <1>a, <2>1, <2>3 DEF Alone, Acting, Live, OnlyUpd
  <2>5. AloneAt(u) /\ Exists(u) /\ upd[u].row = u
    BY <1>2, <2>3, ActingIsLatest DEF AloneAt
  <2>6. OneStatus(u, upd[u].pc)
    BY <1>1, <2>5
  <2>7. Last(row', u)
    BY <1>1, <1>4, <2>5, <2>6, BoundsAssumption DEF AloneAt, Last, OneStatus, Run
  <2>8. AloneAt(u)'
    BY <1>1, <1>2, <2>1, <2>5, <2>7 DEF AloneAt, Live
  <2> QED
    BY <1>1, <1>a, <2>3, <2>4, <2>8 DEF Alone
<1> QED
  BY <1>3, <1>4

LEMMA AloneCommand ==
  ASSUME AloneInv, NEW u \in Run, CommandDone(u) \/ CommandFails(u)
  PROVE  Alone'
<1>a. TypeInv /\ Alone
  BY DEF AloneInv, AskedInv
<1>1. /\ upd[u].pc \in {"checking_out", "syncing", "migrating", "restarting", "rolling_back",
                        "r_sync", "r_restore", "r_restart"}
      /\ upd[u].pc # "r_restore" => UNCHANGED row
      /\ upd[u].pc = "r_restore" => UNCHANGED row \/ (row' = dump[u].row /\ UNCHANGED req)
      /\ upd'[u].pc \notin {"boot", "none"} /\ OnlyUpd(u) /\ upd'[u].row = upd[u].row
      /\ UNCHANGED req \/ req' = HandlersOver
      /\ UNCHANGED <<dump, orphan, flaw>>
  <2>1. CASE CommandDone(u)
    BY <1>a, <2>1, CommandDoneDoes DEF SameRun
  <2>2. CASE CommandFails(u)
    BY <1>a, <2>2, FailsDoes, GiveUpDoes DEF SameRun
  <2> QED
    BY <2>1, <2>2
<1>2. CASE UNCHANGED row
  <2>1. SameStatus /\ (Calm' => Calm)
    BY <1>1, <1>2 DEF SameStatus, Calm
  <2> QED
    BY <1>1, <2>1, AloneMove
<1>3. CASE upd[u].pc = "r_restore" /\ row' = dump[u].row /\ UNCHANGED req
  <2>1. SUFFICES ASSUME Calm'
                 PROVE  /\ \A a, b \in Run : Acting(a)' /\ Acting(b)' => a = b
                        /\ \A a \in Run : Acting(a)' => AloneAt(a)'
                        /\ \A c \in orphan' : c.kind # "restore"
    BY DEF Alone
  <2>2. Calm /\ Live(u) /\ Acting(u) /\ dump[u].taken /\ req[u].pc = "done"
    BY <1>1, <1>3, <1>a, <2>1 DEF Calm, Live, Acting, TypeInv, Releases, UpdOk, Dumped, Backward
  <2>3. AloneAt(u)
    BY <2>2, ActingIsLatest
  <2>4. \A a \in Run : Acting(a)' => a = u
    BY <1>1, <1>3, <1>a, <2>2 DEF Alone, Acting, Live, OnlyUpd
  <2>5. AloneAt(u)'
    BY <1>1, <1>3, <2>2, <2>3 DEF AloneAt, Live
  <2> QED
    BY <1>1, <1>a, <2>2, <2>4, <2>5 DEF Alone
<1> QED
  BY <1>1, <1>2, <1>3

LEMMA AlonePick ==
  ASSUME AloneInv, NEW u \in Run, Pick(u)
  PROVE  Alone'
<1>a. TypeInv /\ Alone
  BY DEF AloneInv, AskedInv
<1>1. /\ OnlyUpd(u) /\ upd[u].pc = "boot"
      /\ IF Queued = {}
         THEN upd'[u].pc = "ended"
         ELSE upd'[u].pc = "picked" /\ upd'[u].row = Newest(Queued)
      /\ UNCHANGED <<row, req, dump, orphan, flaw>>
  BY <1>a, PickDoes
<1>2. SUFFICES ASSUME Calm'
               PROVE  /\ \A a, b \in Run : Acting(a)' /\ Acting(b)' => a = b
                      /\ \A a \in Run : Acting(a)' => AloneAt(a)'
                      /\ \A c \in orphan' : c.kind # "restore"
  BY DEF Alone
<1>3. Calm /\ Acting(u)
  BY <1>1, <1>2 DEF Calm, Acting, Live
<1>4. AloneAt(u)
  BY <1>3, ActingIsLatest
<1>5. Newest(Queued) = u /\ Queued # {}
  <2>1. u \in Queued /\ \A r \in Queued : r <= u
    BY <1>1, <1>4 DEF AloneAt, Last, Queued
  <2>2. Newest(Queued) \in Queued /\ u <= Newest(Queued)
    BY <2>1, NewestIs DEF Queued
  <2> QED
    BY <2>1, <2>2, BoundsAssumption DEF Queued, Run
<1>6. \A a \in Run : Acting(a)' => a = u
  BY <1>1, <1>3, <1>a DEF Alone, Acting, Live, OnlyUpd
<1>7. AloneAt(u)'
  <2>1. req[u].pc = "done"
    BY <1>1, <1>a DEF TypeInv, Releases
  <2> QED
    BY <1>1, <1>4, <1>5, <2>1 DEF AloneAt, Live
<1> QED
  BY <1>1, <1>a, <1>3, <1>6, <1>7 DEF Alone

LEMMA AloneNext ==
  ASSUME AloneInv, [Next]_vars
  PROVE  Alone'
<1>a. /\ TypeInv /\ TypeOK /\ Alone /\ Releases /\ req \in [Run -> ReqType] /\ upd \in [Run -> UpdType]
  BY DEF AloneInv, AskedInv, TypeInv, TypeOK
<1>b. ASSUME UNCHANGED flaw PROVE Calm' => Calm
  BY <1>b DEF Calm
<1>c. ASSUME UNCHANGED row PROVE SameStatus
  BY <1>c DEF SameStatus
\* A handler moves on or ends, or an updater starts.
<1>d. ASSUME UNCHANGED <<dump, orphan, flaw>>, SameStatus,
             \A q \in Run : req'[q] = req[q] \/ req'[q].pc \in {"none", "done"},
             \A q \in Run : upd'[q] = upd[q]
      PROVE  Alone'
  BY <1>a, <1>b, <1>d, AloneFrame DEF Acting, Live
<1>1. ASSUME NEW r \in Run, Launch(r)
      PROVE  Alone'
  <2>1. /\ req[r].pc = "inserted" /\ upd' = [upd EXCEPT ![r].pc = "boot"]
        /\ req' = [req EXCEPT ![r] = ReqOver] /\ UNCHANGED <<row, dump, orphan, flaw>>
    BY <1>1 DEF Launch
  <2>2. /\ upd'[r].pc = "boot" /\ OnlyUpd(r) /\ req'[r].pc = "done"
        /\ \A q \in Run \ {r} : req'[q] = req[q]
    BY <1>a, <2>1, OverIs DEF OnlyUpd, UpdType
  <2>3. ASSUME NEW q \in Run, Acting(q)'
        PROVE  /\ Acting(q)
               /\ req'[q].pc = "inserted" \/ upd'[q].pc = "boot" =>
                   req[q].pc = "inserted" \/ upd[q].pc = "boot"
               /\ Live(q)' /\ upd'[q].pc # "boot" =>
                   upd'[q].row = q \/ (Live(q) /\ upd[q].pc # "boot" /\ upd'[q].row = upd[q].row)
               /\ dump'[q].taken => dump'[q].row = row \/ (dump[q].taken /\ dump'[q] = dump[q])
    BY <2>1, <2>2, <2>3 DEF Acting, Live, OnlyUpd
  <2> QED
    BY <1>a, <1>b, <1>c, <2>1, <2>2, <2>3, AloneFrame
<1>2. ASSUME NEW r \in Run, LaunchFails(r)
      PROVE  Alone'
  <2>1. /\ req[r].pc = "inserted" /\ UNCHANGED <<row, upd, dump, orphan, flaw>>
        /\ \/ req' = [req EXCEPT ![r] = [@ EXCEPT !.pc = "failing"]]
           \/ req' = [req EXCEPT ![r] = ReqOver]
    BY <1>2 DEF LaunchFails
  <2>2. /\ req'[r].pc \in {"failing", "done"}
        /\ \A q \in Run \ {r} : req'[q] = req[q]
    BY <1>a, <2>1, OverIs DEF ReqType
  <2>3. \A q \in Run : Acting(q)' => Acting(q)
    BY <2>1, <2>2 DEF Acting, Live
  <2> QED
    BY <1>a, <1>b, <1>c, <2>1, <2>2, <2>3, AloneFrame DEF Acting, Live
<1>3. ASSUME NEW r \in Run, FailRow(r)
      PROVE  Alone'
  <2>1. /\ req[r].pc = "failing" /\ req'[r].pc = "done" /\ \A q \in Run \ {r} : req'[q] = req[q]
        /\ UNCHANGED <<upd, dump, orphan, flaw>>
    BY <1>a, <1>3, FailRowDoes
  <2>2. upd[r].pc = "none"
    BY <1>a, <2>1 DEF Releases
  <2>3. Calm' => \A q \in Run : ~Acting(q)'
    BY <1>a, <1>b, <2>1, <2>2 DEF Alone, Acting, Live
  <2> QED
    BY <1>a, <1>b, <2>1, <2>3, NobodyActs
<1>4. ASSUME NEW r \in Run, Drop(r)
      PROVE  Alone'
  <2>1. req' = [req EXCEPT ![r] = ReqOver] /\ UNCHANGED <<row, upd, dump, orphan, flaw>>
    BY <1>4 DEF Drop
  <2>2. \A q \in Run : req'[q] = req[q] \/ req'[q].pc \in {"none", "done"}
    BY <1>a, <2>1, OverIs
  <2> QED
    BY <1>c, <1>d, <2>1, <2>2
<1>5. ASSUME NEW r \in Run, Overdue(r)
      PROVE  Alone'
  BY <1>a, <1>d, <1>5, OverdueDoes
<1>6. ASSUME NEW u \in Run, Start(u)
      PROVE  Alone'
  <2>1. SameStatus /\ UNCHANGED <<req, dump, orphan, flaw>>
    BY <1>a, <1>6, StartDoes
  <2>2. upd[u].pc = "picked" /\ Goto(u, "check")
    BY <1>6 DEF Start
  <2>3. upd'[u].pc = "check" /\ OnlyUpd(u) /\ SameRun(u)
    BY <1>a, <2>2, GotoDoes DEF Place
  <2> QED
    BY <1>b, <2>1, <2>2, <2>3, AloneMove DEF SameRun
<1>7. ASSUME NEW u \in Run, ReportFails(u) \/ CheckTree(u) \/ Verify(u)
      PROVE  Alone'
  <2>1. /\ OnlyUpd(u) /\ SameRun(u) /\ upd[u].pc \notin {"none", "boot", "ended"}
        /\ upd'[u].pc \in {"failed", "rolling_back", "snapshotting", "success", "rolled_back"}
        /\ UNCHANGED <<row, req, dump, orphan, flaw>>
    BY <1>a, <1>7, MoveDoes
  <2> QED
    BY <1>b, <1>c, <2>1, AloneMove DEF SameRun
<1>8. ASSUME NEW u \in Run, TakeDump(u)
      PROVE  Alone'
  <2>1. /\ OnlyUpd(u) /\ SameRun(u) /\ upd[u].pc = "snapshotting"
        /\ \/ upd'[u].pc = "failed" /\ UNCHANGED dump
           \/ upd'[u].pc = "checking_out" /\ OnlyDump(u) /\ dump'[u].row = row
        /\ UNCHANGED <<row, req, orphan, flaw>>
    BY <1>a, <1>8, TakeDumpDoes
  <2> QED
    BY <1>b, <1>c, <2>1, AloneMove DEF SameRun
<1>9. ASSUME NEW u \in Run, CommandFails(u)
      PROVE  Alone'
  BY <1>9, <1>b, AloneCommand
<1>10. ASSUME NEW u \in Run, CommandTimesOut(u)
       PROVE  Alone'
  <2>1. /\ Running(u) /\ GiveUp(u) /\ orphan' = orphan \cup {Command(u)}
        /\ flaw' = flaw \cup {"timeout"} \cup (IF upd[u].pc = "r_restore" THEN {"late"} ELSE {})
        /\ UNCHANGED <<row, req, dump>>
    BY <1>10 DEF CommandTimesOut
  <2>2. Calm' => Calm /\ upd[u].pc # "r_restore"
    BY <2>1 DEF Calm
  <2>3. /\ upd[u].pc \notin {"none", "boot", "ended"} /\ upd'[u].pc # "boot"
        /\ OnlyUpd(u) /\ SameRun(u)
    BY <1>a, <2>1, GiveUpDoes
  <2>4. Calm' => Command(u).kind # "restore"
    BY <1>a, <2>1, <2>2, CommandIs
  <2> QED
    BY <1>c, <2>1, <2>2, <2>3, <2>4, AloneMove DEF SameRun
<1>11. ASSUME NEW u \in Run, Crash(u)
       PROVE  Alone'
  <2>1. Live(u) /\ End(u) /\ UNCHANGED <<row, req, orphan, flaw>>
    BY <1>11 DEF Crash
  <2>2. upd'[u].pc = "ended" /\ OnlyUpd(u)
    BY <1>a, <2>1, EndDoes
  <2>3. req[u].pc = "done"
    BY <1>a, <2>1 DEF Releases, Live
  <2>4. Calm' => \A r \in Run : ~Acting(r)'
    BY <1>a, <1>b, <2>1, <2>2, <2>3 DEF Alone, Acting, Live, OnlyUpd
  <2> QED
    BY <1>a, <1>b, <2>1, <2>4, NobodyActs
<1>12. ASSUME NEW c \in orphan, OrphanDone(c)
       PROVE  Alone'
  <2>1. Takes(c) /\ orphan' = orphan \ {c} /\ UNCHANGED <<upd, dump, flaw>>
    BY <1>12 DEF OrphanDone
  <2>2. CASE ~Calm
    BY <1>b, <2>1, <2>2 DEF Alone
  <2>3. CASE Calm
    <3>1. c.kind # "restore" /\ c \in CommandType /\ CommandOk(c)
      BY <1>a, <2>3 DEF Alone, TypeOK, Releases
    <3>2. UNCHANGED row /\ (UNCHANGED req \/ req' = HandlersOver)
      BY <1>a, <2>1, <3>1, TakesDoes
    <3>3. \A q \in Run : req'[q] = req[q] \/ req'[q].pc \in {"none", "done"}
      BY <1>a, <3>2, HandlersEnd
    <3> QED
      BY <1>a, <1>b, <1>c, <2>1, <3>2, <3>3, AloneFrame DEF Acting, Live
  <2> QED
    BY <2>2, <2>3
<1>13. ASSUME RestartServer
       PROVE  Alone'
  <2>1. req' = HandlersOver /\ UNCHANGED <<row, upd, dump, orphan, flaw>>
    BY <1>13 DEF RestartServer
  <2>2. \A q \in Run : req'[q] = req[q] \/ req'[q].pc \in {"none", "done"}
    BY <1>a, <2>1, HandlersEnd
  <2> QED
    BY <1>c, <1>d, <2>1, <2>2
<1>14. CASE UNCHANGED vars
  BY <1>14, <1>c, <1>d DEF vars
<1>15. ASSUME NEW r \in Run, Handler(r) \/ Updater(r) \/ Overdue(r)
       PROVE  Alone'
  <2>1. CASE Handler(r)
    BY <1>1, <1>2, <1>3, <1>4, <2>1, AloneRequest, AloneInsert DEF Handler
  <2>2. CASE Updater(r)
    BY <1>6, <1>7, <1>8, <1>9, <1>10, <1>11, <2>2, AlonePick, AloneReport, AloneCommand DEF Updater
  <2> QED
    BY <1>5, <1>15, <2>1, <2>2
<1> QED
  BY <1>12, <1>13, <1>14, <1>15 DEF Next

LEMMA AloneHolds == Spec => []AloneInv
<1>1. Init => AloneInv
  BY TypeInit, AskingInit, AloneInit DEF AloneInv, AskedInv
<1>2. AloneInv /\ [Next]_vars => AloneInv'
  BY TypeNext, AskingNext, AloneNext DEF AloneInv, AskedInv
<1> QED
  BY <1>1, <1>2, PTL DEF Spec

(* Two updaters run at once only after two requests raced, a run in use    *)
(* was given up for abandoned, or a pg_restore outlived its time limit     *)
(* (updates/system.py request_server_update, updater/__main__.py _main).   *)
THEOREM OneUpdaterAtATime == Spec => []OneUpdater
<1>1. AloneInv => OneUpdater
  BY DEF AloneInv, Alone, OneUpdater, Calm, Acting
<1> QED
  BY <1>1, AloneHolds, PTL

-----------------------------------------------------------------------------
(* The stages.  As long as nothing went wrong beyond what the updater      *)
(* handles, the release, the virtualenv, the schema and the service are    *)
(* what the stages an updater has been through made them.                  *)
At(u, S) == upd[u].pc \in S

StageAt(u) ==
  /\ At(u, {"syncing", "migrating", "restarting", "verifying", "success"}) => code = upd[u].to
  /\ At(u, {"migrating", "restarting", "verifying", "success"}) => venv = upd[u].to
  /\ At(u, {"restarting", "verifying", "success"}) => schema = upd[u].to
  /\ At(u, {"verifying", "success"}) => server \in {upd[u].to, 0}
  /\ At(u, {"success"}) => server = upd[u].to
  /\ At(u, {"r_sync", "r_restore", "r_restart", "r_verify", "rolled_back"}) => code = upd[u].old
  /\ At(u, {"r_restore", "r_restart", "r_verify", "rolled_back"}) => venv = upd[u].old
  /\ At(u, {"r_restart", "r_verify", "rolled_back"}) => schema = dump[u].schema
  /\ At(u, {"r_verify", "rolled_back"}) => server \in {code, 0}
  /\ At(u, {"rolled_back"}) => server = upd[u].from

Stages == flaw = {} => orphan = {} /\ \A u \in Run : StageAt(u)

StagesInv == AloneInv /\ Stages

(* Where nothing is claimed about the release.                             *)
Still == {"none", "boot", "picked", "check", "snapshotting", "checking_out", "rolling_back",
          "failed", "ended"}

LEMMA StillStage == \A u \in Run : upd[u].pc \in Still => StageAt(u)
BY DEF Still, StageAt, At

LEMMA StageKept ==
  ASSUME NEW u \in Run, StageAt(u), upd'[u].pc = upd[u].pc, SameRun(u), upd'[u].old = upd[u].old,
         dump'[u] = dump[u], UNCHANGED <<code, venv, schema, server>>
  PROVE  StageAt(u)'
BY DEF StageAt, At, SameRun

LEMMA StagesInit == Init => Stages
<1>1. NoUpd.pc = "none"
  BY DEF NoUpd
<1> QED
  BY <1>1, StillStage DEF Init, Stages, Still

(* A step that leaves the release and every updater alone.                 *)
LEMMA StagesFrame ==
  ASSUME Stages, flaw' = {} => flaw = {},
         UNCHANGED <<upd, dump, code, venv, schema, server, orphan>>
  PROVE  Stages'
BY DEF Stages, StageAt, At

(* A step of one updater: the others are not live, if nothing went wrong.  *)
LEMMA StagesStep ==
  ASSUME StagesInv, NEW u \in Run, Live(u), OnlyUpd(u),
         flaw' = {} => flaw = {} /\ orphan' = {} /\ StageAt(u)'
  PROVE  Stages'
<1>1. SUFFICES ASSUME flaw' = {}
               PROVE  orphan' = {} /\ \A v \in Run : StageAt(v)'
  BY DEF Stages
<1>2. flaw = {} /\ Calm
  BY <1>1 DEF Calm
<1>3. ASSUME NEW v \in Run, v # u
      PROVE  StageAt(v)'
  <2>1. ~Live(v)
    BY <1>2, <1>3 DEF StagesInv, AloneInv, Alone, Acting
  <2>2. upd'[v].pc \in {"none", "ended"}
    BY <1>3, <2>1 DEF Live, OnlyUpd
  <2> QED
    BY <2>2 DEF StageAt, At
<1> QED
  BY <1>1, <1>3

LEMMA StagesNext ==
  ASSUME StagesInv, [Next]_vars
  PROVE  Stages'
<1>a. TypeInv /\ TypeOK /\ Releases /\ Stages
  BY DEF StagesInv, AloneInv, AskedInv, TypeInv
<1>b. ASSUME NEW u \in Run, flaw = {}
      PROVE  StageAt(u) /\ orphan = {}
  BY <1>a, <1>b DEF Stages
<1>c. ASSUME NEW u \in Run, upd'[u].pc \in Still
      PROVE  StageAt(u)'
  BY <1>c DEF Still, StageAt, At
<1>1. ASSUME NEW r \in Run, Handler(r), ~Launch(r)
      PROVE  Stages'
  <2>1. UNCHANGED <<upd, dump, code, venv, schema, server, orphan>> /\ flaw \subseteq flaw'
    BY <1>1 DEF Handler, Request, Insert, LaunchFails, FailRow, Drop, release
  <2> QED
    BY <1>a, <2>1, StagesFrame
<1>2. ASSUME NEW r \in Run, Launch(r)
      PROVE  Stages'
  <2>1. /\ upd' = [upd EXCEPT ![r].pc = "boot"]
        /\ UNCHANGED <<dump, code, venv, schema, server, orphan, flaw>>
    BY <1>2 DEF Launch, release
  <2>2. upd'[r].pc = "boot" /\ OnlyUpd(r)
    BY <1>a, <2>1 DEF TypeOK, UpdType, OnlyUpd
  <2>3. ASSUME NEW v \in Run, flaw = {}
        PROVE  StageAt(v)'
    <3>1. CASE v = r
      BY <1>c, <2>2, <3>1 DEF Still
    <3>2. CASE v # r
      BY <1>b, <2>1, <2>2, <2>3, <3>2, StageKept DEF OnlyUpd, SameRun
    <3> QED
      BY <3>1, <3>2
  <2> QED
    BY <1>a, <2>1, <2>3 DEF Stages
<1>3. ASSUME NEW r \in Run, Overdue(r)
      PROVE  Stages'
  BY <1>a, <1>3, OverdueDoes, StagesFrame
<1>4. ASSUME NEW u \in Run, Pick(u)
      PROVE  Stages'
  <2>1. /\ OnlyUpd(u) /\ upd[u].pc = "boot" /\ upd'[u].pc \in {"ended", "picked"}
        /\ UNCHANGED <<orphan, flaw>>
    BY <1>a, <1>4, PickDoes
  <2> QED
    BY <1>b, <1>c, <2>1, StagesStep DEF Live, Still
<1>5. ASSUME NEW u \in Run, Start(u)
      PROVE  Stages'
  <2>1. upd[u].pc = "picked" /\ Goto(u, "check") /\ UNCHANGED <<orphan, flaw>>
    BY <1>5 DEF Start
  <2>2. upd'[u].pc = "check" /\ OnlyUpd(u)
    BY <1>a, <2>1, GotoDoes DEF Place
  <2> QED
    BY <1>b, <1>c, <2>1, <2>2, StagesStep DEF Live, Still
<1>6. ASSUME NEW u \in Run, Report(u)
      PROVE  Stages'
  <2>1. /\ upd[u].pc \in Status \ {"absent", "queued"}
        /\ UNCHANGED <<code, venv, schema, server, orphan, flaw>>
        /\ IF upd[u].pc \in Terminal
           THEN End(u)
           ELSE /\ UNCHANGED dump /\ OnlyUpd(u) /\ upd'[u].pc = upd[u].pc
                /\ SameRun(u) /\ upd'[u].old = upd[u].old
    BY <1>a, <1>6, ReportDoes
  <2>2. Live(u)
    BY <2>1 DEF Live, Status, Forward, Terminal
  <2>3. OnlyUpd(u) /\ (flaw = {} => StageAt(u)')
    <3>1. CASE upd[u].pc \in Terminal
      BY <1>a, <1>c, <2>1, <3>1, EndDoes DEF Still
    <3>2. CASE upd[u].pc \notin Terminal
      BY <1>b, <2>1, <3>2, StageKept
    <3> QED
      BY <3>1, <3>2
  <2> QED
    BY <1>b, <2>1, <2>2, <2>3, StagesStep
<1>7. ASSUME NEW u \in Run, ReportFails(u) \/ CheckTree(u) \/ Verify(u)
      PROVE  Stages'
  <2>1. /\ OnlyUpd(u) /\ SameRun(u) /\ upd[u].pc \notin {"none", "boot", "ended"}
        /\ upd'[u].pc \in {"failed", "rolling_back", "snapshotting", "success", "rolled_back"}
        /\ upd'[u].pc = "success" => upd[u].pc = "verifying" /\ Healthy(upd[u].to)
        /\ upd'[u].pc = "rolled_back" =>
             upd[u].pc = "r_verify" /\ Healthy(upd[u].from) /\ upd'[u].old = upd[u].old
        /\ UNCHANGED <<dump, code, venv, schema, server, orphan, flaw>>
    BY <1>a, <1>7, MoveDoes
  <2>2. flaw = {} => StageAt(u)'
    <3>1. CASE upd'[u].pc \in {"failed", "rolling_back", "snapshotting"}
      BY <1>c, <3>1 DEF Still
    <3>2. CASE upd'[u].pc = "success"
      BY <1>b, <2>1, <3>2 DEF StageAt, At, SameRun, Healthy
    <3>3. CASE upd'[u].pc = "rolled_back"
      BY <1>b, <2>1, <3>3 DEF StageAt, At, SameRun, Healthy
    <3> QED
      BY <2>1, <3>1, <3>2, <3>3
  <2> QED
    BY <1>b, <2>1, <2>2, StagesStep DEF Live
<1>8. ASSUME NEW u \in Run, TakeDump(u)
      PROVE  Stages'
  <2>1. /\ OnlyUpd(u) /\ upd[u].pc = "snapshotting" /\ upd'[u].pc \in {"failed", "checking_out"}
        /\ UNCHANGED <<orphan, flaw>>
    BY <1>a, <1>8, TakeDumpDoes
  <2> QED
    BY <1>b, <1>c, <2>1, StagesStep DEF Live, Still
<1>9. ASSUME NEW u \in Run, CommandDone(u)
      PROVE  Stages'
  <2> DEFINE p == upd[u].pc
             next == upd'[u].pc
  <2>1. /\ p = "checking_out" =>
              next = "syncing" /\ code' = upd[u].to /\ UNCHANGED <<row, req, venv, schema, server>>
        /\ p = "syncing" =>
              next = "migrating" /\ venv' = code /\ UNCHANGED <<row, req, code, schema, server>>
        /\ p = "migrating" =>
              next = "restarting" /\ schema' = code /\ UNCHANGED <<row, req, code, venv, server>>
        /\ p = "restarting" =>
              /\ next = "verifying" /\ server' \in {code, 0} /\ req' = HandlersOver
              /\ UNCHANGED <<row, code, venv, schema>>
        /\ p = "rolling_back" =>
              next = "r_sync" /\ code' = upd[u].old /\ UNCHANGED <<row, req, venv, schema, server>>
        /\ p = "r_sync" =>
              next = "r_restore" /\ venv' = code /\ UNCHANGED <<row, req, code, schema, server>>
        /\ p = "r_restore" =>
              /\ next = "r_restart" /\ row' = dump[u].row /\ schema' = dump[u].schema
              /\ UNCHANGED <<req, code, venv, server>>
        /\ p = "r_restart" =>
              /\ next = "r_verify" /\ server' \in {code, 0} /\ req' = HandlersOver
              /\ UNCHANGED <<row, code, venv, schema>>
        /\ p \in {"checking_out", "syncing", "migrating", "restarting", "rolling_back",
                  "r_sync", "r_restore", "r_restart"}
        /\ OnlyUpd(u) /\ SameRun(u) /\ upd'[u].old = upd[u].old
        /\ UNCHANGED <<dump, orphan, flaw>>
    BY <1>a, <1>9, CommandDoneDoes
  <2>2. flaw = {} => StageAt(u)'
    <3>1. SUFFICES ASSUME flaw = {} PROVE StageAt(u)'
      OBVIOUS
    <3>2. StageAt(u)
      BY <1>b, <3>1
    <3>3. CASE p \in {"checking_out", "rolling_back"}
      BY <2>1, <3>2, <3>3 DEF StageAt, At, SameRun
    <3>4. CASE p \in {"syncing", "r_sync"}
      BY <2>1, <3>2, <3>4 DEF StageAt, At, SameRun
    <3>5. CASE p \in {"migrating", "r_restore"}
      BY <2>1, <3>2, <3>5 DEF StageAt, At, SameRun
    <3>6. CASE p \in {"restarting", "r_restart"}
      BY <2>1, <3>2, <3>6 DEF StageAt, At, SameRun
    <3> QED
      BY <2>1, <3>3, <3>4, <3>5, <3>6
  <2> QED
    BY <1>b, <2>1, <2>2, StagesStep DEF Live
<1>10. ASSUME NEW u \in Run, CommandFails(u)
       PROVE  Stages'
  <2>1. Running(u) /\ GiveUp(u) /\ UNCHANGED <<orphan, flaw>>
    BY <1>10 DEF CommandFails
  <2>2. /\ upd[u].pc \notin {"none", "boot", "ended"} /\ upd'[u].pc \in Still /\ OnlyUpd(u)
    BY <1>a, <2>1, GiveUpDoes DEF Still
  <2> QED
    BY <1>b, <1>c, <2>1, <2>2, StagesStep DEF Live
<1>11. ASSUME NEW u \in Run, CommandTimesOut(u)
       PROVE  Stages'
  <2>1. "timeout" \in flaw'
    BY <1>11 DEF CommandTimesOut
  <2> QED
    BY <2>1 DEF Stages
<1>12. ASSUME NEW u \in Run, Crash(u)
       PROVE  Stages'
  <2>1. Live(u) /\ End(u) /\ UNCHANGED <<orphan, flaw>>
    BY <1>12 DEF Crash
  <2>2. upd'[u].pc = "ended" /\ OnlyUpd(u)
    BY <1>a, <2>1, EndDoes
  <2> QED
    BY <1>b, <1>c, <2>1, <2>2, StagesStep DEF Still
<1>13. ASSUME NEW c \in orphan, OrphanDone(c)
       PROVE  Stages'
  <2>1. flaw # {} /\ UNCHANGED flaw
    BY <1>13, <1>a DEF Stages, OrphanDone
  <2> QED
    BY <2>1 DEF Stages
\* systemd restarts the service: it runs what is checked out.
<1>14. ASSUME RestartServer
       PROVE  Stages'
  <2>1. /\ server # code /\ server' = code
        /\ UNCHANGED <<upd, dump, code, venv, schema, orphan, flaw>>
    BY <1>14 DEF RestartServer
  <2>2. ASSUME NEW u \in Run, flaw = {}
        PROVE  StageAt(u)'
    <3>1. StageAt(u) /\ UpdOk(upd[u], dump[u])
      BY <1>a, <1>b, <2>2 DEF Releases
    <3>2. upd[u].pc # "success"
      BY <2>1, <3>1 DEF StageAt, At
    <3>3. upd[u].pc # "rolled_back"
      <4>1. SUFFICES ASSUME upd[u].pc = "rolled_back" PROVE FALSE
        OBVIOUS
      <4>2. upd[u].from \in Version
        BY <3>1, <4>1 DEF UpdOk
      <4>3. upd[u].from # 0
        BY <4>2, BoundsAssumption DEF Version
      <4> QED
        BY <2>1, <3>1, <4>1, <4>3 DEF StageAt, At
    <3> QED
      BY <2>1, <3>1, <3>2, <3>3 DEF StageAt, At
  <2> QED
    BY <1>a, <2>1, <2>2 DEF Stages
<1>15. CASE UNCHANGED vars
  BY <1>a, <1>15, StagesFrame DEF vars
<1>16. ASSUME NEW r \in Run, Handler(r) \/ Updater(r) \/ Overdue(r)
       PROVE  Stages'
  <2>1. CASE Updater(r)
    BY <1>4, <1>5, <1>6, <1>7, <1>8, <1>9, <1>10, <1>11, <1>12, <2>1 DEF Updater
  <2> QED
    BY <1>1, <1>2, <1>3, <1>16, <2>1
<1> QED
  BY <1>13, <1>14, <1>15, <1>16 DEF Next

-----------------------------------------------------------------------------
(* What stands.  As long as nothing went wrong beyond what the updater     *)
(* handles, the dump an updater holds gives every other row the status it  *)
(* has, and a run that a request is about to reap is not finished, or was  *)
(* failed meanwhile.                                                       *)
DumpStands(u) ==
  dump[u].taken => \A r \in Run \ {u} : dump[u].row[r].status = row[r].status

ReapStands(q) ==
  req[q].pc = "checked" /\ req[q].reap =>
    /\ req[q].seen # 0
    /\ row[req[q].seen].status \in Terminal => row[req[q].seen].status = "failed"

Standing ==
  flaw = {} => (\A u \in Run : DumpStands(u)) /\ \A q \in Run : ReapStands(q)

UpdateInv == StagesInv /\ Standing

(* An updater that has not started, or has ended, has no dump.             *)
LEMMA DumpsAreLive ==
  ASSUME TypeInv, NEW u \in Run, dump[u].taken
  PROVE  Live(u)
BY DEF TypeInv, Releases, UpdOk, Early, Live

LEMMA StandingInit == Init => Standing
<1>1. NoReq.pc = "none" /\ ~NoDump.taken
  BY OverIs, NothingDumped
<1> QED
  BY <1>1 DEF Init, Standing, DumpStands, ReapStands

(* A step that leaves the statuses alone.                                  *)
LEMMA StandingFrame ==
  ASSUME TypeInv, Standing, flaw' = {} => flaw = {}, SameStatus,
         \A u \in Run : dump'[u].taken => dump'[u] = dump[u] \/ dump'[u].row = row,
         \A q \in Run : req'[q].pc = "checked" => req'[q] = req[q]
  PROVE  Standing'
<1>1. SUFFICES ASSUME flaw' = {}
               PROVE  (\A u \in Run : DumpStands(u)') /\ \A q \in Run : ReapStands(q)'
  BY DEF Standing
<1>2. (\A u \in Run : DumpStands(u)) /\ \A q \in Run : ReapStands(q)
  BY <1>1 DEF Standing
<1>3. ASSUME NEW u \in Run
      PROVE  DumpStands(u)'
  BY <1>2 DEF DumpStands, SameStatus
<1>4. ASSUME NEW q \in Run, req'[q].pc = "checked", req'[q].reap
      PROVE  /\ req'[q].seen # 0
             /\ row'[req'[q].seen].status \in Terminal => row'[req'[q].seen].status = "failed"
  <2>1. req'[q] = req[q] /\ req[q] \in ReqType
    BY <1>4 DEF TypeInv, TypeOK
  <2>2. req[q].seen # 0 /\ req[q].seen \in Run
    BY <1>2, <1>4, <2>1, BoundsAssumption DEF ReapStands, ReqType, Run
  <2> QED
    BY <1>2, <1>4, <2>1, <2>2 DEF ReapStands, SameStatus
<1> QED
  BY <1>3, <1>4 DEF ReapStands

(* A step that leaves the requests alone, or ends some, while no updater   *)
(* has a dump, or only one whose dump agrees with the rows but its own.    *)
LEMMA StandingRow ==
  ASSUME StagesInv, Standing, flaw' = {} => flaw = {}, NEW r \in Run,
         flaw = {} => Acting(r),
         \A q \in Run \ {r} : row'[q].status = row[q].status,
         \A u \in Run : dump'[u].taken => dump'[u] = dump[u],
         \A q \in Run : req'[q].pc = "checked" => req'[q] = req[q]
  PROVE  Standing'
<1>1. SUFFICES ASSUME flaw' = {}
               PROVE  (\A u \in Run : DumpStands(u)') /\ \A q \in Run : ReapStands(q)'
  BY DEF Standing
<1>2. /\ (\A u \in Run : DumpStands(u)) /\ (\A q \in Run : ReapStands(q))
      /\ Calm /\ Acting(r) /\ TypeInv /\ Alone
  BY <1>1 DEF Standing, Calm, StagesInv, AloneInv, AskedInv
<1>3. ASSUME NEW u \in Run
      PROVE  DumpStands(u)'
  <2>1. dump[u].taken => u = r
    BY <1>2, DumpsAreLive DEF Alone, Acting
  <2> QED
    BY <1>2, <2>1 DEF DumpStands
<1>4. ASSUME NEW q \in Run, req'[q].pc = "checked", req'[q].reap
      PROVE  /\ req'[q].seen # 0
             /\ row'[req'[q].seen].status \in Terminal => row'[req'[q].seen].status = "failed"
  <2>1. req'[q] = req[q] /\ req[q] \in ReqType
    BY <1>2, <1>4 DEF TypeInv, TypeOK
  <2>2. req[q].seen # 0 /\ req[q].seen \in Run
    BY <1>2, <1>4, <2>1, BoundsAssumption DEF ReapStands, ReqType, Run
  <2>3. req[q].seen # r
    BY <1>2, <1>4, <2>1 DEF Alone, AloneAt
  <2> QED
    BY <1>2, <1>4, <2>1, <2>2, <2>3 DEF ReapStands
<1> QED
  BY <1>3, <1>4 DEF ReapStands

LEMMA StandingRequest ==
  ASSUME StagesInv, Standing, NEW r \in Run, NEW v \in Version, Request(r, v)
  PROVE  Standing'
<1> DEFINE w == [pc |-> "checked", to |-> v, seen |-> Latest,
                 reap |-> Exists(Latest) /\ Abandoned(Latest)]
<1>1. /\ req' = [req EXCEPT ![r] = w] /\ flaw \subseteq flaw' /\ UNCHANGED <<row, dump>>
  BY DEF Request
<1>2. w.pc = "checked" /\ w.seen = Latest /\ (w.reap <=> Exists(Latest) /\ Abandoned(Latest))
  OBVIOUS
<1> HIDE DEF w
<1>3. req'[r] = w /\ \A q \in Run \ {r} : req'[q] = req[q]
  BY <1>1 DEF StagesInv, AloneInv, AskedInv, TypeInv, TypeOK
<1>4. w.reap => w.seen # 0 /\ row[w.seen].status \notin Terminal
  BY <1>2 DEF Exists, Abandoned, Finished
<1> QED
  BY <1>1, <1>3, <1>4 DEF Standing, DumpStands, ReapStands

LEMMA StandingInsert ==
  ASSUME StagesInv, Standing, NEW r \in Run, Insert(r)
  PROVE  Standing'
<1>a. TypeInv /\ Asking /\ req \in [Run -> ReqType]
  BY DEF StagesInv, AloneInv, AskedInv, TypeInv, TypeOK
<1>1. /\ req[r].pc = "checked" /\ (req[r].reap => Exists(req[r].seen))
      /\ row'[r].status = "queued"
      /\ \A q \in Run \ {r} :
            row'[q].status = IF req[r].reap /\ q = req[r].seen THEN "failed" ELSE row[q].status
      /\ req'[r].pc = "inserted" /\ \A q \in Run \ {r} : req'[q] = req[q]
      /\ Latest # req[r].seen => "race" \in flaw'
      /\ UNCHANGED <<upd, dump>> /\ flaw \subseteq flaw'
  BY <1>a, InsertDoes
<1>2. SUFFICES ASSUME flaw' = {}
               PROVE  (\A u \in Run : DumpStands(u)') /\ \A q \in Run : ReapStands(q)'
  BY DEF Standing
<1>3. /\ Calm /\ Latest = req[r].seen /\ \A q \in Run : ReapStands(q)
  BY <1>1, <1>2 DEF Calm, Standing
<1>4. \A u \in Run : ~dump[u].taken
  <2>1. SUFFICES ASSUME NEW u \in Run, dump[u].taken PROVE FALSE
    OBVIOUS
  <2>2. Acting(u)
    BY <1>a, <2>1, DumpsAreLive DEF Acting
  <2>3. AloneAt(u) /\ Latest = u
    BY <1>3, <2>2, ActingIsLatest DEF StagesInv
  <2> QED
    BY <1>1, <1>3, <2>3 DEF AloneAt
<1>5. ASSUME NEW q \in Run, req'[q].pc = "checked", req'[q].reap
      PROVE  /\ req'[q].seen # 0
             /\ row'[req'[q].seen].status \in Terminal => row'[req'[q].seen].status = "failed"
  <2>1. req'[q] = req[q] /\ req[q] \in ReqType
    BY <1>a, <1>1, <1>5
  <2>2. req[q].seen # 0 /\ req[q].seen \in Run
    BY <1>3, <1>5, <2>1, BoundsAssumption DEF ReapStands, ReqType, Run
  <2>3. req[q].seen # r
    BY <1>a, <1>1, <1>5, <2>1, <2>2 DEF Asking, Asked
  <2> QED
    BY <1>1, <1>3, <1>5, <2>1, <2>2, <2>3 DEF ReapStands
<1> QED
  BY <1>1, <1>4, <1>5 DEF DumpStands, ReapStands

LEMMA StandingNext ==
  ASSUME StagesInv, Standing, [Next]_vars
  PROVE  Standing'
<1>a. /\ TypeInv /\ TypeOK /\ Alone /\ Releases /\ AloneInv /\ Stages
      /\ req \in [Run -> ReqType] /\ dump \in [Run -> DumpType]
  BY DEF StagesInv, AloneInv, AskedInv, TypeInv, TypeOK
<1>b. ASSUME UNCHANGED row PROVE SameStatus
  BY <1>b DEF SameStatus
<1>c. ASSUME NEW w, w \in ReqType, w.pc # "checked", NEW r \in Run, req' = [req EXCEPT ![r] = w]
      PROVE  \A q \in Run : req'[q].pc = "checked" => req'[q] = req[q]
  BY <1>a, <1>c
<1>d. ASSUME req' = HandlersOver
      PROVE  \A q \in Run : req'[q].pc = "checked" => req'[q] = req[q]
  BY <1>a, <1>d, HandlersEnd
<1>e. ASSUME NEW u \in Run, End(u)
      PROVE  \A v \in Run : dump'[v].taken => dump'[v] = dump[v]
  BY <1>a, <1>e, EndDoes, NothingDumped DEF OnlyDump
<1>1. ASSUME NEW r \in Run, Launch(r) \/ LaunchFails(r) \/ Drop(r)
      PROVE  Standing'
  <2>1. UNCHANGED <<row, dump, flaw>>
    BY <1>1 DEF Launch, LaunchFails, Drop
  <2>2. \/ req' = [req EXCEPT ![r] = [@ EXCEPT !.pc = "failing"]]
        \/ req' = [req EXCEPT ![r] = ReqOver]
    BY <1>1 DEF Launch, LaunchFails, Drop
  <2>3. [req[r] EXCEPT !.pc = "failing"] \in ReqType /\ [req[r] EXCEPT !.pc = "failing"].pc = "failing"
    BY <1>a DEF ReqType
  <2>4. \A q \in Run : req'[q].pc = "checked" => req'[q] = req[q]
    BY <1>a, <1>c, <2>2, <2>3, OverIs
  <2> QED
    BY <1>a, <1>b, <2>1, <2>4, StandingFrame
<1>2. ASSUME NEW r \in Run, FailRow(r)
      PROVE  Standing'
  <2>1. /\ OneStatus(r, "failed") /\ req[r].pc = "failing"
        /\ req'[r].pc = "done" /\ \A q \in Run \ {r} : req'[q] = req[q]
        /\ UNCHANGED <<dump, flaw>>
    BY <1>a, <1>2, FailRowDoes
  <2> QED
    BY <1>a, <2>1, StandingRow DEF OneStatus, Acting
<1>3. ASSUME NEW r \in Run, Overdue(r)
      PROVE  Standing'
  BY <1>a, <1>3, OverdueDoes, StandingFrame
<1>4. ASSUME NEW u \in Run, Pick(u) \/ ReportFails(u) \/ CheckTree(u) \/ Verify(u)
      PROVE  Standing'
  <2>1. UNCHANGED <<row, req, dump, flaw>>
    BY <1>4 DEF Pick, ReportFails, CheckTree, Verify
  <2> QED
    BY <1>a, <1>b, <2>1, StandingFrame
<1>5. ASSUME NEW u \in Run, Start(u)
      PROVE  Standing'
  BY <1>a, <1>5, StartDoes, StandingFrame
<1>6. ASSUME NEW u \in Run, Report(u)
      PROVE  Standing'
  <2>1. /\ upd[u].pc \in Status \ {"absent", "queued"}
        /\ IF Exists(upd[u].row)
           THEN upd[u].row \in Run /\ OneStatus(upd[u].row, upd[u].pc)
           ELSE SameStatus
        /\ UNCHANGED <<req, flaw>> /\ (End(u) \/ UNCHANGED dump)
    BY <1>a, <1>6, ReportDoes
  <2>2. Live(u) /\ upd[u].pc # "boot" /\ Acting(u)
    BY <2>1 DEF Status, Forward, Terminal, Live, Acting
  <2>3. \A v \in Run : dump'[v].taken => dump'[v] = dump[v]
    BY <1>e, <2>1
  <2>4. flaw = {} => \A q \in Run \ {u} : row'[q].status = row[q].status
    <3>1. SUFFICES ASSUME flaw = {} PROVE \A q \in Run \ {u} : row'[q].status = row[q].status
      OBVIOUS
    <3>2. upd[u].row = u
      BY <1>a, <2>2, <3>1 DEF Calm, Alone, AloneAt
    <3> QED
      BY <2>1, <3>2 DEF OneStatus, SameStatus
  <2>5. CASE flaw # {}
    BY <2>1, <2>5 DEF Standing
  <2>6. CASE flaw = {}
    BY <2>1, <2>2, <2>3, <2>4, <2>6, StandingRow
  <2> QED
    BY <2>5, <2>6
<1>7. ASSUME NEW u \in Run, TakeDump(u)
      PROVE  Standing'
  <2>1. /\ UNCHANGED dump \/ (OnlyDump(u) /\ dump'[u].row = row)
        /\ UNCHANGED <<row, req, flaw>>
    BY <1>a, <1>7, TakeDumpDoes
  <2>2. \A v \in Run : dump'[v].taken => dump'[v] = dump[v] \/ dump'[v].row = row
    BY <2>1 DEF OnlyDump
  <2> QED
    BY <1>a, <1>b, <2>1, <2>2, StandingFrame
<1>8. ASSUME NEW u \in Run, CommandDone(u) \/ CommandFails(u)
      PROVE  Standing'
  <2>1. /\ \/ UNCHANGED row
           \/ upd[u].pc = "r_restore" /\ row' = dump[u].row /\ UNCHANGED req
        /\ UNCHANGED req \/ req' = HandlersOver
        /\ UNCHANGED <<dump, flaw>>
    <3>1. CASE CommandDone(u)
      BY <1>a, <3>1, CommandDoneDoes
    <3>2. CASE CommandFails(u)
      BY <1>a, <3>2, FailsDoes
    <3> QED
      BY <1>8, <3>1, <3>2
  <2>2. \A q \in Run : req'[q].pc = "checked" => req'[q] = req[q]
    BY <1>d, <2>1
  <2>3. CASE UNCHANGED row
    BY <1>a, <1>b, <2>1, <2>2, <2>3, StandingFrame
  <2>4. CASE upd[u].pc = "r_restore" /\ row' = dump[u].row
    <3>1. dump[u].taken
      BY <1>a, <2>4 DEF Releases, UpdOk, Dumped, Backward
    <3>2. Acting(u)
      BY <2>4 DEF Acting, Live
    <3>3. CASE flaw # {}
      BY <2>1, <3>3 DEF Standing
    <3>4. CASE flaw = {}
      BY <2>1, <2>2, <2>4, <3>1, <3>2, <3>4, StandingRow DEF Standing, DumpStands
    <3> QED
      BY <3>3, <3>4
  <2> QED
    BY <2>1, <2>3, <2>4
<1>10. ASSUME NEW u \in Run, CommandTimesOut(u)
       PROVE  Standing'
  <2>1. "timeout" \in flaw'
    BY <1>10 DEF CommandTimesOut
  <2> QED
    BY <2>1 DEF Standing
<1>11. ASSUME NEW u \in Run, Crash(u)
       PROVE  Standing'
  <2>1. End(u) /\ UNCHANGED <<row, req, flaw>>
    BY <1>11 DEF Crash
  <2> QED
    BY <1>a, <1>b, <1>e, <2>1, StandingFrame
<1>12. ASSUME NEW c \in orphan, OrphanDone(c)
       PROVE  Standing'
  <2>1. flaw # {} /\ UNCHANGED flaw
    BY <1>12, <1>a DEF Stages, OrphanDone
  <2> QED
    BY <2>1 DEF Standing
<1>13. ASSUME RestartServer
       PROVE  Standing'
  <2>1. req' = HandlersOver /\ UNCHANGED <<row, dump, flaw>>
    BY <1>13 DEF RestartServer
  <2> QED
    BY <1>a, <1>b, <1>d, <2>1, StandingFrame
<1>14. CASE UNCHANGED vars
  BY <1>14, <1>a, <1>b, StandingFrame DEF vars
<1>15. ASSUME NEW r \in Run, Handler(r) \/ Updater(r) \/ Overdue(r)
       PROVE  Standing'
  <2>1. CASE Handler(r)
    BY <1>1, <1>2, <2>1, StandingRequest, StandingInsert DEF Handler
  <2>2. CASE Updater(r)
    BY <1>4, <1>5, <1>6, <1>7, <1>8, <1>10, <1>11, <2>2 DEF Updater
  <2> QED
    BY <1>3, <1>15, <2>1, <2>2
<1> QED
  BY <1>12, <1>13, <1>14, <1>15 DEF Next

LEMMA UpdateHolds == Spec => []UpdateInv
<1>1. Init => UpdateInv
  BY TypeInit, AskingInit, AloneInit, StagesInit, StandingInit
  DEF UpdateInv, StagesInv, AloneInv, AskedInv
<1>2. UpdateInv /\ [Next]_vars => UpdateInv'
  BY TypeNext, AskingNext, AloneNext, StagesNext, StandingNext
  DEF UpdateInv, StagesInv, AloneInv, AskedInv
<1> QED
  BY <1>1, <1>2, PTL DEF Spec

-----------------------------------------------------------------------------
(* The verdict of a run is true, whatever earlier runs left behind.        *)
LEMMA ReportIsReal ==
  ASSUME UpdateInv, flaw = {}, NEW u \in Run, Report(u)
  PROVE  /\ upd[u].pc = "success" =>
              code = upd[u].to /\ venv = upd[u].to /\ schema = upd[u].to /\ server = upd[u].to
         /\ upd[u].pc = "rolled_back" =>
              /\ code = upd[u].from /\ venv = upd[u].from /\ server = upd[u].from
              /\ schema = dump[u].schema
<1>1. StageAt(u) /\ UpdOk(upd[u], dump[u])
  BY DEF UpdateInv, StagesInv, Stages, AloneInv, AskedInv, TypeInv, Releases
<1>2. CASE upd[u].pc = "success"
  BY <1>1, <1>2 DEF StageAt, At
<1>3. CASE upd[u].pc = "rolled_back"
  <2>1. upd[u].from # 0
    BY <1>1, <1>3, BoundsAssumption DEF UpdOk, Version
  <2>2. server = upd[u].from /\ server \in {code, 0} /\ code = upd[u].old /\ venv = upd[u].old
        /\ schema = dump[u].schema
    BY <1>1, <1>3 DEF StageAt, At
  <2> QED
    BY <1>3, <2>1, <2>2
<1> QED
  BY <1>2, <1>3

(* As long as no command timed out, no requests raced and no live run was  *)
(* reaped, a run reported as a success is checked out, synced, migrated to *)
(* and running, and one reported as rolled back has put back the release   *)
(* it started from (updater/orchestrator.py run_update).                   *)
THEOREM VerdictsAreReal == Spec => VerdictIsReal
<1>1. UpdateInv /\ [Next]_vars =>
        [\A u \in Run :
          flaw = {} /\ Report(u) =>
            /\ upd[u].pc = "success" =>
                 code = upd[u].to /\ venv = upd[u].to /\ schema = upd[u].to /\ server = upd[u].to
            /\ upd[u].pc = "rolled_back" =>
                 /\ code = upd[u].from /\ venv = upd[u].from /\ server = upd[u].from
                 /\ schema = dump[u].schema]_vars
  BY ReportIsReal
<1> QED
  BY <1>1, UpdateHolds, PTL DEF Spec, VerdictIsReal

(* Only an updater at one of its commands changes the release.             *)
LEMMA ChangeHasDump ==
  ASSUME UpdateInv, [Next]_vars, flaw = {}, <<code, venv, schema>>' # <<code, venv, schema>>
  PROVE  \E u \in Run : Live(u) /\ dump[u].taken
<1>a. TypeInv /\ Releases /\ orphan = {}
  BY DEF UpdateInv, StagesInv, Stages, AloneInv, AskedInv, TypeInv
<1>1. PICK u \in Run : CommandDone(u) \/ CommandFails(u)
  <2>1. ASSUME NEW r \in Run, Handler(r)
        PROVE  UNCHANGED <<code, venv, schema>>
    BY <2>1 DEF Handler, Request, Insert, Launch, LaunchFails, FailRow, Drop, release
  <2>2. ASSUME NEW r \in Run, Overdue(r)
        PROVE  UNCHANGED <<code, venv, schema>>
    BY <2>2 DEF Overdue, release
  <2>3. ASSUME NEW u \in Run, Updater(u), ~CommandDone(u), ~CommandFails(u)
        PROVE  UNCHANGED <<code, venv, schema>>
    BY <2>3 DEF Updater, Pick, Start, Report, ReportFails, CheckTree, TakeDump,
                CommandTimesOut, Verify, Crash, release
  <2> QED
    BY <1>a, <2>1, <2>2, <2>3 DEF Next, RestartServer, vars
<1>2. Live(u) /\ upd[u].pc \in Dumped
  BY <1>1 DEF CommandDone, CommandFails, Running, Live, Forward, Dumped, Backward
<1> QED
  BY <1>a, <1>2 DEF Releases, UpdOk

(* As long as no command timed out, no requests raced and no live run was  *)
(* reaped, nothing of the release changes unless a live updater holds a    *)
(* dump to go back to (updater/orchestrator.py run_update).                *)
THEOREM NothingWithoutADump == Spec => NoChangeWithoutDump
<1>1. UpdateInv /\ [Next]_vars =>
        [flaw = {} /\ <<code, venv, schema>>' # <<code, venv, schema>> =>
           \E u \in Run : Live(u) /\ dump[u].taken]_vars
  BY ChangeHasDump
<1> QED
  BY <1>1, UpdateHolds, PTL DEF Spec, NoChangeWithoutDump

LEMMA FinishedStands ==
  ASSUME UpdateInv, [Next]_vars, flaw = {}, NEW r \in Run, Finished(r)
  PROVE  row'[r].status = row[r].status
<1>a. /\ TypeInv /\ Releases /\ orphan = {} /\ Asking /\ Calm /\ AloneInv /\ Alone
      /\ (\A u \in Run : DumpStands(u)) /\ \A q \in Run : ReapStands(q)
  BY DEF UpdateInv, StagesInv, Stages, Standing, AloneInv, AskedInv, TypeInv, Calm
<1>b. row[r].status \in Terminal
  BY DEF Finished
\* A run that a process acts on is not finished.
<1>c. ASSUME NEW a \in Run, Acting(a)
      PROVE  a # r
  BY <1>a, <1>c, ActingIsLatest
<1>d. ASSUME SameStatus \/ UNCHANGED row
      PROVE  row'[r].status = row[r].status
  BY <1>d DEF SameStatus
<1>1. ASSUME NEW q \in Run, Insert(q)
      PROVE  row'[r].status = row[r].status
  <2>1. /\ req[q].pc = "checked"
        /\ \A s \in Run \ {q} :
              row'[s].status = IF req[q].reap /\ s = req[q].seen THEN "failed" ELSE row[s].status
    BY <1>a, <1>1, InsertDoes
  <2>2. r # q
    BY <1>a, <1>b, <2>1 DEF Asking, RowsAsked, Asked, Terminal
  <2>3. req[q].reap /\ r = req[q].seen => row[r].status = "failed"
    BY <1>a, <1>b, <2>1 DEF ReapStands
  <2> QED
    BY <2>1, <2>2, <2>3
<1>2. ASSUME NEW q \in Run, FailRow(q)
      PROVE  row'[r].status = row[r].status
  <2>1. OneStatus(q, "failed") /\ Acting(q)
    BY <1>a, <1>2, FailRowDoes DEF Acting
  <2> QED
    BY <1>c, <2>1 DEF OneStatus
<1>3. ASSUME NEW u \in Run, Report(u)
      PROVE  row'[r].status = row[r].status
  <2>1. /\ upd[u].pc \in Status \ {"absent", "queued"}
        /\ IF Exists(upd[u].row)
           THEN upd[u].row \in Run /\ OneStatus(upd[u].row, upd[u].pc)
           ELSE SameStatus
    BY <1>a, <1>3, ReportDoes
  <2>2. Live(u) /\ upd[u].pc # "boot" /\ Acting(u)
    BY <2>1 DEF Status, Forward, Terminal, Live, Acting
  <2>3. upd[u].row = u /\ u # r
    BY <1>a, <1>c, <2>2 DEF Alone, AloneAt
  <2> QED
    BY <1>d, <2>1, <2>3 DEF OneStatus
<1>4. ASSUME NEW u \in Run, CommandDone(u) \/ CommandFails(u)
      PROVE  row'[r].status = row[r].status
  <2>1. UNCHANGED row \/ (upd[u].pc = "r_restore" /\ row' = dump[u].row)
    <3>1. CASE CommandDone(u)
      BY <1>a, <3>1, CommandDoneDoes
    <3>2. CASE CommandFails(u)
      BY <1>a, <3>2, FailsDoes
    <3> QED
      BY <1>4, <3>1, <3>2
  <2>2. CASE upd[u].pc = "r_restore" /\ row' = dump[u].row
    <3>1. dump[u].taken /\ Acting(u)
      BY <1>a, <2>2 DEF Releases, UpdOk, Dumped, Backward, Acting, Live
    <3> QED
      BY <1>a, <1>c, <2>1, <2>2, <3>1 DEF DumpStands
  <2> QED
    BY <1>d, <2>1, <2>2
<1>5. ASSUME NEW q \in Run, Handler(q), ~Insert(q), ~FailRow(q)
      PROVE  UNCHANGED row
  BY <1>5 DEF Handler, Request, Launch, LaunchFails, Drop
<1>6. ASSUME NEW u \in Run, Updater(u), ~Start(u), ~Report(u), ~CommandDone(u), ~CommandFails(u)
      PROVE  UNCHANGED row
  BY <1>6 DEF Updater, Pick, ReportFails, CheckTree, TakeDump, CommandTimesOut, Verify, Crash
<1>7. ASSUME NEW q \in Run, Handler(q) \/ Updater(q) \/ Overdue(q)
      PROVE  row'[r].status = row[r].status
  <2>1. CASE Handler(q)
    BY <1>1, <1>2, <1>5, <1>d, <2>1
  <2>2. CASE Updater(q)
    BY <1>a, <1>3, <1>4, <1>6, <1>d, <2>2, StartDoes
  <2>3. CASE Overdue(q)
    BY <1>a, <1>d, <2>3, OverdueDoes
  <2> QED
    BY <1>7, <2>1, <2>2, <2>3
<1>8. CASE RestartServer \/ UNCHANGED vars
  BY <1>8, <1>d DEF RestartServer, vars
<1> QED
  BY <1>a, <1>7, <1>8 DEF Next

(* Under the same condition a finished run stays as it finished: neither   *)
(* reaping, a failed launch, a late report nor the restored table changes  *)
(* its verdict (updates/system.py, updater/status.py).                     *)
THEOREM VerdictsStand == Spec => VerdictStands
<1>1. UpdateInv /\ [Next]_vars =>
        [\A r \in Run : flaw = {} /\ Finished(r) => row'[r].status = row[r].status]_vars
  BY FinishedStands
<1> QED
  BY <1>1, UpdateHolds, PTL DEF Spec, VerdictStands
================================================================================
