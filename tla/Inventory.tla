----------------------------- MODULE Inventory -----------------------------
(***************************************************************************)
(* The snapshots of one host: its facts and its components, each a full    *)
(* replacement, and what the change history says of them                   *)
(* (agents/service.py ingest_full_inventory, hosts/facts.py,               *)
(* components/service.py, history/service.py).                             *)
(*                                                                         *)
(* A snapshot is one transaction, but an agent whose request times out     *)
(* sends again, so two may be under way.  The session flushes what it has  *)
(* assigned before every SELECT: an action is one SELECT, with the flush   *)
(* before it and the assignments after it.  A flush waits for the rows     *)
(* others have flushed and writes the changed columns only; a row that is  *)
(* selected again keeps the values it was first loaded with.               *)
(* slot stands for vendor, model and attrs as well, which are compared,    *)
(* recorded and assigned the same way; kind is left out (one kind).        *)
(* Left out too: an operator's renames of the host (update_host), and the  *)
(* host's removal (removal.complete), which deletes these tables while     *)
(* snapshots may be under way; HostLifecycle has that one.                 *)
(***************************************************************************)
EXTENDS Naturals, Sequences

CONSTANTS Serial, Slot,
          Anon,       \* rows that have neither serial nor slot
          Key, Value,
          Hostname,   \* the fact that is adopted onto the host row
          Worker, None,
          Snapshot,   \* the sequences of entries that agents send
          Report      \* these with the facts that are sent with them

Id == Serial \cup Slot \cup Anon
Field == {"present", "slot"}
Row == [present : BOOLEAN, slot : Slot \cup {None}]
Entry == [serial : Serial \cup {None}, slot : Slot \cup {None}]
Stored == [Id -> Row \cup {None}]
Marks == SUBSET (Id \X Field)
Facts == [Key -> Value \cup {None}]

ASSUME HostnameIsAKey == Hostname \in Key
ASSUME NoneIsNothing == None \notin Id \cup Value \cup Row
\* What identifies a row says by which column: no serial is a slot.
ASSUME KindsDiffer == Serial \cap Slot = {} /\ Anon \cap (Serial \cup Slot) = {}
ASSUME SnapshotType == Snapshot \subseteq Seq(Entry)
ASSUME ReportType == Report \subseteq Snapshot \X Facts

VARIABLES comp,       \* components, by what identifies them; None: no row
          said,       \* host_changes: what the last records of each row say;
                      \* 'add', 'present' and a swap's 'serial' 'del' tell presence
          fact,       \* host_facts, None: no row
          told,       \* host_changes: what the last record of each fact says
          name,       \* hosts.hostname
          tx,         \* snapshots under way
          missed      \* history: facts whose last record is of a row that was gone

vars == <<comp, said, fact, told, name, tx, missed>>

Step == {"idle", "host", "facts", "swap", "match", "commit"}

(* One snapshot: the entries and how many are done; the rows as loaded and *)
(* assigned, the columns changed and those recorded, the rows assigned but *)
(* not flushed, those flushed, those seen; the facts sent and those read   *)
(* and which of these rows were deleted since; the name read; and what     *)
(* others have committed in between.                                       *)
Tx == [at : Step, entries : Snapshot \cup {<< >>}, done : Nat,
       own : Stored, dirty : Marks, noted : Marks,
       pending : SUBSET Id, locked : SUBSET Id, seen : SUBSET Id,
       facts : Facts, read : Facts, gone : SUBSET Key, name : Value \cup {None},
       changed : SUBSET {"facts", "host", "components"}]

NoFacts == [k \in Key |-> None]
NoRows == [i \in Id |-> None]
Idle == [at |-> "idle", entries |-> << >>, done |-> 0, own |-> NoRows,
         dirty |-> {}, noted |-> {}, pending |-> {}, locked |-> {}, seen |-> {},
         facts |-> NoFacts, read |-> NoFacts, gone |-> {}, name |-> None, changed |-> {}]

Started(w) == tx[w].at # "idle"
HasRead(w) == tx[w].at \notin {"idle", "host"}
AtComponents(w) == tx[w].at \in {"swap", "match", "commit"}

-----------------------------------------------------------------------------
(* The session *)

(* The columns an assignment marks as changed: the flush writes no other.  *)
Changed(old, new) == {f \in Field : old[f] # new[f]}

(* The columns F of new over a row.                                        *)
Over(row, new, F) == [f \in Field |-> IF f \in F THEN new[f] ELSE row[f]]
DirtyOf(t, i) == {f \in Field : <<i, f>> \in t.dirty}
NotedOf(t, i) == {f \in Field : <<i, f>> \in t.noted}

(* Row i as w's SELECT finds it, and as the session then hands it out.     *)
Sees(w, i) ==
  IF comp[i] = None /\ DirtyOf(tx[w], i) # Field THEN None
  ELSE Over(comp[i], tx[w].own[i], DirtyOf(tx[w], i))
Loaded(w, i) == IF tx[w].own[i] = None THEN Sees(w, i) ELSE tx[w].own[i]
PresentTo(w) == {i \in Id : Sees(w, i) # None /\ Sees(w, i).present}

(* No other snapshot has flushed a row that w has assigned.                *)
CanFlush(w) == \A v \in Worker \ {w} : tx[v].locked \cap tx[w].pending = {}
Flushed(w) == tx[w].locked \cup tx[w].pending

(* The rows I become new in w's session; the fields of F are recorded.     *)
Assign(w, I, new, F) ==
  [tx[w] EXCEPT
     !.own = [i \in Id |-> IF i \in I THEN new[i] ELSE tx[w].own[i]],
     !.dirty = @ \cup UNION {{i} \X Changed(Loaded(w, i), new[i]) : i \in I},
     !.noted = @ \cup UNION {{i} \X F[i] : i \in I},
     !.pending = I, !.locked = Flushed(w)]

-----------------------------------------------------------------------------
(* hosts/facts.py ingest_facts *)

(* get_host.                                                               *)
Begin(w, s, facts) ==
  /\ ~Started(w)
  /\ tx' = [tx EXCEPT ![w] = [Idle EXCEPT !.at = "host", !.entries = s, !.facts = facts,
                                          !.name = name]]
  /\ UNCHANGED <<comp, said, fact, told, name, missed>>

(* The SELECT of the facts; what follows is decided by it and the name.    *)
SelectFacts(w) ==
  /\ tx[w].at = "host"
  /\ tx' = [tx EXCEPT ![w].at = "facts", ![w].read = fact]
  /\ UNCHANGED <<comp, said, fact, told, name, missed>>

(* The rows it updates or deletes, the ones it inserts, the name it adopts. *)
Kept(t) == {k \in Key : t.facts[k] # None /\ t.read[k] # None}
New(t) == {k \in Key : t.facts[k] # None /\ t.read[k] = None}
Removed(t) == {k \in Key : t.facts[k] = None /\ t.read[k] # None}
Edited(t) == {k \in Key : t.facts[k] # t.read[k]}
Holds(t) == New(t) \cup ((Kept(t) \cup Removed(t)) \ t.gone)
Adopts(t) == t.facts[Hostname] \notin {None, t.name}

(* The UPDATE of row k is sent together with others that assign the same   *)
(* columns: value and last_seen, or last_seen alone.  The driver counts no *)
(* rows then, so one that is gone goes unnoticed.  Which of them share a   *)
(* batch hangs on the rows' ids; that k's might not is an error, and has   *)
(* Rollback.                                                               *)
Batched(t, k) == \E j \in Kept(t) \ {k} : j \in Edited(t) <=> k \in Edited(t)

(* The flush before the next SELECT: last_seen is assigned to every fact   *)
(* that is kept, so snapshots with a fact in common go one after the other.*)
(* A kept row that is gone and updated alone, a new one that is there and  *)
(* a host row that is newer are errors.                                    *)
FlushFacts(w) ==
  LET t == tx[w] IN
  /\ t.at = "facts"
  /\ \A v \in Worker \ {w} : AtComponents(v) =>
       Holds(tx[v]) \cap Holds(t) = {} /\ ~(Adopts(tx[v]) /\ Adopts(t))
  /\ \A k \in Kept(t) \cap t.gone : Batched(t, k)
  /\ \A k \in New(t) : fact[k] = None
  /\ Adopts(t) => "host" \notin t.changed
  /\ tx' = [tx EXCEPT ![w].at = "swap"]
  /\ UNCHANGED <<comp, said, fact, told, name, missed>>

-----------------------------------------------------------------------------
(* components/service.py ingest_inventory *)
More(t) == t.done < Len(t.entries)
Current(t) == t.entries[t.done + 1]

(* _find_by_identity: the serial if there is one, else the slot.           *)
Identity(e) == IF e.serial # None THEN e.serial ELSE e.slot

(* _find_slot_swap: other serials that are present in the slot.            *)
InSlot(w, e) == {i \in (Serial \cap PresentTo(w)) \ {e.serial} : Sees(w, i).slot = e.slot}
Swaps(e) == e.serial # None /\ e.slot # None

Absent(row) == [row EXCEPT !.present = FALSE]

(* Mutant of Swap: the swapped component is left present.                  *)
SwapKeeps(w) ==
  /\ tx[w].at = "swap" /\ More(tx[w]) /\ Swaps(Current(tx[w])) /\ CanFlush(w)
  /\ tx' = [tx EXCEPT ![w].at = "match", ![w].pending = {}, ![w].locked = Flushed(w)]
  /\ UNCHANGED <<comp, said, fact, told, name, missed>>

(* Two of them are an error of scalar_one_or_none.                         *)
Swap(w) ==
  LET I == InSlot(w, Current(tx[w])) IN
  /\ tx[w].at = "swap" /\ More(tx[w]) /\ Swaps(Current(tx[w])) /\ CanFlush(w)
  /\ \A i, j \in I : i = j
  /\ tx' = [tx EXCEPT ![w] =
       [Assign(w, I, [i \in I |-> Absent(Loaded(w, i))],
               [i \in I |-> {"present"}])
          EXCEPT !.at = "match"]]
  /\ UNCHANGED <<comp, said, fact, told, name, missed>>

(* The entry's component, found or inserted: a component without identity  *)
(* is new every time, and an INSERT waits for another of the same identity.*)
Rows(w, e) == IF Identity(e) = None THEN {i \in Anon : comp[i] = None} ELSE {Identity(e)}

(* Mutant of Observed: the serial is written to the slot's column.         *)
ObservedSerial(e) == [present |-> TRUE, slot |-> e.serial]

Observed(e) == [present |-> TRUE, slot |-> e.slot]

MayMatch(w) ==
  /\ tx[w].at = "match" \/ (tx[w].at = "swap" /\ More(tx[w]) /\ ~Swaps(Current(tx[w])))
  /\ CanFlush(w)

Insert(w, i) ==
  LET e == Current(tx[w]) IN
  /\ MayMatch(w) /\ i \in Rows(w, e) /\ Sees(w, i) = None
  /\ \A v \in Worker : tx[v].own[i] = None
  /\ tx' = [tx EXCEPT ![w] =
       [tx[w] EXCEPT !.own[i] = Observed(e), !.dirty = @ \cup ({i} \X Field),
                     !.noted = @ \cup ({i} \X Field), !.pending = {},
                     !.locked = Flushed(w) \cup {i}, !.seen = @ \cup {i},
                     !.at = "swap", !.done = @ + 1]]
  /\ UNCHANGED <<comp, said, fact, told, name, missed>>

(* Mutant of Diff: taken after the assignment, it finds nothing.           *)
DiffLate(old, new) == {}

(* diff_component: the fields that are recorded.                           *)
Diff(old, new) == {f \in Field : old[f] # new[f]}

Update(w) ==
  LET e == Current(tx[w])  i == Identity(e) IN
  /\ MayMatch(w) /\ i # None /\ Sees(w, i) # None
  /\ tx' = [tx EXCEPT ![w] =
       [Assign(w, {i}, [x \in {i} |-> Observed(e)],
               [x \in {i} |-> Diff(Loaded(w, i), Observed(e))])
          EXCEPT !.seen = @ \cup {i}, !.at = "swap", !.done = @ + 1]]
  /\ UNCHANGED <<comp, said, fact, told, name, missed>>

(* Mutant of Unseen: the rows of this snapshot are not spared.             *)
UnseenAll(w) == PresentTo(w)

(* What was present and is not in the snapshot ...                         *)
Unseen(w) == PresentTo(w) \ tx[w].seen

(* ... is marked absent.                                                   *)
Finish(w) ==
  LET I == Unseen(w) IN
  /\ tx[w].at = "swap" /\ ~More(tx[w]) /\ CanFlush(w)
  /\ tx' = [tx EXCEPT ![w] =
       [Assign(w, I, [i \in I |-> Absent(Loaded(w, i))],
               [i \in I |-> {"present"}])
          EXCEPT !.at = "commit"]]
  /\ UNCHANGED <<comp, said, fact, told, name, missed>>

-----------------------------------------------------------------------------
(* What others learn from a commit of w: which rows they read are gone and *)
(* what of what they read is older.                                        *)
Overtaken(w, deleted, factsToo, hostToo) ==
  [v \in Worker |->
     IF v = w THEN Idle
     ELSE [tx[v] EXCEPT
             !.gone = @ \cup (IF tx[v].at = "facts"
                              THEN {k \in deleted : tx[v].read[k] # None} ELSE {}),
             !.changed = @ \cup (IF factsToo /\ HasRead(v) THEN {"facts"} ELSE {})
                           \cup (IF hostToo /\ Started(v) THEN {"host"} ELSE {})
                           \cup (IF AtComponents(v) THEN {"components"} ELSE {})]]

(* The last flush and the COMMIT.  An edit or a deletion of a fact whose   *)
(* row is gone changes nothing and is recorded.                            *)
Commit(w) ==
  LET t == tx[w]
      written == Edited(t) \ t.gone
  IN
  /\ t.at = "commit" /\ CanFlush(w)
  /\ comp' = [i \in Id |-> IF t.own[i] = None THEN comp[i]
                           ELSE Over(comp[i], t.own[i], DirtyOf(t, i))]
  /\ said' = [i \in Id |-> IF t.own[i] = None THEN said[i]
                           ELSE Over(said[i], t.own[i], NotedOf(t, i))]
  /\ fact' = [k \in Key |-> IF k \in written THEN t.facts[k] ELSE fact[k]]
  /\ told' = [k \in Key |-> IF k \in Edited(t) THEN t.facts[k] ELSE told[k]]
  /\ name' = IF Adopts(t) THEN t.facts[Hostname] ELSE name
  /\ missed' = (missed \ Edited(t)) \cup {k \in Edited(t) \cap t.gone : fact[k] # t.facts[k]}
  /\ tx' = Overtaken(w, written \cap Removed(t), written # {}, Adopts(t))

(* An error, a lost connection, a deadlock.                                *)
Rollback(w) ==
  /\ Started(w)
  /\ tx' = [tx EXCEPT ![w] = Idle]
  /\ UNCHANGED <<comp, said, fact, told, name, missed>>

-----------------------------------------------------------------------------
Init ==
  /\ comp = NoRows /\ said = NoRows
  /\ fact = NoFacts /\ told = NoFacts
  /\ name \in Value
  /\ tx = [w \in Worker |-> Idle]
  /\ missed = {}

Next ==
  \/ \E w \in Worker :
       \/ \E s \in Snapshot, f \in Facts : <<s, f>> \in Report /\ Begin(w, s, f)
       \/ SelectFacts(w) \/ FlushFacts(w) \/ Swap(w) \/ Update(w) \/ Finish(w) \/ Commit(w) \/ Rollback(w)
       \/ \E i \in Id : Insert(w, i)

Spec == Init /\ [][Next]_vars

-----------------------------------------------------------------------------
(* Types, and that two snapshots never hold one component or one fact.     *)
TypeOK ==
  /\ comp \in Stored /\ said \in Stored
  /\ fact \in Facts /\ told \in Facts
  /\ name \in Value
  /\ tx \in [Worker -> Tx]
  /\ missed \in SUBSET Key
  /\ \A v, w \in Worker : v # w =>
       /\ tx[v].locked \cap tx[w].locked = {}
       /\ AtComponents(v) /\ AtComponents(w) => Holds(tx[v]) \cap Holds(tx[w]) = {}

Present == {i \in Id : comp[i] # None /\ comp[i].present}

(* A slot holds one present component with a serial (_find_slot_swap,      *)
(* which fails for good on two) after every snapshot that saw all that had *)
(* been committed.  Two that overlap may leave two: neither sees what the  *)
(* other inserts.                                                          *)
OnePerSlot ==
  [][\A w \in Worker : Commit(w) /\ "components" \notin tx[w].changed =>
       \A i, j \in Serial \cap Present' : comp'[i].slot = comp'[j].slot /\ i # j
                                             => comp'[i].slot = None]_vars

(* The change history is true: the last record of every column and every   *)
(* fact says what is stored, however snapshots overlap, because a column   *)
(* is written only together with its record.  The exception is a fact      *)
(* whose row was deleted while an edit or another deletion of it was on    *)
(* its way: that one is recorded and writes nothing.                       *)
HistoryTells == said = comp /\ \A k \in Key \ missed : told[k] = fact[k]

Distinct(s) ==
  \A m, n \in DOMAIN s : m # n =>
    /\ Identity(s[m]) # None => Identity(s[m]) # Identity(s[n])
    /\ Swaps(s[m]) /\ Swaps(s[n]) => s[m].slot # s[n].slot

(* A snapshot that nothing overtook and that names every component and     *)
(* every slot once is what is stored when it commits: facts, hostname, and *)
(* the components it names, present and in their slots, and no others.     *)
Settles ==
  [][\A w \in Worker :
       LET t == tx[w]
           named == {Identity(t.entries[n]) : n \in DOMAIN t.entries} \ {None}
       IN Commit(w) /\ t.changed = {} /\ Distinct(t.entries) =>
            /\ fact' = t.facts
            /\ t.facts[Hostname] # None => name' = t.facts[Hostname]
            /\ Present' = named \cup (t.seen \cap Anon)
            /\ \A n \in DOMAIN t.entries : Identity(t.entries[n]) # None =>
                 comp'[Identity(t.entries[n])].slot = t.entries[n].slot]_vars
=============================================================================
