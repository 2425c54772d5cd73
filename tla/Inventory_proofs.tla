-------------------------- MODULE Inventory_proofs --------------------------
(* Machine-checked proofs about Inventory, for any number of components,   *)
(* facts and snapshots under way.                                          *)
EXTENDS Inventory, TLAPS

(* A snapshot's session: what it has changed it has recorded; what is      *)
(* assigned, flushed or changed has been loaded; a row it holds as absent  *)
(* is one that it has made absent; an entry is being matched.              *)
Clean(r) ==
  /\ r.dirty = r.noted
  /\ \A i \in Id : i \in r.pending \/ i \in r.locked => r.own[i] # None
  /\ \A i \in Id, f \in Field : <<i, f>> \in r.dirty => r.own[i] # None
  /\ \A i \in Id : r.own[i] # None /\ ~r.own[i].present => <<i, "present">> \in r.dirty
  /\ r.at = "match" => More(r)

(* A row it holds is stored, or is all its own.                            *)
Backed(r) ==
  \A i \in Id : r.own[i] # None => comp[i] # None \/ \A f \in Field : <<i, f>> \in r.dirty

IInv ==
  /\ TypeOK
  /\ HistoryTells
  /\ \A w \in Worker : Clean(tx[w]) /\ Backed(tx[w])

-----------------------------------------------------------------------------
LEMMA TxFields ==
  ASSUME NEW r \in Tx
  PROVE  /\ r.at \in Step /\ r.entries \in Snapshot \cup {<< >>} /\ r.done \in Nat
         /\ r.own \in [Id -> Row \cup {None}]
         /\ r.dirty \in SUBSET (Id \X Field) /\ r.noted \in SUBSET (Id \X Field)
         /\ r.pending \in SUBSET Id /\ r.locked \in SUBSET Id /\ r.seen \in SUBSET Id
         /\ r.facts \in Facts /\ r.read \in Facts /\ r.gone \in SUBSET Key
         /\ r.name \in Value \cup {None}
         /\ r.changed \in SUBSET {"facts", "host", "components"}
<1> r \in Tx
  OBVIOUS
<1> QED
  BY DEF Tx, Stored, Marks

LEMMA IdleType == Idle \in Tx /\ Clean(Idle) /\ Backed(Idle) /\ Idle.at = "idle" /\ Idle.locked = {}
<1>1. NoFacts \in Facts /\ NoRows \in Stored /\ {} \in Marks
  BY DEF NoFacts, Facts, NoRows, Stored, Marks
<1>2. Idle \in Tx
  <2> HIDE DEF Facts, Row, Id
  <2> QED
    BY <1>1 DEF Idle, Tx, Step
<1>3. Clean(Idle) /\ Backed(Idle)
  BY DEF Idle, Clean, Backed, NoRows
<1> QED
  BY <1>2, <1>3 DEF Idle

(* Columns of one row over another.                                        *)
LEMMA OverType ==
  ASSUME NEW old, NEW new \in Row, NEW F \in SUBSET Field, old \in Row \/ F = Field
  PROVE  Over(old, new, F) \in Row
BY DEF Over, Row, Field

(* The row that a SELECT gives.                                            *)
LEMMA LoadedType ==
  ASSUME IInv, NEW w \in Worker, NEW i \in Id, Sees(w, i) # None
  PROVE  /\ Loaded(w, i) \in Row
         /\ tx[w].own[i] # None => Loaded(w, i) = tx[w].own[i]
         /\ tx[w].own[i] = None => Loaded(w, i) = Sees(w, i)
         /\ comp[i] # None \/ \A f \in Field : <<i, f>> \in tx[w].dirty
<1> PICK r \in Tx : r = tx[w]
  BY DEF IInv, TypeOK
<1>1. Clean(r) /\ Backed(r) /\ r.own \in [Id -> Row \cup {None}] /\ comp \in [Id -> Row \cup {None}]
  BY TxFields DEF IInv, TypeOK, Stored
<1>2. comp[i] # None \/ \A f \in Field : <<i, f>> \in r.dirty
  BY DEF Sees, DirtyOf
<1>3. CASE r.own[i] # None
  BY <1>1, <1>2, <1>3 DEF Loaded
<1>4. CASE r.own[i] = None
  <2>1. \A f \in Field : <<i, f>> \notin r.dirty
    BY <1>1, <1>4 DEF Clean
  <2>2. DirtyOf(r, i) = {} /\ comp[i] \in Row
    BY <1>1, <1>2, <2>1 DEF DirtyOf, Field
  <2>3. Sees(w, i) = Over(comp[i], r.own[i], {})
    BY <2>2 DEF Sees
  <2>4. Over(comp[i], r.own[i], {}) \in Row
    BY <2>2 DEF Over, Row, Field
  <2> QED
    BY <1>2, <1>4, <2>3, <2>4 DEF Loaded
<1> QED
  BY <1>3, <1>4

(* What Assign does, field by field.                                       *)
Shape(w, I, new, F, a) ==
  /\ a \in Tx
  /\ \A i \in Id : a.own[i] = IF i \in I THEN new[i] ELSE tx[w].own[i]
  /\ \A i \in Id, f \in Field :
       /\ <<i, f>> \in a.dirty <=>
            (<<i, f>> \in tx[w].dirty \/ (i \in I /\ f \in Changed(Loaded(w, i), new[i])))
       /\ <<i, f>> \in a.noted <=>
            (<<i, f>> \in tx[w].noted \/ (i \in I /\ f \in F[i]))
  /\ a.pending = I /\ a.locked = tx[w].locked \cup tx[w].pending
  /\ a.facts = tx[w].facts /\ a.read = tx[w].read /\ a.gone = tx[w].gone
  /\ a.entries = tx[w].entries /\ a.done = tx[w].done /\ a.seen = tx[w].seen
  /\ a.name = tx[w].name /\ a.changed = tx[w].changed

LEMMA AssignShape ==
  ASSUME IInv, NEW w \in Worker, NEW I \in SUBSET Id, NEW new \in [I -> Row],
         NEW F \in [I -> SUBSET Field]
  PROVE  Shape(w, I, new, F, Assign(w, I, new, F))
<1> PICK a : a = Assign(w, I, new, F)
  OBVIOUS
<1> PICK r \in Tx : r = tx[w]
  BY DEF IInv, TypeOK
<1> PICK own : own = [i \in Id |-> IF i \in I THEN new[i] ELSE r.own[i]]
  OBVIOUS
<1> PICK dirty : dirty = r.dirty \cup UNION {{i} \X Changed(Loaded(w, i), new[i]) : i \in I}
  OBVIOUS
<1> PICK noted : noted = r.noted \cup UNION {{i} \X F[i] : i \in I}
  OBVIOUS
<1>1. own \in [Id -> Row \cup {None}]
  BY TxFields
<1>2. /\ dirty \in SUBSET (Id \X Field)
      /\ \A i \in Id, f \in Field : <<i, f>> \in dirty <=>
           (<<i, f>> \in r.dirty \/ (i \in I /\ f \in Changed(Loaded(w, i), new[i])))
  <2> \A i \in I : Changed(Loaded(w, i), new[i]) \in SUBSET Field
    BY DEF Changed
  <2> QED
    BY TxFields
<1>3. /\ noted \in SUBSET (Id \X Field)
      /\ \A i \in Id, f \in Field : <<i, f>> \in noted <=>
           (<<i, f>> \in r.noted \/ (i \in I /\ f \in F[i]))
  BY TxFields
<1>4. /\ a = [r EXCEPT !.own = own, !.dirty = dirty, !.noted = noted,
                       !.pending = I, !.locked = r.locked \cup r.pending]
  BY DEF Assign, Flushed
<1>5. a \in Tx
  <2>1. /\ r.locked \cup r.pending \in SUBSET Id
        /\ own \in Stored /\ dirty \in Marks /\ noted \in Marks
    BY <1>1, <1>2, <1>3, TxFields DEF Stored, Marks
  <2> QED
    BY <1>4, <2>1, ZenonT(60) DEF Tx
<1>6. /\ a.own = own /\ a.dirty = dirty /\ a.noted = noted
      /\ a.pending = I /\ a.locked = r.locked \cup r.pending
      /\ a.facts = r.facts /\ a.read = r.read /\ a.gone = r.gone
      /\ a.entries = r.entries /\ a.done = r.done /\ a.seen = r.seen
      /\ a.name = r.name /\ a.changed = r.changed
  BY <1>4 DEF Tx
<1>7. \A i \in Id : a.own[i] = IF i \in I THEN new[i] ELSE r.own[i]
  BY <1>6
<1>8. \A i \in Id, f \in Field :
        /\ <<i, f>> \in a.dirty <=>
             (<<i, f>> \in r.dirty \/ (i \in I /\ f \in Changed(Loaded(w, i), new[i])))
        /\ <<i, f>> \in a.noted <=> (<<i, f>> \in r.noted \/ (i \in I /\ f \in F[i]))
  BY <1>2, <1>3, <1>6
<1> QED
  BY <1>5, <1>6, <1>7, <1>8, ZenonT(60) DEF Shape

LEMMA InitInv == Init => IInv
<1> SUFFICES ASSUME Init PROVE IInv
  OBVIOUS
<1>1. \A w \in Worker : tx[w] = Idle
  BY DEF Init
<1>2. tx \in [Worker -> Tx]
  BY IdleType DEF Init
<1>3. NoFacts \in Facts /\ NoRows \in Stored
  BY DEF NoFacts, Facts, NoRows, Stored
<1>4. TypeOK
  BY <1>1, <1>2, <1>3, IdleType DEF Init, TypeOK, AtComponents
<1>5. HistoryTells
  BY DEF Init, HistoryTells
<1> QED
  BY <1>1, <1>4, <1>5, IdleType DEF IInv

(* A step of one snapshot that commits nothing.                            *)
LEMMA StepInv ==
  ASSUME IInv, NEW w \in Worker, NEW r \in Tx, tx' = [tx EXCEPT ![w] = r],
         UNCHANGED <<comp, said, fact, told, name, missed>>,
         Clean(r), Backed(r),
         \A v \in Worker \ {w} :
           /\ r.locked \cap tx[v].locked = {}
           /\ r.at \in {"swap", "match", "commit"} /\ AtComponents(v) =>
                Holds(r) \cap Holds(tx[v]) = {}
  PROVE  IInv'
<1>1. \A v \in Worker : tx'[v] = IF v = w THEN r ELSE tx[v]
  BY DEF IInv, TypeOK
<1>2. tx' \in [Worker -> Tx]
  BY DEF IInv, TypeOK
<1>3. \A u, v \in Worker : u # v =>
        /\ tx'[u].locked \cap tx'[v].locked = {}
        /\ tx'[u].at \in {"swap", "match", "commit"} /\ tx'[v].at \in {"swap", "match", "commit"} =>
             Holds(tx'[u]) \cap Holds(tx'[v]) = {}
  <2> SUFFICES ASSUME NEW u \in Worker, NEW v \in Worker, u # v
               PROVE  /\ tx'[u].locked \cap tx'[v].locked = {}
                      /\ tx'[u].at \in {"swap", "match", "commit"}
                         /\ tx'[v].at \in {"swap", "match", "commit"} =>
                           Holds(tx'[u]) \cap Holds(tx'[v]) = {}
    OBVIOUS
  <2>1. CASE u = w
    BY <1>1, <2>1 DEF AtComponents
  <2>2. CASE v = w
    BY <1>1, <2>2 DEF AtComponents
  <2>3. CASE u # w /\ v # w
    BY <1>1, <2>3 DEF AtComponents, IInv, TypeOK
  <2> QED
    BY <2>1, <2>2, <2>3
<1>4. TypeOK'
  BY <1>2, <1>3 DEF IInv, TypeOK, AtComponents, Holds, Kept, New, Removed
<1>5. HistoryTells'
  BY DEF IInv, HistoryTells
<1>6. \A v \in Worker : Clean(tx'[v]) /\ Backed(tx'[v])
  BY <1>1 DEF IInv
<1>7. \A v \in Worker : Clean(tx[v])' /\ Backed(tx[v])'
  BY <1>6 DEF Clean, Backed, More
<1> QED
  BY <1>4, <1>5, <1>7 DEF IInv

(* A snapshot that holds nothing.                                          *)
LEMMA EmptyInv ==
  ASSUME IInv, NEW w \in Worker,
         \/ Rollback(w)
         \/ \E s \in Snapshot, f \in Facts : Begin(w, s, f)
         \/ SelectFacts(w)
  PROVE  IInv'
<1>1. CASE Rollback(w)
  BY <1>1, IdleType, StepInv DEF Rollback
<1>2. ASSUME NEW s \in Snapshot, NEW f \in Facts, Begin(w, s, f) PROVE IInv'
  <2> PICK r : r = [Idle EXCEPT !.at = "host", !.entries = s, !.facts = f, !.name = name]
    OBVIOUS
  <2>1. r \in Tx
    BY IdleType DEF Tx, Step, IInv, TypeOK
  <2>2. r.at = "host" /\ r.own = NoRows /\ r.dirty = {} /\ r.noted = {}
        /\ r.pending = {} /\ r.locked = {}
    BY DEF Idle
  <2>3. Clean(r) /\ Backed(r)
    BY <2>2 DEF Clean, Backed, NoRows
  <2> QED
    BY <1>2, <2>1, <2>2, <2>3, StepInv DEF Begin
<1>3. CASE SelectFacts(w)
  <2> PICK q \in Tx : q = tx[w]
    BY DEF IInv, TypeOK
  <2> PICK r : r = [q EXCEPT !.at = "facts", !.read = fact]
    OBVIOUS
  <2>1. r \in Tx
    BY DEF Tx, Step, IInv, TypeOK
  <2>2. /\ r.at = "facts" /\ r.own = q.own /\ r.dirty = q.dirty /\ r.noted = q.noted
        /\ r.pending = q.pending /\ r.locked = q.locked
    BY DEF Tx
  <2>3. Clean(r) /\ Backed(r)
    BY <2>2 DEF IInv, Clean, Backed
  <2>4. \A v \in Worker \ {w} : r.locked \cap tx[v].locked = {}
    BY <2>2 DEF IInv, TypeOK
  <2>5. tx' = [tx EXCEPT ![w] = r] /\ UNCHANGED <<comp, said, fact, told, name, missed>>
    BY <1>3 DEF SelectFacts
  <2> QED
    BY <2>1, <2>2, <2>3, <2>4, <2>5, StepInv
<1> QED
  BY <1>1, <1>2, <1>3

LEMMA FlushInv == ASSUME IInv, NEW w \in Worker, FlushFacts(w) PROVE IInv'
<1> PICK q \in Tx : q = tx[w]
  BY DEF IInv, TypeOK
<1> PICK r : r = [q EXCEPT !.at = "swap"]
  OBVIOUS
<1>1. /\ tx' = [tx EXCEPT ![w] = r] /\ UNCHANGED <<comp, said, fact, told, name, missed>>
      /\ \A v \in Worker \ {w} : AtComponents(v) => Holds(tx[v]) \cap Holds(q) = {}
  BY DEF FlushFacts
<1>2. r \in Tx
  BY DEF Tx, Step
<1>3. /\ r.at = "swap" /\ r.own = q.own /\ r.dirty = q.dirty /\ r.noted = q.noted
      /\ r.pending = q.pending /\ r.locked = q.locked
      /\ r.facts = q.facts /\ r.read = q.read /\ r.gone = q.gone
  BY DEF Tx
<1>4. Clean(r) /\ Backed(r)
  BY <1>3 DEF IInv, Clean, Backed
<1>5. Holds(r) = Holds(q)
  BY <1>3 DEF Holds, Kept, New, Removed
<1>6. \A v \in Worker \ {w} : r.locked \cap tx[v].locked = {}
  BY <1>3 DEF IInv, TypeOK
<1>7. \A v \in Worker \ {w} :
           /\ r.locked \cap tx[v].locked = {}
           /\ r.at \in {"swap", "match", "commit"} /\ AtComponents(v) =>
                Holds(r) \cap Holds(tx[v]) = {}
  BY <1>1, <1>5, <1>6
<1> QED
  BY <1>1, <1>2, <1>4, <1>7, StepInv

(* r is w's snapshot after rows I, which it sees, were assigned and the    *)
(* assignments recorded.                                                   *)
Assigned(w, I, r) ==
  /\ \A i \in Id \ I : r.own[i] = tx[w].own[i]
  /\ \A i \in I : Sees(w, i) # None /\ r.own[i] # None
  /\ \A i \in I : r.own[i].present \/ <<i, "present">> \in r.dirty
  /\ tx[w].dirty \subseteq r.dirty
  /\ \A i \in Id, f \in Field : <<i, f>> \in r.dirty => i \in I \/ <<i, f>> \in tx[w].dirty
  /\ r.dirty = r.noted
  /\ r.pending = I /\ r.locked = tx[w].locked \cup tx[w].pending
  /\ r.facts = tx[w].facts /\ r.read = tx[w].read /\ r.gone = tx[w].gone
  /\ r.at = "match" => More(r)

LEMMA AssignInv ==
  ASSUME IInv, NEW w \in Worker, AtComponents(w), CanFlush(w),
         NEW I \in SUBSET Id, NEW r \in Tx, Assigned(w, I, r),
         tx' = [tx EXCEPT ![w] = r], UNCHANGED <<comp, said, fact, told, name, missed>>
  PROVE  IInv'
<1> PICK q \in Tx : q = tx[w]
  BY DEF IInv, TypeOK
<1>1. Clean(q) /\ Backed(q)
  BY DEF IInv
<1>2. Clean(r)
  BY <1>1 DEF Clean, Assigned
<1>3. Backed(r)
  <2>1. \A i \in I : comp[i] # None \/ \A f \in Field : <<i, f>> \in q.dirty
    BY LoadedType DEF Assigned
  <2> QED
    BY <1>1, <2>1 DEF Backed, Assigned
<1>4. Holds(r) = Holds(q)
  BY DEF Assigned, Holds, Kept, New, Removed
<1>5. \A v \in Worker \ {w} :
           /\ r.locked \cap tx[v].locked = {}
           /\ r.at \in {"swap", "match", "commit"} /\ AtComponents(v) =>
                Holds(r) \cap Holds(tx[v]) = {}
  BY <1>4 DEF Assigned, IInv, TypeOK, CanFlush
<1> QED
  BY <1>2, <1>3, <1>5, StepInv

LEMMA AbsentType ==
  ASSUME NEW x \in Row
  PROVE  Absent(x) \in Row /\ Absent(x).present = FALSE /\ Absent(x).slot = x.slot
BY DEF Absent, Row

(* What a step on the components leaves of a snapshot.                     *)
Goes(r, q) ==
  /\ r.entries = q.entries /\ r.facts = q.facts /\ r.read = q.read
  /\ r.gone = q.gone /\ r.name = q.name /\ r.changed = q.changed

(* r is w's snapshot after rows I were marked absent; p is where it is.    *)
Dropped(w, I, p, r) ==
  /\ Goes(r, tx[w]) /\ r.at = p /\ r.done = tx[w].done /\ r.seen = tx[w].seen
  /\ \A i \in I : /\ r.own[i].present = FALSE /\ r.own[i].slot = Loaded(w, i).slot
                  /\ <<i, "present">> \in r.dirty

(* Rows that are seen present are marked absent.                           *)
LEMMA AbsentShape ==
  ASSUME IInv, NEW w \in Worker, AtComponents(w), CanFlush(w),
         NEW I \in SUBSET PresentTo(w), NEW p \in {"match", "commit"},
         p = "match" => More(tx[w]),
         tx' = [tx EXCEPT ![w] =
           [Assign(w, I, [i \in I |-> Absent(Loaded(w, i))], [i \in I |-> {"present"}])
              EXCEPT !.at = p]]
  PROVE  \E r \in Tx : /\ tx' = [tx EXCEPT ![w] = r]
                       /\ Assigned(w, I, r) /\ Dropped(w, I, p, r)
<1> PICK q \in Tx : q = tx[w]
  BY DEF IInv, TypeOK
<1> PICK new : new = [i \in I |-> Absent(Loaded(w, i))]
  OBVIOUS
<1> PICK F : F = [i \in I |-> {"present"}]
  OBVIOUS
<1> PICK a : a = Assign(w, I, new, F)
  OBVIOUS
<1> PICK r : r = [a EXCEPT !.at = p]
  OBVIOUS
<1>1. I \in SUBSET Id /\ \A i \in I : Sees(w, i) # None /\ Sees(w, i).present
  BY DEF PresentTo
<1>2. \A i \in I : /\ Loaded(w, i) \in Row
                   /\ q.own[i] # None => Loaded(w, i) = q.own[i]
                   /\ q.own[i] = None => Loaded(w, i) = Sees(w, i)
  BY <1>1, LoadedType
<1>3. \A i \in I : /\ new[i] \in Row /\ new[i].present = FALSE
                   /\ new[i].slot = Loaded(w, i).slot
  BY <1>2, AbsentType
<1>4. F \in [I -> SUBSET Field] /\ \A i \in I : F[i] = {"present"}
  BY DEF Field
<1>5. Shape(w, I, new, F, a)
  BY <1>1, <1>3, <1>4, AssignShape
<1>s. /\ \A j \in Id : a.own[j] = IF j \in I THEN new[j] ELSE q.own[j]
      /\ a.pending = I /\ a.locked = q.locked \cup q.pending
      /\ a.facts = q.facts /\ a.read = q.read /\ a.gone = q.gone
      /\ a.entries = q.entries /\ a.done = q.done /\ a.seen = q.seen
      /\ a.name = q.name /\ a.changed = q.changed
  BY <1>5, ZenonT(30) DEF Shape
<1>6. r \in Tx
  <2>1. a \in Tx /\ p \in Step
    BY <1>5 DEF Shape, Step
  <2> QED
    BY <2>1 DEF Tx
<1>7. /\ r.at = p /\ r.own = a.own /\ r.dirty = a.dirty /\ r.noted = a.noted
      /\ r.pending = a.pending /\ r.locked = a.locked
      /\ r.facts = a.facts /\ r.read = a.read /\ r.gone = a.gone
      /\ r.entries = a.entries /\ r.done = a.done /\ r.seen = a.seen
      /\ r.name = a.name /\ r.changed = a.changed
  <2>1. a \in Tx
    BY <1>5 DEF Shape
  <2> QED
    BY <2>1 DEF Tx
<1>8. Clean(q)
  BY DEF IInv
<1>9. \A i \in I, f \in Field :
        (<<i, f>> \in q.dirty \/ f \in Changed(Loaded(w, i), new[i])) <=>
          (<<i, f>> \in q.dirty \/ f \in F[i])
  <2> SUFFICES ASSUME NEW i \in I
               PROVE  /\ "slot" \notin Changed(Loaded(w, i), new[i])
                      /\ <<i, "present">> \in q.dirty
                         \/ "present" \in Changed(Loaded(w, i), new[i])
    BY <1>4 DEF Field
  <2> PICK x \in Row : x = Loaded(w, i)
    BY <1>2
  <2>1. "slot" \notin Changed(x, new[i])
    BY <1>3 DEF Changed
  <2>2. x.present => "present" \in Changed(x, new[i])
    BY <1>3 DEF Changed, Field
  <2>3. ~x.present => <<i, "present">> \in q.dirty
    <3>1. ~x.present => q.own[i] # None /\ x = q.own[i]
      BY <1>1, <1>2
    <3>2. i \in Id
      BY <1>1
    <3> QED
      BY <1>8, <3>1, <3>2 DEF Clean
  <2> QED
    BY <2>1, <2>2, <2>3
<1>10. \A i \in Id, f \in Field :
         /\ <<i, f>> \in r.dirty <=> (<<i, f>> \in q.dirty \/ (i \in I /\ f \in F[i]))
         /\ <<i, f>> \in r.noted <=> (<<i, f>> \in q.dirty \/ (i \in I /\ f \in F[i]))
  BY <1>5, <1>7, <1>8, <1>9, ZenonT(60) DEF Clean, Shape
<1>11. r.dirty = r.noted /\ q.dirty \subseteq r.dirty
  <2>1. /\ r.dirty \subseteq Id \X Field /\ r.noted \subseteq Id \X Field
        /\ q.dirty \subseteq Id \X Field
    BY <1>6, TxFields
  <2>2. \A i \in Id, f \in Field : /\ <<i, f>> \in r.dirty <=> <<i, f>> \in r.noted
                                   /\ <<i, f>> \in q.dirty => <<i, f>> \in r.dirty
    BY <1>10
  <2>3. ASSUME NEW x \in Id \X Field
        PROVE  (x \in r.dirty <=> x \in r.noted) /\ (x \in q.dirty => x \in r.dirty)
    <3>1. PICK i \in Id, f \in Field : x = <<i, f>>
      OBVIOUS
    <3> QED
      BY <2>2, <3>1
  <2> QED
    BY <2>1, <2>3
<1>12. \A i \in I : r.own[i] # None /\ <<i, "present">> \in r.dirty
  <2> SUFFICES ASSUME NEW i \in I PROVE r.own[i] # None /\ <<i, "present">> \in r.dirty
    OBVIOUS
  <2>1. i \in Id /\ "present" \in Field /\ "present" \in F[i]
    BY <1>1, <1>4 DEF Field
  <2>2. r.own[i] \in Row
    BY <1>3, <1>s, <1>7, <2>1, ZenonT(60)
  <2> QED
    BY <1>10, <2>1, <2>2, NoneIsNothing
<1>13. /\ r.pending = I /\ r.locked = q.locked \cup q.pending
       /\ r.facts = q.facts /\ r.read = q.read /\ r.gone = q.gone
       /\ r.at = "match" => More(r)
  BY <1>s, <1>7, ZenonT(60) DEF More
<1>14. \A i \in Id \ I : r.own[i] = q.own[i]
  <2>1. r.own = a.own
    BY <1>7
  <2>2. \A j \in Id : a.own[j] = IF j \in I THEN new[j] ELSE q.own[j]
    BY <1>s
  <2> QED
    BY <2>1, <2>2
<1>15. \A i \in Id, f \in Field : <<i, f>> \in r.dirty => i \in I \/ <<i, f>> \in q.dirty
  BY <1>10
<1>16. tx' = [tx EXCEPT ![w] = r]
  OBVIOUS
<1>17. Assigned(w, I, r)
  BY <1>1, <1>11, <1>12, <1>13, <1>14, <1>15 DEF Assigned
<1>18. Dropped(w, I, p, r)
  <2>1. Goes(r, q) /\ r.at = p /\ r.done = q.done /\ r.seen = q.seen
    BY <1>s, <1>7, ZenonT(60) DEF Goes
  <2>2. \A i \in I : r.own[i] = new[i]
    <3>1. r.own = a.own /\ \A j \in I : j \in Id
      BY <1>1, <1>7, ZenonT(60)
    <3>2. \A j \in Id : a.own[j] = IF j \in I THEN new[j] ELSE q.own[j]
      BY <1>s
    <3> QED
      BY <3>1, <3>2
  <2>3. \A i \in I : r.own[i].present = FALSE /\ r.own[i].slot = Loaded(w, i).slot
    BY <1>3, <2>2
  <2> QED
    BY <1>12, <2>1, <2>3, ZenonT(60) DEF Dropped
<1> QED
  BY <1>6, <1>16, <1>17, <1>18

LEMMA AbsentInv ==
  ASSUME IInv, NEW w \in Worker, AtComponents(w), CanFlush(w),
         NEW I \in SUBSET PresentTo(w), NEW p \in {"match", "commit"},
         p = "match" => More(tx[w]),
         tx' = [tx EXCEPT ![w] =
           [Assign(w, I, [i \in I |-> Absent(Loaded(w, i))], [i \in I |-> {"present"}])
              EXCEPT !.at = p]],
         UNCHANGED <<comp, said, fact, told, name, missed>>
  PROVE  IInv'
<1>1. I \in SUBSET Id
  BY DEF PresentTo
<1>2. PICK r \in Tx : tx' = [tx EXCEPT ![w] = r] /\ Assigned(w, I, r)
  BY AbsentShape
<1> QED
  BY <1>1, <1>2, AssignInv

LEMMA SwapInv == ASSUME IInv, NEW w \in Worker, Swap(w) PROVE IInv'
<1>1. InSlot(w, Current(tx[w])) \in SUBSET PresentTo(w)
  BY DEF InSlot
<1> QED
  BY <1>1, AbsentInv DEF Swap, AtComponents

LEMMA FinishInv == ASSUME IInv, NEW w \in Worker, Finish(w) PROVE IInv'
<1>1. Unseen(w) \in SUBSET PresentTo(w)
  BY DEF Unseen
<1> QED
  BY <1>1, AbsentInv DEF Finish, AtComponents

LEMMA CurrentType ==
  ASSUME NEW r \in Tx, More(r)
  PROVE  /\ Observed(Current(r)) \in Row /\ Observed(Current(r)).present
         /\ Identity(Current(r)) # None => Identity(Current(r)) \in Id
<1>1. r.entries \in Snapshot \cup {<< >>} /\ r.done \in Nat /\ r.done < Len(r.entries)
  BY TxFields DEF More
<1>2. r.entries \in Seq(Entry)
  BY <1>1, SnapshotType
<1>3. Current(r) \in Entry
  BY <1>1, <1>2 DEF Current
<1> PICK e \in Entry : e = Current(r)
  BY <1>3
<1>4. Observed(e) \in Row /\ Observed(e).present
  BY DEF Observed, Row, Entry
<1>5. Identity(e) # None => Identity(e) \in Id
  BY DEF Identity, Entry, Id
<1> QED
  BY <1>4, <1>5

(* A snapshot that is done with an entry, and one that has inserted a row. *)
Passed(r, S, d) == [r EXCEPT !.seen = S, !.at = "swap", !.done = d]
Inserted(r, own, dirty, noted, locked, S, d) ==
  [r EXCEPT !.own = own, !.dirty = dirty, !.noted = noted, !.pending = {},
            !.locked = locked, !.seen = S, !.at = "swap", !.done = d]

LEMMA PassedType ==
  ASSUME NEW r \in Tx, NEW S \in SUBSET Id, NEW d \in Nat
  PROVE  Passed(r, S, d) \in Tx
BY DEF Tx, Step, Passed

LEMMA InsertedType ==
  ASSUME NEW r \in Tx, NEW own \in Stored, NEW dirty \in Marks, NEW noted \in Marks,
         NEW locked \in SUBSET Id, NEW S \in SUBSET Id, NEW d \in Nat
  PROVE  Inserted(r, own, dirty, noted, locked, S, d) \in Tx
BY DEF Tx, Step, Inserted

(* r is w's snapshot after the entry at hand became row i: the columns     *)
(* that it does not write are as they were loaded.                         *)
Entered(w, i, r) ==
  /\ Goes(r, tx[w]) /\ r.at = "swap" /\ r.done = tx[w].done + 1
  /\ r.seen = tx[w].seen \cup {i} /\ tx[w].dirty \subseteq r.dirty
  /\ r.own[i] = Observed(Current(tx[w]))
  /\ \A j \in Id \ {i} : r.own[j] = tx[w].own[j]
  /\ \A f \in Field : <<i, f>> \in r.dirty
                         \/ (Sees(w, i) # None /\ r.own[i][f] = Loaded(w, i)[f])

LEMMA UpdateShape ==
  ASSUME IInv, NEW w \in Worker, Update(w)
  PROVE  /\ AtComponents(w) /\ CanFlush(w) /\ Identity(Current(tx[w])) \in Id
         /\ \E r \in Tx : /\ tx' = [tx EXCEPT ![w] = r]
                          /\ Assigned(w, {Identity(Current(tx[w]))}, r)
                          /\ Entered(w, Identity(Current(tx[w])), r)
<1> PICK q \in Tx : q = tx[w]
  BY DEF IInv, TypeOK
<1> PICK i : i = Identity(Current(q))
  OBVIOUS
<1> PICK o : o = Observed(Current(q))
  OBVIOUS
<1> PICK new : new = [x \in {i} |-> o]
  OBVIOUS
<1> PICK F : F = [x \in {i} |-> Diff(Loaded(w, i), o)]
  OBVIOUS
<1> PICK a : a = Assign(w, {i}, new, F)
  OBVIOUS
<1>r. PICK r : r = Passed(a, a.seen \cup {i}, a.done + 1)
  OBVIOUS
<1>1. /\ MayMatch(w) /\ i # None /\ Sees(w, i) # None
      /\ tx' = [tx EXCEPT ![w] = r] /\ UNCHANGED <<comp, said, fact, told, name, missed>>
  BY <1>r DEF Update, Passed
<1>2. Clean(q) /\ More(q) /\ AtComponents(w) /\ CanFlush(w)
  BY <1>1 DEF MayMatch, IInv, Clean, AtComponents
<1>3. i \in Id /\ o \in Row /\ o.present /\ o # None
  BY <1>1, <1>2, CurrentType, NoneIsNothing
<1>4. /\ {i} \in SUBSET Id /\ new \in [{i} -> Row] /\ F \in [{i} -> SUBSET Field]
      /\ new[i] = o /\ F[i] = Diff(Loaded(w, i), o)
  BY <1>3 DEF Diff
<1>5. Shape(w, {i}, new, F, a)
  BY <1>4, AssignShape
<1>s. /\ a.pending = {i} /\ a.locked = q.locked \cup q.pending
      /\ a.facts = q.facts /\ a.read = q.read /\ a.gone = q.gone
      /\ a.entries = q.entries /\ a.done = q.done /\ a.seen = q.seen
      /\ a.name = q.name /\ a.changed = q.changed
  BY <1>5, ZenonT(30) DEF Shape
<1>o. a.own[i] = new[i] /\ \A j \in Id \ {i} : a.own[j] = q.own[j]
  <2>1. \A j \in Id : a.own[j] = IF j \in {i} THEN new[j] ELSE q.own[j]
    BY <1>5, ZenonT(30) DEF Shape
  <2> QED
    BY <1>3, <2>1
<1>6. r \in Tx
  <2>1. a \in Tx /\ i \in Id
    BY <1>3, <1>5 DEF Shape
  <2>2. a.seen \cup {i} \in SUBSET Id /\ a.done + 1 \in Nat
    BY <2>1, TxFields
  <2> QED
    BY <1>r, <2>1, <2>2, PassedType
<1>7. /\ r.at = "swap" /\ r.own = a.own /\ r.dirty = a.dirty /\ r.noted = a.noted
      /\ r.pending = a.pending /\ r.locked = a.locked
      /\ r.facts = a.facts /\ r.read = a.read /\ r.gone = a.gone
      /\ r.entries = a.entries /\ r.done = a.done + 1 /\ r.seen = a.seen \cup {i}
      /\ r.name = a.name /\ r.changed = a.changed
  <2>1. a \in Tx
    BY <1>5 DEF Shape
  <2> QED
    BY <1>r, <2>1 DEF Tx, Passed
<1>8. F[i] = Changed(Loaded(w, i), new[i])
  BY <1>4 DEF Diff, Changed
<1>9. \A x \in Id, f \in Field :
        /\ <<x, f>> \in r.dirty <=> (<<x, f>> \in q.dirty \/ (x \in {i} /\ f \in F[x]))
        /\ <<x, f>> \in r.noted <=> (<<x, f>> \in q.dirty \/ (x \in {i} /\ f \in F[x]))
  <2>1. /\ q.noted = q.dirty
        /\ \A x \in {i} : F[x] = Changed(Loaded(w, x), new[x])
    BY <1>2, <1>8 DEF Clean
  <2>2. \A x \in Id, f \in Field :
           /\ <<x, f>> \in a.dirty <=>
                (<<x, f>> \in q.dirty \/ (x \in {i} /\ f \in Changed(Loaded(w, x), new[x])))
           /\ <<x, f>> \in a.noted <=> (<<x, f>> \in q.noted \/ (x \in {i} /\ f \in F[x]))
    BY <1>5, ZenonT(60) DEF Shape
  <2> SUFFICES ASSUME NEW x \in Id, NEW f \in Field
               PROVE  /\ <<x, f>> \in a.dirty <=>
                           (<<x, f>> \in q.dirty \/ (x \in {i} /\ f \in F[x]))
                      /\ <<x, f>> \in a.noted <=>
                           (<<x, f>> \in q.dirty \/ (x \in {i} /\ f \in F[x]))
    BY <1>7
  <2>3. <<x, f>> \in a.noted <=> (<<x, f>> \in q.dirty \/ (x \in {i} /\ f \in F[x]))
    BY <2>1, <2>2
  <2>4. CASE x = i
    BY <2>1, <2>2, <2>3, <2>4
  <2>5. CASE x # i
    BY <2>2, <2>3, <2>5
  <2> QED
    BY <2>4, <2>5
<1>10. r.dirty = r.noted /\ q.dirty \subseteq r.dirty
  <2>1. /\ r.dirty \subseteq Id \X Field /\ r.noted \subseteq Id \X Field
        /\ q.dirty \subseteq Id \X Field
    BY <1>6, TxFields
  <2>2. ASSUME NEW x \in Id \X Field
        PROVE  (x \in r.dirty <=> x \in r.noted) /\ (x \in q.dirty => x \in r.dirty)
    <3>1. PICK y \in Id, f \in Field : x = <<y, f>>
      OBVIOUS
    <3> QED
      BY <1>9, <3>1
  <2> QED
    BY <2>1, <2>2
<1>11. \A x \in {i} : Sees(w, x) # None /\ r.own[x] # None /\ r.own[x].present
  <2>1. r.own[i] = o
    BY <1>4, <1>o, <1>7, ZenonT(60)
  <2> QED
    BY <1>1, <1>3, <2>1
<1>12. /\ r.pending = {i} /\ r.locked = q.locked \cup q.pending
       /\ r.facts = q.facts /\ r.read = q.read /\ r.gone = q.gone
       /\ \A x \in Id \ {i} : r.own[x] = q.own[x]
  <2>1. /\ r.pending = {i} /\ r.locked = q.locked \cup q.pending
        /\ r.facts = q.facts /\ r.read = q.read /\ r.gone = q.gone
    BY <1>s, <1>7, ZenonT(60)
  <2>2. \A x \in Id \ {i} : r.own[x] = q.own[x]
    <3>1. r.own = a.own
      BY <1>7
    <3> SUFFICES ASSUME NEW x \in Id \ {i} PROVE r.own[x] = q.own[x]
      OBVIOUS
    <3> QED
      BY <1>o, <3>1
  <2> QED
    BY <2>1, <2>2
<1>13. \A x \in Id, f \in Field : <<x, f>> \in r.dirty => x \in {i} \/ <<x, f>> \in q.dirty
  BY <1>9
<1>14. Assigned(w, {i}, r)
  <2> tx[w] = q /\ (r.at = "match" => More(r))
    BY <1>7
  <2> QED
    BY <1>10, <1>11, <1>12, <1>13 DEF Assigned
<1>15. Entered(w, i, r)
  <2>1. /\ Goes(r, q) /\ r.at = "swap" /\ r.done = q.done + 1
        /\ r.seen = q.seen \cup {i} /\ q.dirty \subseteq r.dirty
    BY <1>s, <1>7, <1>10, ZenonT(60) DEF Goes
  <2>2. r.own[i] = o
    BY <1>4, <1>o, <1>7, ZenonT(60)
  <2>3. \A f \in Field : <<i, f>> \in r.dirty \/ o[f] = Loaded(w, i)[f]
    BY <1>4, <1>8, <1>9, <1>3 DEF Changed
  <2> QED
    BY <1>1, <1>12, <2>1, <2>2, <2>3, ZenonT(60) DEF Entered
<1> QED
  BY <1>1, <1>2, <1>3, <1>6, <1>14, <1>15

LEMMA UpdateInv == ASSUME IInv, NEW w \in Worker, Update(w) PROVE IInv'
<1>1. PICK i \in Id : i = Identity(Current(tx[w]))
  BY UpdateShape
<1>2. PICK r \in Tx : tx' = [tx EXCEPT ![w] = r] /\ Assigned(w, {i}, r)
  BY <1>1, UpdateShape
<1>3. /\ AtComponents(w) /\ CanFlush(w)
      /\ UNCHANGED <<comp, said, fact, told, name, missed>>
  BY UpdateShape DEF Update
<1> QED
  BY <1>2, <1>3, AssignInv

LEMMA InsertShape ==
  ASSUME IInv, NEW w \in Worker, NEW i \in Id, Insert(w, i)
  PROVE  IInv' /\ \E r \in Tx : tx' = [tx EXCEPT ![w] = r] /\ Entered(w, i, r)
<1> PICK q \in Tx : q = tx[w]
  BY DEF IInv, TypeOK
<1> PICK o : o = Observed(Current(q))
  OBVIOUS
<1>r. PICK r : r = Inserted(q, [q.own EXCEPT ![i] = o], q.dirty \cup ({i} \X Field),
                          q.noted \cup ({i} \X Field), Flushed(w) \cup {i},
                          q.seen \cup {i}, q.done + 1)
  OBVIOUS
<1>1. /\ MayMatch(w) /\ \A v \in Worker : tx[v].own[i] = None
      /\ tx' = [tx EXCEPT ![w] = r] /\ UNCHANGED <<comp, said, fact, told, name, missed>>
  BY <1>r DEF Insert, Inserted
<1>2. Clean(q) /\ Backed(q) /\ More(q) /\ AtComponents(w) /\ CanFlush(w)
  BY <1>1 DEF MayMatch, IInv, Clean, AtComponents
<1>3. o \in Row /\ o.present /\ o # None
  BY <1>2, CurrentType, NoneIsNothing
<1>4. /\ r.at = "swap" /\ r.own = [q.own EXCEPT ![i] = o]
      /\ r.dirty = q.dirty \cup ({i} \X Field) /\ r.noted = q.noted \cup ({i} \X Field)
      /\ r.pending = {} /\ r.locked = q.locked \cup q.pending \cup {i}
      /\ r.facts = q.facts /\ r.read = q.read /\ r.gone = q.gone
      /\ r.entries = q.entries /\ r.done = q.done + 1 /\ r.seen = q.seen \cup {i}
      /\ r.name = q.name /\ r.changed = q.changed
  BY <1>r DEF Tx, Flushed, Inserted
<1>5. r \in Tx
  <2>1. /\ [q.own EXCEPT ![i] = o] \in Stored /\ q.dirty \cup ({i} \X Field) \in Marks
        /\ q.noted \cup ({i} \X Field) \in Marks /\ Flushed(w) \cup {i} \in SUBSET Id
    BY <1>3, TxFields DEF Stored, Marks, Flushed
  <2>2. q.seen \cup {i} \in SUBSET Id /\ q.done + 1 \in Nat
    BY TxFields
  <2> QED
    BY <1>r, <2>1, <2>2, InsertedType
<1>6. /\ \A x \in Id : r.own[x] = IF x = i THEN o ELSE q.own[x]
      /\ \A x \in Id, f \in Field : <<x, f>> \in r.dirty <=> x = i \/ <<x, f>> \in q.dirty
  BY <1>4, TxFields
<1>7. Clean(r)
  BY <1>2, <1>3, <1>4, <1>6 DEF Clean
<1>8. Backed(r)
  BY <1>2, <1>6 DEF Backed
<1>9. \A v \in Worker \ {w} : i \notin tx[v].locked
  BY <1>1 DEF IInv, Clean
<1>10. Holds(r) = Holds(q)
  BY <1>4 DEF Holds, Kept, New, Removed
<1>11. \A v \in Worker \ {w} :
           /\ r.locked \cap tx[v].locked = {}
           /\ r.at \in {"swap", "match", "commit"} /\ AtComponents(v) =>
                Holds(r) \cap Holds(tx[v]) = {}
  BY <1>2, <1>4, <1>9, <1>10 DEF IInv, TypeOK, CanFlush
<1>12. Entered(w, i, r)
  <2>1. Goes(r, q) /\ q.dirty \subseteq r.dirty
    BY <1>4, ZenonT(60) DEF Goes
  <2> QED
    BY <1>4, <1>6, <2>1 DEF Entered
<1> QED
  BY <1>1, <1>5, <1>7, <1>8, <1>11, <1>12, StepInv

LEMMA InsertInv == ASSUME IInv, NEW w \in Worker, NEW i \in Id, Insert(w, i) PROVE IInv'
BY InsertShape

-----------------------------------------------------------------------------
(* What a commit leaves of another snapshot, and of all.                   *)
Same(r, q) ==
  /\ r.at = q.at /\ r.entries = q.entries /\ r.done = q.done
  /\ r.own = q.own /\ r.dirty = q.dirty /\ r.noted = q.noted /\ r.seen = q.seen
  /\ r.pending = q.pending /\ r.locked = q.locked
  /\ r.facts = q.facts /\ r.read = q.read /\ r.name = q.name
  /\ q.gone \subseteq r.gone /\ q.changed \subseteq r.changed
Left(w, t) ==
  /\ t \in [Worker -> Tx] /\ t[w] = Idle
  /\ \A v \in Worker \ {w} : Same(t[v], tx[v])

(* What another snapshot learns of deleted facts D, of facts and of names  *)
(* (x, y: whether there are any).                                          *)
Warned(r, q, D, x, y) ==
  /\ D = {} \/ q.at # "facts" => r.gone = q.gone
  /\ x /\ q.at \notin {"idle", "host"} => "facts" \in r.changed
  /\ y /\ q.at # "idle" => "host" \in r.changed
  /\ q.at \in {"swap", "match", "commit"} => "components" \in r.changed

LEMMA OvertakenShape ==
  ASSUME tx \in [Worker -> Tx], NEW w \in Worker, NEW D \in SUBSET Key, NEW x, NEW y
  PROVE  /\ Left(w, Overtaken(w, D, x, y))
         /\ \A v \in Worker \ {w} : Warned(Overtaken(w, D, x, y)[v], tx[v], D, x, y)
<1> PICK t : t = Overtaken(w, D, x, y)
  OBVIOUS
<1>1. ASSUME NEW v \in Worker
      PROVE  /\ t[v] \in Tx
             /\ v # w => Same(t[v], tx[v]) /\ Warned(t[v], tx[v], D, x, y)
  <2>1. CASE v = w
    BY <2>1, IdleType DEF Overtaken
  <2>2. CASE v # w
    <3> PICK q \in Tx : q = tx[v]
      OBVIOUS
    <3>g. PICK G : G = q.gone \cup (IF q.at = "facts"
                                   THEN {k \in D : q.read[k] # None} ELSE {})
      OBVIOUS
    <3>c. PICK C : C = q.changed \cup (IF x /\ HasRead(v) THEN {"facts"} ELSE {})
                                \cup (IF y /\ Started(v) THEN {"host"} ELSE {})
                                \cup (IF AtComponents(v) THEN {"components"} ELSE {})
      OBVIOUS
    <3>1. t[v] = [q EXCEPT !.gone = G, !.changed = C]
      BY <2>2, <3>g, <3>c DEF Overtaken
    <3>2. G \in SUBSET Key /\ q.gone \subseteq G
      BY <3>g, TxFields
    <3>3. C \in SUBSET {"facts", "host", "components"}
      BY <3>c, TxFields
    <3>4. t[v] \in Tx /\ Same(t[v], q)
      <4>1. q.changed \subseteq C
        BY <3>c
      <4> QED
        BY <2>2, <3>1, <3>2, <3>3, <4>1, ZenonT(60) DEF Tx, Same
    <3>5. Warned(t[v], q, D, x, y)
      <4>1. t[v].gone = G /\ t[v].changed = C
        BY <3>1, <3>2, <3>3, ZenonT(60) DEF Tx
      <4>2. D = {} \/ q.at # "facts" => G = q.gone
        BY <3>g
      <4>3. /\ x /\ q.at \notin {"idle", "host"} => "facts" \in C
            /\ y /\ q.at # "idle" => "host" \in C
            /\ q.at \in {"swap", "match", "commit"} => "components" \in C
        BY <3>c DEF Started, HasRead, AtComponents
      <4> QED
        BY <4>1, <4>2, <4>3 DEF Warned
    <3> QED
      BY <2>2, <3>4, <3>5
  <2> QED
    BY <2>1, <2>2
<1>2. t[w] = Idle
  BY DEF Overtaken
<1>3. t \in [Worker -> Tx]
  <2>1. \A v \in Worker : t[v] \in Tx
    BY <1>1
  <2> QED
    BY <2>1 DEF Overtaken
<1> QED
  BY <1>1, <1>2, <1>3 DEF Left

LEMMA CommitInv == ASSUME IInv, NEW w \in Worker, Commit(w) PROVE IInv'
<1> PICK q \in Tx : q = tx[w]
  BY DEF IInv, TypeOK
<1> PICK written : written = Edited(q) \ q.gone
  OBVIOUS
<1>t. PICK t : t = Overtaken(w, written \cap Removed(q), written # {}, Adopts(q))
  OBVIOUS
<1>1. /\ comp' = [i \in Id |-> IF q.own[i] = None THEN comp[i]
                               ELSE Over(comp[i], q.own[i], DirtyOf(q, i))]
      /\ said' = [i \in Id |-> IF q.own[i] = None THEN said[i]
                               ELSE Over(said[i], q.own[i], NotedOf(q, i))]
      /\ fact' = [k \in Key |-> IF k \in written THEN q.facts[k] ELSE fact[k]]
      /\ told' = [k \in Key |-> IF k \in Edited(q) THEN q.facts[k] ELSE told[k]]
      /\ name' = IF Adopts(q) THEN q.facts[Hostname] ELSE name
      /\ missed' = (missed \ Edited(q))
                    \cup {k \in Edited(q) \cap q.gone : fact[k] # q.facts[k]}
  BY DEF Commit
<1>2. tx' = t
  BY <1>t DEF Commit
<1>3. /\ t \in [Worker -> Tx] /\ t[w] = Idle
      /\ \A v \in Worker \ {w} : Same(t[v], tx[v])
  <2>1. written \cap Removed(q) \in SUBSET Key
    BY DEF Removed
  <2>2. tx \in [Worker -> Tx]
    BY DEF IInv, TypeOK
  <2> QED
    BY <1>t, <2>1, <2>2, OvertakenShape DEF Left
<1>4. /\ comp \in Stored /\ said = comp /\ fact \in Facts /\ told \in Facts /\ name \in Value
      /\ missed \subseteq Key /\ q.facts \in Facts /\ q.own \in Stored
      /\ Clean(q) /\ Backed(q)
  BY TxFields DEF IInv, TypeOK, HistoryTells, Stored
<1>5. comp' \in Stored /\ said' = comp' /\ \A i \in Id : comp[i] # None => comp'[i] # None
  <2>1. \A i \in Id : DirtyOf(q, i) = NotedOf(q, i)
    BY <1>4 DEF Clean, DirtyOf, NotedOf
  <2>2. said' = comp'
    BY <1>1, <1>4, <2>1
  <2>3. ASSUME NEW i \in Id, q.own[i] # None
        PROVE  Over(comp[i], q.own[i], DirtyOf(q, i)) \in Row
    <3>1. q.own[i] \in Row /\ DirtyOf(q, i) \in SUBSET Field
      BY <1>4, <2>3 DEF Stored, DirtyOf
    <3>2. comp[i] \in Row \/ DirtyOf(q, i) = Field
      BY <1>4, <2>3 DEF Stored, DirtyOf, Backed
    <3> QED
      BY <3>1, <3>2, OverType
  <2>4. None \notin Row
    BY NoneIsNothing
  <2> QED
    BY <1>1, <1>4, <2>2, <2>3, <2>4 DEF Stored
<1>6. /\ fact' \in Facts /\ told' \in Facts /\ name' \in Value /\ missed' \in SUBSET Key
  BY <1>1, <1>4, HostnameIsAKey DEF Facts, Adopts, Edited
<1>7. \A k \in Key \ missed' : told'[k] = fact'[k]
  <2> SUFFICES ASSUME NEW k \in Key, k \notin missed' PROVE told'[k] = fact'[k]
    OBVIOUS
  <2>1. CASE k \in written
    BY <1>1, <2>1
  <2>2. CASE k \notin written /\ k \in Edited(q)
    <3>1. fact[k] = q.facts[k]
      BY <1>1, <2>2
    <3> QED
      BY <1>1, <2>2, <3>1
  <2>3. CASE k \notin written /\ k \notin Edited(q)
    <3>1. told'[k] = told[k] /\ fact'[k] = fact[k]
      BY <1>1, <2>3
    <3>2. told[k] = fact[k]
      BY <1>1, <2>3 DEF IInv, HistoryTells
    <3> QED
      BY <3>1, <3>2
  <2> QED
    BY <2>1, <2>2, <2>3
<1>9. ASSUME NEW u \in Worker, NEW v \in Worker, u # v
      PROVE  /\ t[u].locked \cap t[v].locked = {}
             /\ t[u].at \in {"swap", "match", "commit"} /\ t[v].at \in {"swap", "match", "commit"}
                  => Holds(t[u]) \cap Holds(t[v]) = {}
  <2>1. CASE u = w \/ v = w
    BY <1>3, <2>1, IdleType
  <2>2. CASE u # w /\ v # w
    <3>1. Holds(t[u]) \subseteq Holds(tx[u]) /\ Holds(t[v]) \subseteq Holds(tx[v])
      BY <1>3, <2>2 DEF Same, Holds, Kept, New, Removed
    <3> QED
      BY <1>3, <1>9, <2>2, <3>1 DEF Same, IInv, TypeOK, AtComponents
  <2> QED
    BY <2>1, <2>2
<1>10. TypeOK'
  <2>1. \A u, v \in Worker : u # v =>
          /\ tx'[u].locked \cap tx'[v].locked = {}
          /\ tx'[u].at \in {"swap", "match", "commit"} /\ tx'[v].at \in {"swap", "match", "commit"}
               => Holds(tx'[u]) \cap Holds(tx'[v]) = {}
    BY <1>2, <1>9
  <2> QED
    BY <1>2, <1>3, <1>5, <1>6, <2>1 DEF TypeOK, AtComponents, Holds, Kept, New, Removed
<1>11. \A v \in Worker : Clean(t[v]) /\ Backed(t[v])'
  <2> SUFFICES ASSUME NEW v \in Worker PROVE Clean(t[v]) /\ Backed(t[v])'
    OBVIOUS
  <2>1. CASE v = w
    <3>1. t[v] = Idle /\ Clean(Idle)
      BY <1>3, <2>1, IdleType
    <3>2. \A i \in Id : t[v].own[i] = None
      BY <3>1 DEF Idle, NoRows
    <3> QED
      BY <3>1, <3>2 DEF Backed
  <2>2. CASE v # w
    <3>1. Clean(tx[v]) /\ Backed(tx[v])
      BY DEF IInv
    <3>2. Same(t[v], tx[v])
      BY <1>3, <2>2
    <3>3. Clean(t[v])
      BY <3>1, <3>2 DEF Same, Clean, More
    <3>4. Backed(t[v])'
      BY <1>5, <3>1, <3>2 DEF Same, Backed
    <3> QED
      BY <3>3, <3>4
  <2> QED
    BY <2>1, <2>2
<1>12. \A v \in Worker : Clean(tx[v])' /\ Backed(tx[v])'
  BY <1>2, <1>11 DEF Clean, Backed, More
<1> QED
  BY <1>5, <1>7, <1>10, <1>12 DEF IInv, HistoryTells

-----------------------------------------------------------------------------
LEMMA StutterInv == ASSUME IInv, UNCHANGED vars PROVE IInv'
BY DEF vars, IInv, TypeOK, HistoryTells, Clean, Backed, More, AtComponents,
       Holds, Kept, New, Removed

LEMMA StepsInv == ASSUME IInv, [Next]_vars PROVE IInv'
BY EmptyInv, FlushInv, SwapInv, UpdateInv, FinishInv, CommitInv, InsertInv, StutterInv DEF Next

(* The tables and the snapshots under way are what they should be, and two *)
(* snapshots never hold the same component or the same fact.               *)
THEOREM TypeCorrect == Spec => []TypeOK
<1>1. IInv => TypeOK
  BY DEF IInv
<1> QED
  BY <1>1, InitInv, StepsInv, PTL DEF Spec

(* The last record of every column and every fact says what is stored,     *)
(* however snapshots overlap, but for a fact whose last record, an edit or *)
(* a deletion, is of a row that was already gone.                          *)
THEOREM HistoryIsTrue == Spec => []HistoryTells
<1>1. IInv => HistoryTells
  BY DEF IInv
<1> QED
  BY <1>1, InitInv, StepsInv, PTL DEF Spec

-----------------------------------------------------------------------------
(* What a snapshot leaves.  While nothing has been committed since its     *)
(* first flush, the columns a session does not write are as stored, so     *)
(* what it sees is what it will leave: its own rows over the table c.      *)
Whole(r) == "components" \notin r.changed
Viewed(r, c, i) == IF r.own[i] # None THEN r.own[i] ELSE c[i]
PresentIn(r, c, i) == Viewed(r, c, i) # None /\ Viewed(r, c, i).present

(* Nothing is assigned before the facts are flushed.                       *)
Early(r) == r.at \in {"idle", "host", "facts"} => r.own = NoRows /\ r.seen = {} /\ r.done = 0

(* The rows seen are those of the entries done.                            *)
Progress(r) ==
  /\ r.done <= Len(r.entries)
  /\ r.at = "match" => Swaps(Current(r))
  /\ r.at = "commit" => r.done = Len(r.entries)
  /\ \A i \in r.seen : /\ r.own[i] # None
                       /\ i \in Anon \/ \E n \in 1..r.done : Identity(r.entries[n]) = i
  /\ \A n \in 1..r.done : Identity(r.entries[n]) # None => Identity(r.entries[n]) \in r.seen

AsStored(r, c) ==
  \A i \in Id, f \in Field : r.own[i] # None => <<i, f>> \in r.dirty \/ r.own[i][f] = c[i][f]

(* Of the rows seen, no two serials are present in one slot; the slot of   *)
(* the entry at hand is free; in the end nothing else is present.          *)
SlotsDiffer(r) ==
  \A i, j \in Serial \cap r.seen :
    i # j /\ r.own[i].present /\ r.own[j].present /\ r.own[i].slot = r.own[j].slot
      => r.own[i].slot = None
Cleared(r, c) ==
  r.at = "match" => \A j \in Serial \ {Current(r).serial} :
                      PresentIn(r, c, j) => Viewed(r, c, j).slot # Current(r).slot
Covered(r, c) == r.at = "commit" => \A i \in Id : PresentIn(r, c, i) => i \in r.seen

(* Entries that name nothing twice are where they say.                     *)
Placed(r) ==
  /\ \A i \in r.seen : r.own[i].present
  /\ \A n \in 1..r.done : Identity(r.entries[n]) # None =>
       r.own[Identity(r.entries[n])].slot = r.entries[n].slot

Fit(r, c) ==
  /\ Early(r) /\ Progress(r)
  /\ Whole(r) => /\ AsStored(r, c) /\ SlotsDiffer(r) /\ Cleared(r, c) /\ Covered(r, c)
                 /\ Distinct(r.entries) => Placed(r)

(* What was read, while nobody has written it since.                       *)
UpToDate(r, facts, host) ==
  /\ r.at \notin {"idle", "host"} /\ "facts" \notin r.changed => r.read = facts /\ r.gone = {}
  /\ r.at # "idle" /\ "host" \notin r.changed => r.name = host
  /\ r.at = "host" => r.gone = {}

SnapInv ==
  /\ IInv
  /\ \A w \in Worker : Fit(tx[w], comp) /\ UpToDate(tx[w], fact, name)

-----------------------------------------------------------------------------
(* What a SELECT finds is the view.                                        *)
LEMMA SeesView ==
  ASSUME IInv, NEW w \in Worker, NEW i \in Id, AsStored(tx[w], comp)
  PROVE  LET v == Viewed(tx[w], comp, i) IN
         /\ Sees(w, i) = None <=> v = None
         /\ v # None => /\ Sees(w, i).present = v.present /\ Sees(w, i).slot = v.slot
                        /\ Loaded(w, i).present = v.present /\ Loaded(w, i).slot = v.slot
<1> PICK r \in Tx : r = tx[w]
  BY DEF IInv, TypeOK
<1>1. /\ Clean(r) /\ Backed(r) /\ r.own \in [Id -> Row \cup {None}]
      /\ comp \in [Id -> Row \cup {None}]
  BY TxFields DEF IInv, TypeOK, Stored
<1>2. CASE r.own[i] = None
  <2>1. DirtyOf(r, i) = {}
    BY <1>1, <1>2 DEF Clean, DirtyOf
  <2>2. Sees(w, i) = IF comp[i] = None THEN None ELSE Over(comp[i], r.own[i], {})
    BY <2>1 DEF Sees, Field
  <2>3. comp[i] # None => Over(comp[i], r.own[i], {}) \in Row
    BY <1>1 DEF Over, Row, Field
  <2>4. /\ Over(comp[i], r.own[i], {}).present = comp[i].present
        /\ Over(comp[i], r.own[i], {}).slot = comp[i].slot
    BY DEF Over, Field
  <2>5. Loaded(w, i) = Sees(w, i) /\ Viewed(r, comp, i) = comp[i]
    BY <1>2 DEF Loaded, Viewed
  <2> QED
    BY <2>2, <2>3, <2>4, <2>5, NoneIsNothing
<1>3. CASE r.own[i] # None
  <2> PICK F : F = DirtyOf(r, i)
    OBVIOUS
  <2>1. comp[i] # None \/ F = Field
    BY <1>1, <1>3 DEF Backed, DirtyOf
  <2>2. Sees(w, i) = Over(comp[i], r.own[i], F)
    BY <2>1 DEF Sees
  <2>3. Over(comp[i], r.own[i], F) \in Row
    <3>1. r.own[i] \in Row /\ F \in SUBSET Field /\ (comp[i] \in Row \/ F = Field)
      BY <1>1, <1>3, <2>1 DEF DirtyOf
    <3> QED
      BY <3>1, OverType
  <2>4. \A f \in Field : f \in F \/ r.own[i][f] = comp[i][f]
    BY <1>3 DEF AsStored, DirtyOf
  <2>5. /\ Over(comp[i], r.own[i], F).present = r.own[i].present
        /\ Over(comp[i], r.own[i], F).slot = r.own[i].slot
    BY <2>4 DEF Over, Field
  <2>6. Loaded(w, i) = r.own[i] /\ Viewed(r, comp, i) = r.own[i]
    BY <1>3 DEF Loaded, Viewed
  <2> QED
    BY <1>3, <2>2, <2>3, <2>5, <2>6, NoneIsNothing
<1> QED
  BY <1>2, <1>3

LEMMA EntriesType ==
  ASSUME NEW r \in Tx
  PROVE  /\ r.entries \in Seq(Entry) /\ Len(r.entries) \in Nat /\ r.done \in Nat
         /\ DOMAIN r.entries = 1..Len(r.entries)
<1>1. << >> \in Seq(Entry)
  OBVIOUS
<1>2. r.entries \in Snapshot \cup {<< >>} /\ r.done \in Nat
  BY TxFields
<1>3. r.entries \in Seq(Entry)
  BY <1>1, <1>2, SnapshotType
<1> QED
  BY <1>2, <1>3

(* A snapshot that has not come to its components fits any table.          *)
LEMMA NothingYet ==
  ASSUME NEW r \in Tx, NEW c, r.own = NoRows, r.seen = {}, r.done = 0,
         r.at \notin {"match", "commit"}
  PROVE  Fit(r, c)
<1>1. Len(r.entries) \in Nat
  BY EntriesType
<1>2. Progress(r)
  BY <1>1 DEF Progress
<1>3. AsStored(r, c)
  BY DEF AsStored, NoRows
<1>4. SlotsDiffer(r) /\ Cleared(r, c) /\ Covered(r, c) /\ Placed(r)
  BY DEF SlotsDiffer, Cleared, Covered, Placed
<1> QED
  BY <1>2, <1>3, <1>4 DEF Fit, Early

(* The entry at hand.                                                      *)
LEMMA CurrentEntry ==
  ASSUME NEW r \in Tx, More(r)
  PROVE  /\ Current(r) \in Entry /\ Current(r) = r.entries[r.done + 1]
         /\ r.done \in Nat /\ r.done + 1 \in DOMAIN r.entries
         /\ DOMAIN r.entries = 1..Len(r.entries) /\ Len(r.entries) \in Nat
         /\ r.done + 1 <= Len(r.entries)
<1>1. r.entries \in Seq(Entry) /\ r.done \in Nat /\ r.done < Len(r.entries)
  BY TxFields, SnapshotType DEF More
<1> QED
  BY <1>1 DEF Current

(* What an entry names.                                                    *)
LEMMA IdentityType ==
  ASSUME NEW e \in Entry
  PROVE  /\ Identity(e) \in Serial \cup Slot \cup {None}
         /\ Identity(e) \notin Anon
         /\ Identity(e) \in Serial => e.serial = Identity(e) /\ e.serial # None
         /\ Swaps(e) => e.serial \in Serial /\ e.slot \in Slot /\ Identity(e) = e.serial
         /\ Observed(e) # None /\ Observed(e).present /\ Observed(e).slot = e.slot
<1>1. None \notin Serial \cup Slot \cup Anon
  BY NoneIsNothing DEF Id
<1>2. e.serial \in Serial \cup {None} /\ e.slot \in Slot \cup {None}
  BY DEF Entry
<1>3. Observed(e) \in Row /\ Observed(e).present /\ Observed(e).slot = e.slot
  BY <1>2 DEF Observed, Row
<1> QED
  BY <1>1, <1>2, <1>3, KindsDiffer, NoneIsNothing DEF Identity, Swaps

(* The columns that are not written when rows are marked absent ...        *)
LEMMA DroppedStored ==
  ASSUME IInv, NEW w \in Worker, NEW I \in SUBSET PresentTo(w), NEW p, NEW r \in Tx,
         Assigned(w, I, r), Dropped(w, I, p, r), AsStored(tx[w], comp)
  PROVE  AsStored(r, comp)
<1> PICK q \in Tx : q = tx[w]
  BY DEF IInv, TypeOK
<1> SUFFICES ASSUME NEW i \in Id, NEW f \in Field, r.own[i] # None, <<i, f>> \notin r.dirty
             PROVE  r.own[i][f] = comp[i][f]
  BY DEF AsStored
<1>1. <<i, f>> \notin q.dirty
  BY DEF Assigned
<1>2. CASE i \notin I
  <2>1. r.own[i] = q.own[i]
    BY <1>2 DEF Assigned
  <2> QED
    BY <1>1, <2>1 DEF AsStored
<1>3. CASE i \in I
  <2>1. f = "slot" /\ r.own[i].slot = Loaded(w, i).slot
    BY <1>3 DEF Dropped, Field
  <2>2. Sees(w, i) # None
    BY <1>3 DEF Assigned
  <2>3. /\ Viewed(q, comp, i) # None
        /\ Loaded(w, i).slot = Viewed(q, comp, i).slot
    BY <2>2, SeesView
  <2>4. q.own[i] # None => q.own[i].slot = comp[i].slot
    BY <1>1, <2>1 DEF AsStored
  <2>5. Viewed(q, comp, i).slot = comp[i].slot
    BY <2>4 DEF Viewed
  <2> QED
    BY <2>1, <2>3, <2>5
<1> QED
  BY <1>2, <1>3

(* ... and the view then: those rows are absent, the others as they were.  *)
Faded(w, I, r) ==
  /\ \A i \in I : r.own[i] # None /\ r.own[i].present = FALSE
  /\ \A i \in Id : PresentIn(r, comp, i) =>
       /\ i \notin I /\ i \in PresentTo(w)
       /\ Viewed(r, comp, i) = Viewed(tx[w], comp, i)
       /\ Sees(w, i).slot = Viewed(r, comp, i).slot
  /\ \A i \in Id \ I : r.own[i] = tx[w].own[i]

LEMMA DroppedView ==
  ASSUME IInv, NEW w \in Worker, NEW I \in SUBSET PresentTo(w), NEW p, NEW r \in Tx,
         Assigned(w, I, r), Dropped(w, I, p, r), AsStored(tx[w], comp)
  PROVE  Faded(w, I, r)
<1> PICK q \in Tx : q = tx[w]
  BY DEF IInv, TypeOK
<1>1. \A i \in I : r.own[i] # None /\ r.own[i].present = FALSE
  BY DEF Assigned, Dropped
<1>2. \A i \in Id \ I : r.own[i] = q.own[i]
  BY DEF Assigned
<1>3. ASSUME NEW i \in Id, PresentIn(r, comp, i)
      PROVE  /\ i \notin I /\ i \in PresentTo(w)
             /\ Viewed(r, comp, i) = Viewed(q, comp, i)
             /\ Sees(w, i).slot = Viewed(r, comp, i).slot
  <2>1. i \notin I
    BY <1>1, <1>3 DEF PresentIn, Viewed
  <2>2. Viewed(r, comp, i) = Viewed(q, comp, i)
    BY <1>2, <2>1 DEF Viewed
  <2>3. Viewed(q, comp, i) # None /\ Viewed(q, comp, i).present
    BY <1>3, <2>2 DEF PresentIn
  <2>4. /\ Sees(w, i) # None /\ Sees(w, i).present = Viewed(q, comp, i).present
        /\ Sees(w, i).slot = Viewed(q, comp, i).slot
    BY <2>3, SeesView
  <2> QED
    BY <2>1, <2>2, <2>3, <2>4 DEF PresentTo
<1> QED
  BY <1>1, <1>2, <1>3 DEF Faded

LEMMA DroppedProgress ==
  ASSUME IInv, NEW w \in Worker, NEW I \in SUBSET PresentTo(w), NEW p, NEW r \in Tx,
         Assigned(w, I, r), Dropped(w, I, p, r), Progress(tx[w]),
         \/ p = "match" /\ Swaps(Current(tx[w]))
         \/ p = "commit" /\ ~More(tx[w])
  PROVE  Progress(r)
<1> PICK q \in Tx : q = tx[w]
  BY DEF IInv, TypeOK
<1>1. /\ r.entries = q.entries /\ r.done = q.done /\ r.seen = q.seen /\ r.at = p
      /\ q.seen \subseteq Id
  BY TxFields DEF Dropped, Goes
<1>2. r.at = "match" => Swaps(Current(r))
  BY <1>1 DEF Current
<1>3. r.at = "commit" => r.done = Len(r.entries)
  BY <1>1, EntriesType DEF Progress, More
<1>4. \A i \in r.seen : r.own[i] # None
  BY <1>1 DEF Assigned, Progress
<1> QED
  BY <1>1, <1>2, <1>3, <1>4 DEF Progress

(* The component that was in the slot of the entry at hand is none that an *)
(* entry before named, if entries name nothing twice.                      *)
LEMMA SwapSparesSeen ==
  ASSUME IInv, NEW w \in Worker, Progress(tx[w]), AsStored(tx[w], comp),
         Distinct(tx[w].entries), Placed(tx[w]), More(tx[w]), Swaps(Current(tx[w])),
         NEW i \in InSlot(w, Current(tx[w]))
  PROVE  i \notin tx[w].seen
<1> PICK q \in Tx : q = tx[w]
  BY DEF IInv, TypeOK
<1> PICK e \in Entry : e = Current(q) /\ e = q.entries[q.done + 1]
  BY CurrentEntry
<1> SUFFICES ASSUME i \in q.seen PROVE FALSE
  OBVIOUS
<1>1. /\ i \in Serial /\ i \in Id /\ i # e.serial /\ i \in PresentTo(w)
      /\ Sees(w, i).slot = e.slot
  BY DEF InSlot, Id
<1>2. q.own[i] # None /\ Sees(w, i).slot = q.own[i].slot
  <2>1. q.own[i] # None
    BY DEF Progress
  <2>2. Viewed(q, comp, i) = q.own[i]
    BY <2>1 DEF Viewed
  <2> QED
    BY <1>1, <2>1, <2>2, SeesView
<1>3. PICK n \in 1..q.done : Identity(q.entries[n]) = i
  BY <1>1, KindsDiffer DEF Progress
<1>4. /\ q.done + 1 \in DOMAIN q.entries /\ n \in DOMAIN q.entries /\ n # q.done + 1
      /\ q.entries[n] \in Entry
  BY CurrentEntry, EntriesType
<1>5. q.own[i].slot = q.entries[n].slot
  BY <1>1, <1>3, NoneIsNothing DEF Placed
<1>6. Swaps(q.entries[n])
  <2>1. q.entries[n].serial # None
    BY <1>1, <1>3, <1>4, IdentityType
  <2> QED
    BY <1>1, <1>2, <1>5, <2>1 DEF Swaps
<1> QED
  BY <1>1, <1>2, <1>4, <1>5, <1>6 DEF Distinct

(* The slot of the entry at hand is emptied.                               *)
LEMMA SwapFits ==
  ASSUME IInv, NEW w \in Worker, More(tx[w]), Swaps(Current(tx[w])), NEW r \in Tx,
         Assigned(w, InSlot(w, Current(tx[w])), r),
         Dropped(w, InSlot(w, Current(tx[w])), "match", r), Fit(tx[w], comp)
  PROVE  Fit(r, comp)
<1> PICK q \in Tx : q = tx[w]
  BY DEF IInv, TypeOK
<1> PICK e \in Entry : e = Current(q)
  BY CurrentEntry
<1> PICK I : I = InSlot(w, e)
  OBVIOUS
<1>1. /\ I \in SUBSET PresentTo(w) /\ I \in SUBSET Id
      /\ Assigned(w, I, r) /\ Dropped(w, I, "match", r)
  BY DEF InSlot, Id
<1>2. /\ r.entries = q.entries /\ r.done = q.done /\ r.seen = q.seen /\ r.at = "match"
      /\ q.seen \subseteq Id /\ r.changed = q.changed /\ Current(r) = e
  BY TxFields DEF Dropped, Goes, Current
<1>3. Progress(q) /\ Progress(r)
  BY <1>1, DroppedProgress DEF Fit
<1>4. SUFFICES ASSUME Whole(q)
               PROVE  /\ AsStored(r, comp) /\ SlotsDiffer(r) /\ Cleared(r, comp)
                      /\ Covered(r, comp)
                      /\ Distinct(r.entries) => Placed(r)
  BY <1>2, <1>3 DEF Fit, Early, Whole
<1>5. AsStored(q, comp) /\ AsStored(r, comp)
  BY <1>1, <1>4, DroppedStored DEF Fit
<1>6. /\ \A i \in I : r.own[i] # None /\ r.own[i].present = FALSE
      /\ \A i \in Id : PresentIn(r, comp, i) =>
           /\ i \notin I /\ i \in PresentTo(w)
           /\ Viewed(r, comp, i) = Viewed(q, comp, i)
           /\ Sees(w, i).slot = Viewed(r, comp, i).slot
      /\ \A i \in Id \ I : r.own[i] = q.own[i]
  <2>1. Faded(w, I, r)
    BY <1>1, <1>5, DroppedView
  <2> QED
    BY <2>1 DEF Faded
<1>7. SlotsDiffer(r)
  BY <1>2, <1>4, <1>6 DEF SlotsDiffer, Fit
<1>8. Cleared(r, comp)
  <2> SUFFICES ASSUME NEW j \in Serial \ {e.serial}, PresentIn(r, comp, j),
                      Viewed(r, comp, j).slot = e.slot
               PROVE  FALSE
    BY <1>2 DEF Cleared
  <2>1. j \in Id
    BY DEF Id
  <2>2. j \notin I /\ j \in PresentTo(w) /\ Sees(w, j).slot = e.slot
    BY <1>6, <2>1
  <2> QED
    BY <2>2 DEF InSlot
<1>9. ASSUME Distinct(r.entries) PROVE Placed(r)
  <2>1. Distinct(q.entries) /\ Placed(q)
    BY <1>2, <1>4, <1>9 DEF Fit
  <2>2. \A i \in q.seen : i \notin I
    BY <1>3, <1>5, <2>1, SwapSparesSeen
  <2>3. \A i \in q.seen : r.own[i] = q.own[i]
    BY <1>2, <1>6, <2>2
  <2> QED
    BY <1>2, <1>3, <2>1, <2>3 DEF Placed, Progress
<1> QED
  BY <1>2, <1>5, <1>7, <1>8, <1>9 DEF Covered

(* What the snapshot does not name is gone.                                *)
LEMMA FinishFits ==
  ASSUME IInv, NEW w \in Worker, ~More(tx[w]), NEW r \in Tx,
         Assigned(w, Unseen(w), r), Dropped(w, Unseen(w), "commit", r), Fit(tx[w], comp)
  PROVE  Fit(r, comp)
<1> PICK q \in Tx : q = tx[w]
  BY DEF IInv, TypeOK
<1> PICK I : I = Unseen(w)
  OBVIOUS
<1>1. /\ I \in SUBSET PresentTo(w) /\ I \in SUBSET Id /\ I = PresentTo(w) \ q.seen
      /\ Assigned(w, I, r) /\ Dropped(w, I, "commit", r)
  BY DEF Unseen, PresentTo
<1>2. /\ r.entries = q.entries /\ r.done = q.done /\ r.seen = q.seen /\ r.at = "commit"
      /\ q.seen \subseteq Id /\ r.changed = q.changed
  BY TxFields DEF Dropped, Goes
<1>3. Progress(q) /\ Progress(r)
  BY <1>1, DroppedProgress DEF Fit
<1>4. SUFFICES ASSUME Whole(q)
               PROVE  /\ AsStored(r, comp) /\ SlotsDiffer(r) /\ Cleared(r, comp)
                      /\ Covered(r, comp)
                      /\ Distinct(r.entries) => Placed(r)
  BY <1>2, <1>3 DEF Fit, Early, Whole
<1>5. AsStored(q, comp) /\ AsStored(r, comp)
  BY <1>1, <1>4, DroppedStored DEF Fit
<1>6. /\ \A i \in Id : PresentIn(r, comp, i) => i \notin I /\ i \in PresentTo(w)
      /\ \A i \in Id \ I : r.own[i] = q.own[i]
  <2>1. Faded(w, I, r)
    BY <1>1, <1>5, DroppedView
  <2> QED
    BY <2>1 DEF Faded
<1>7. \A i \in q.seen : r.own[i] = q.own[i]
  BY <1>1, <1>2, <1>6
<1>8. SlotsDiffer(r)
  BY <1>2, <1>4, <1>7 DEF SlotsDiffer, Fit
<1>9. Covered(r, comp)
  BY <1>1, <1>2, <1>6 DEF Covered
<1>10. ASSUME Distinct(r.entries) PROVE Placed(r)
  <2>1. Placed(q)
    BY <1>2, <1>4, <1>10 DEF Fit
  <2> QED
    BY <1>2, <1>3, <1>7, <2>1 DEF Placed, Progress
<1> QED
  BY <1>2, <1>5, <1>8, <1>9, <1>10 DEF Cleared

(* The component of the entry at hand is as it says: an entry with serial  *)
(* and slot comes to a slot that was emptied for it.                       *)
LEMMA EntryFits ==
  ASSUME IInv, NEW w \in Worker, MayMatch(w), More(tx[w]), NEW i \in Id, NEW r \in Tx,
         i = Identity(Current(tx[w])) \/ (Identity(Current(tx[w])) = None /\ i \in Anon),
         Entered(w, i, r), Fit(tx[w], comp)
  PROVE  Fit(r, comp)
<1> PICK q \in Tx : q = tx[w]
  BY DEF IInv, TypeOK
<1> PICK e \in Entry : e = Current(q) /\ e = q.entries[q.done + 1]
  BY CurrentEntry
<1>1. /\ Identity(e) \in Serial \cup Slot \cup {None} /\ Identity(e) \notin Anon
      /\ Identity(e) \in Serial => e.serial = Identity(e) /\ e.serial # None
      /\ Observed(e) # None /\ Observed(e).present /\ Observed(e).slot = e.slot
  BY IdentityType
<1>2. /\ r.entries = q.entries /\ r.done = q.done + 1 /\ r.seen = q.seen \cup {i}
      /\ r.at = "swap" /\ q.seen \subseteq Id /\ r.changed = q.changed
      /\ r.own[i] = Observed(e) /\ \A j \in Id \ {i} : r.own[j] = q.own[j]
      /\ q.dirty \subseteq r.dirty
  BY TxFields DEF Entered, Goes
<1>3. /\ q.done \in Nat /\ q.done + 1 \in DOMAIN q.entries
      /\ DOMAIN q.entries = 1..Len(q.entries) /\ Len(q.entries) \in Nat
      /\ q.done + 1 <= Len(q.entries)
      /\ \A n \in 1..q.done : n \in DOMAIN q.entries /\ q.entries[n] \in Entry
      /\ \A n \in 1..(q.done + 1) : n = q.done + 1 \/ n \in 1..q.done
  BY CurrentEntry, EntriesType
<1>4. i \in Serial => Identity(e) = i /\ e.serial = i
  BY <1>1, KindsDiffer
<1>5. Progress(q) /\ Progress(r)
  <2>1. Progress(q)
    BY DEF Fit
  <2>2. ASSUME NEW j \in r.seen
        PROVE  /\ r.own[j] # None
               /\ j \in Anon \/ \E n \in 1..r.done : Identity(r.entries[n]) = j
    <3>1. CASE j = i
      BY <1>1, <1>2, <1>3, <3>1
    <3>2. CASE j # i
      BY <1>2, <1>3, <2>1, <3>2 DEF Progress
    <3> QED
      BY <3>1, <3>2
  <2>3. ASSUME NEW n \in 1..r.done, Identity(r.entries[n]) # None
        PROVE  Identity(r.entries[n]) \in r.seen
    <3>1. CASE n = q.done + 1
      BY <1>2, <2>3, <3>1
    <3>2. CASE n \in 1..q.done
      BY <1>2, <2>1, <2>3, <3>2 DEF Progress
    <3> QED
      BY <1>2, <1>3, <3>1, <3>2
  <2> QED
    BY <1>2, <1>3, <2>1, <2>2, <2>3 DEF Progress
<1>6. SUFFICES ASSUME Whole(q)
               PROVE  /\ AsStored(r, comp) /\ SlotsDiffer(r) /\ Cleared(r, comp)
                      /\ Covered(r, comp)
                      /\ Distinct(r.entries) => Placed(r)
  BY <1>2, <1>5 DEF Fit, Early, Whole
<1>7. AsStored(q, comp) /\ SlotsDiffer(q) /\ Cleared(q, comp)
  BY <1>6 DEF Fit
<1>8. AsStored(r, comp)
  <2> SUFFICES ASSUME NEW j \in Id, NEW f \in Field, r.own[j] # None, <<j, f>> \notin r.dirty
               PROVE  r.own[j][f] = comp[j][f]
    BY DEF AsStored
  <2>1. <<j, f>> \notin q.dirty
    BY <1>2
  <2>2. CASE j # i
    BY <1>2, <1>7, <2>1, <2>2 DEF AsStored
  <2>3. CASE j = i
    <3>1. Sees(w, i) # None /\ r.own[i][f] = Loaded(w, i)[f]
      BY <2>3 DEF Entered
    <3>2. /\ Loaded(w, i).present = Viewed(q, comp, i).present
          /\ Loaded(w, i).slot = Viewed(q, comp, i).slot
      BY <1>7, <3>1, SeesView
    <3>3. Viewed(q, comp, i)[f] = comp[i][f]
      BY <1>7, <2>1, <2>3 DEF Viewed, AsStored
    <3>4. f = "present" \/ f = "slot"
      BY DEF Field
    <3> QED
      BY <2>3, <3>1, <3>2, <3>3, <3>4
  <2> QED
    BY <2>2, <2>3
<1>9. ASSUME NEW j \in Serial \cap q.seen, i \in Serial, j # i, q.own[j].present,
             q.own[j].slot = e.slot
      PROVE  e.slot = None
  <2> SUFFICES ASSUME e.slot # None PROVE FALSE
    OBVIOUS
  <2>1. Swaps(e) /\ j # e.serial
    BY <1>1, <1>4, <1>9 DEF Swaps
  <2>2. q.at = "match"
    BY <2>1 DEF MayMatch
  <2>3. q.own[j] # None
    BY <1>5 DEF Progress
  <2>4. PresentIn(q, comp, j) /\ Viewed(q, comp, j).slot = e.slot
    BY <1>9, <2>3 DEF PresentIn, Viewed
  <2> QED
    BY <1>7, <2>1, <2>2, <2>4 DEF Cleared
<1>10. SlotsDiffer(r)
  <2> SUFFICES ASSUME NEW x \in Serial \cap r.seen, NEW y \in Serial \cap r.seen, x # y,
                      r.own[x].present, r.own[y].present, r.own[x].slot = r.own[y].slot
               PROVE  r.own[x].slot = None
    BY DEF SlotsDiffer
  <2>1. CASE x = i
    <3>1. y \in q.seen /\ r.own[y] = q.own[y] /\ r.own[x].slot = e.slot
      BY <1>1, <1>2, <2>1
    <3> QED
      BY <1>9, <2>1, <3>1
  <2>2. CASE y = i
    <3>1. x \in q.seen /\ r.own[x] = q.own[x] /\ r.own[y].slot = e.slot
      BY <1>1, <1>2, <2>2
    <3> QED
      BY <1>9, <2>2, <3>1
  <2>3. CASE x # i /\ y # i
    BY <1>2, <1>7, <2>3 DEF SlotsDiffer
  <2> QED
    BY <2>1, <2>2, <2>3
<1>11. ASSUME Distinct(r.entries) PROVE Placed(r)
  <2>1. Placed(q) /\ Distinct(q.entries)
    BY <1>2, <1>6, <1>11 DEF Fit
  <2>2. \A j \in r.seen : r.own[j].present
    BY <1>1, <1>2, <2>1 DEF Placed
  <2>3. ASSUME NEW n \in 1..r.done, Identity(r.entries[n]) # None
        PROVE  r.own[Identity(r.entries[n])].slot = r.entries[n].slot
    <3>1. CASE n = q.done + 1
      <4>1. r.entries[n] = e
        BY <1>2, <3>1
      <4>2. i = Identity(e)
        BY <2>3, <4>1
      <4>3. r.own[i].slot = e.slot
        BY <1>1, <1>2
      <4> QED
        BY <4>1, <4>2, <4>3
    <3>2. CASE n \in 1..q.done
      <4>1. Identity(q.entries[n]) \in q.seen /\ n # q.done + 1
        BY <1>2, <1>3, <1>5, <2>3, <3>2 DEF Progress
      <4>2. Identity(q.entries[n]) # Identity(e)
        BY <1>2, <1>3, <2>1, <2>3, <3>2, <4>1 DEF Distinct
      <4>3. Identity(q.entries[n]) \notin Anon
        BY <1>3, <3>2, IdentityType
      <4>4. Identity(q.entries[n]) # i
        BY <4>2, <4>3
      <4> QED
        BY <1>2, <2>1, <2>3, <3>2, <4>1, <4>4 DEF Placed
    <3> QED
      BY <1>2, <1>3, <3>1, <3>2
  <2> QED
    BY <2>2, <2>3 DEF Placed
<1> QED
  BY <1>2, <1>8, <1>10, <1>11 DEF Cleared, Covered

-----------------------------------------------------------------------------
LEMMA FitTypes ==
  ASSUME SnapInv, NEW w \in Worker
  PROVE  /\ tx[w] \in Tx /\ IInv /\ Fit(tx[w], comp) /\ UpToDate(tx[w], fact, name)
         /\ tx \in [Worker -> Tx]
BY DEF SnapInv, IInv, TypeOK

(* A step of one snapshot that commits nothing.                            *)
LEMMA StepSnap ==
  ASSUME SnapInv, IInv', NEW w \in Worker, NEW r \in Tx, tx' = [tx EXCEPT ![w] = r],
         UNCHANGED <<comp, said, fact, told, name, missed>>,
         Fit(r, comp), UpToDate(r, fact, name)
  PROVE  SnapInv'
<1>1. \A v \in Worker : tx'[v] = IF v = w THEN r ELSE tx[v]
  BY FitTypes
<1>2. comp' = comp /\ fact' = fact /\ name' = name
  OBVIOUS
<1>3. ASSUME NEW v \in Worker PROVE Fit(tx'[v], comp') /\ UpToDate(tx'[v], fact', name')
  <2>1. CASE v = w
    BY <1>1, <1>2, <2>1
  <2>2. CASE v # w
    BY <1>1, <1>2, <2>2, FitTypes
  <2> QED
    BY <2>1, <2>2
<1> QED
  BY <1>3 DEF SnapInv

LEMMA InitSnap == Init => SnapInv
<1> SUFFICES ASSUME Init PROVE SnapInv
  OBVIOUS
<1>1. ASSUME NEW w \in Worker PROVE Fit(tx[w], comp) /\ UpToDate(tx[w], fact, name)
  <2>1. tx[w] = Idle
    BY DEF Init
  <2>2. Fit(Idle, comp)
    <3>1. Idle \in Tx /\ Idle.own = NoRows /\ Idle.seen = {} /\ Idle.done = 0 /\ Idle.at = "idle"
      BY IdleType DEF Idle
    <3> QED
      BY <3>1, NothingYet
  <2> QED
    BY <2>1, <2>2, IdleType DEF UpToDate
<1> QED
  BY <1>1, InitInv DEF SnapInv

LEMMA EmptySnap ==
  ASSUME SnapInv, NEW w \in Worker,
         \/ Rollback(w)
         \/ \E s \in Snapshot, f \in Facts : Begin(w, s, f)
         \/ SelectFacts(w)
  PROVE  SnapInv'
<1>1. IInv'
  BY EmptyInv DEF SnapInv
<1>2. CASE Rollback(w)
  <2>1. Idle \in Tx /\ Idle.own = NoRows /\ Idle.seen = {} /\ Idle.done = 0 /\ Idle.at = "idle"
    BY IdleType DEF Idle
  <2>2. Fit(Idle, comp) /\ UpToDate(Idle, fact, name)
    BY <2>1, NothingYet DEF UpToDate
  <2> QED
    BY <1>1, <1>2, <2>1, <2>2, StepSnap DEF Rollback
<1>3. ASSUME NEW s \in Snapshot, NEW f \in Facts, Begin(w, s, f) PROVE SnapInv'
  <2> PICK r : r = [Idle EXCEPT !.at = "host", !.entries = s, !.facts = f, !.name = name]
    OBVIOUS
  <2>1. r \in Tx
    BY IdleType DEF Tx, Step, SnapInv, IInv, TypeOK
  <2>2. /\ r.at = "host" /\ r.own = NoRows /\ r.seen = {} /\ r.done = 0
        /\ r.gone = {} /\ r.name = name
    BY DEF Idle
  <2>3. Fit(r, comp) /\ UpToDate(r, fact, name)
    BY <2>1, <2>2, NothingYet DEF UpToDate
  <2> QED
    BY <1>1, <1>3, <2>1, <2>3, StepSnap DEF Begin
<1>4. CASE SelectFacts(w)
  <2> PICK q \in Tx : q = tx[w]
    BY FitTypes
  <2> PICK r : r = [q EXCEPT !.at = "facts", !.read = fact]
    OBVIOUS
  <2>1. r \in Tx
    BY FitTypes DEF Tx, Step, IInv, TypeOK
  <2>2. /\ tx' = [tx EXCEPT ![w] = r] /\ UNCHANGED <<comp, said, fact, told, name, missed>>
        /\ q.at = "host"
    BY <1>4 DEF SelectFacts
  <2>3. /\ r.at = "facts" /\ r.own = q.own /\ r.seen = q.seen /\ r.done = q.done
        /\ r.read = fact /\ r.gone = q.gone /\ r.name = q.name /\ r.changed = q.changed
    BY DEF Tx
  <2>4. q.own = NoRows /\ q.seen = {} /\ q.done = 0
    BY <2>2, FitTypes DEF Fit, Early
  <2>5. Fit(r, comp)
    BY <2>1, <2>3, <2>4, NothingYet
  <2>6. UpToDate(r, fact, name)
    BY <2>2, <2>3, FitTypes DEF UpToDate
  <2> QED
    BY <1>1, <2>1, <2>2, <2>5, <2>6, StepSnap
<1> QED
  BY <1>2, <1>3, <1>4

LEMMA FlushSnap == ASSUME SnapInv, NEW w \in Worker, FlushFacts(w) PROVE SnapInv'
<1> PICK q \in Tx : q = tx[w]
  BY FitTypes
<1> PICK r : r = [q EXCEPT !.at = "swap"]
  OBVIOUS
<1>1. /\ tx' = [tx EXCEPT ![w] = r] /\ UNCHANGED <<comp, said, fact, told, name, missed>>
      /\ q.at = "facts"
  BY DEF FlushFacts
<1>2. r \in Tx
  BY DEF Tx, Step
<1>3. /\ r.at = "swap" /\ r.own = q.own /\ r.seen = q.seen /\ r.done = q.done
      /\ r.read = q.read /\ r.gone = q.gone /\ r.name = q.name /\ r.changed = q.changed
  BY DEF Tx
<1>4. q.own = NoRows /\ q.seen = {} /\ q.done = 0
  BY <1>1, FitTypes DEF Fit, Early
<1>5. Fit(r, comp)
  BY <1>2, <1>3, <1>4, NothingYet
<1>6. UpToDate(r, fact, name)
  BY <1>1, <1>3, FitTypes DEF UpToDate
<1>7. IInv'
  BY FlushInv DEF SnapInv
<1> QED
  BY <1>1, <1>2, <1>5, <1>6, <1>7, StepSnap

LEMMA GoesUpToDate ==
  ASSUME NEW r, NEW q, Goes(r, q), q.at \notin {"idle", "host"}, r.at # "host",
         UpToDate(q, fact, name)
  PROVE  UpToDate(r, fact, name)
BY DEF Goes, UpToDate

LEMMA SwapSnap == ASSUME SnapInv, NEW w \in Worker, Swap(w) PROVE SnapInv'
<1> PICK I : I = InSlot(w, Current(tx[w]))
  OBVIOUS
<1>1. /\ I \in SUBSET PresentTo(w) /\ AtComponents(w) /\ CanFlush(w)
      /\ More(tx[w]) /\ Swaps(Current(tx[w])) /\ tx[w].at \notin {"idle", "host"}
      /\ UNCHANGED <<comp, said, fact, told, name, missed>>
  BY DEF InSlot, Swap, AtComponents
<1>2. PICK r \in Tx : /\ tx' = [tx EXCEPT ![w] = r]
                      /\ Assigned(w, I, r) /\ Dropped(w, I, "match", r)
  BY <1>1, AbsentShape, FitTypes DEF Swap
<1>3. Fit(r, comp)
  BY <1>1, <1>2, SwapFits, FitTypes
<1>4. UpToDate(r, fact, name)
  BY <1>1, <1>2, GoesUpToDate, FitTypes DEF Dropped
<1>5. IInv'
  BY SwapInv DEF SnapInv
<1> QED
  BY <1>1, <1>2, <1>3, <1>4, <1>5, StepSnap

LEMMA FinishSnap == ASSUME SnapInv, NEW w \in Worker, Finish(w) PROVE SnapInv'
<1> PICK I : I = Unseen(w)
  OBVIOUS
<1>1. /\ I \in SUBSET PresentTo(w) /\ AtComponents(w) /\ CanFlush(w)
      /\ ~More(tx[w]) /\ tx[w].at \notin {"idle", "host"}
      /\ UNCHANGED <<comp, said, fact, told, name, missed>>
  BY DEF Unseen, Finish, AtComponents
<1>2. PICK r \in Tx : /\ tx' = [tx EXCEPT ![w] = r]
                      /\ Assigned(w, I, r) /\ Dropped(w, I, "commit", r)
  BY <1>1, AbsentShape, FitTypes DEF Finish
<1>3. Fit(r, comp)
  BY <1>1, <1>2, FinishFits, FitTypes
<1>4. UpToDate(r, fact, name)
  BY <1>1, <1>2, GoesUpToDate, FitTypes DEF Dropped
<1>5. IInv'
  BY FinishInv DEF SnapInv
<1> QED
  BY <1>1, <1>2, <1>3, <1>4, <1>5, StepSnap

LEMMA MatchWaits ==
  ASSUME SnapInv, NEW w \in Worker, MayMatch(w)
  PROVE  More(tx[w]) /\ tx[w].at \notin {"idle", "host"}
BY DEF SnapInv, IInv, Clean, MayMatch

LEMMA UpdateSnap == ASSUME SnapInv, NEW w \in Worker, Update(w) PROVE SnapInv'
<1>1. /\ MayMatch(w) /\ More(tx[w]) /\ tx[w].at \notin {"idle", "host"}
      /\ UNCHANGED <<comp, said, fact, told, name, missed>>
  BY MatchWaits DEF Update
<1>2. PICK i \in Id : i = Identity(Current(tx[w]))
  BY UpdateShape, FitTypes
<1>3. PICK r \in Tx : tx' = [tx EXCEPT ![w] = r] /\ Entered(w, i, r)
  BY <1>2, UpdateShape, FitTypes
<1>4. Fit(r, comp)
  BY <1>1, <1>2, <1>3, EntryFits, FitTypes
<1>5. UpToDate(r, fact, name)
  BY <1>1, <1>3, GoesUpToDate, FitTypes DEF Entered
<1>6. IInv'
  BY UpdateInv DEF SnapInv
<1> QED
  BY <1>1, <1>3, <1>4, <1>5, <1>6, StepSnap

LEMMA InsertSnap == ASSUME SnapInv, NEW w \in Worker, NEW i \in Id, Insert(w, i) PROVE SnapInv'
<1>1. /\ MayMatch(w) /\ More(tx[w]) /\ tx[w].at \notin {"idle", "host"}
      /\ UNCHANGED <<comp, said, fact, told, name, missed>>
  BY MatchWaits DEF Insert
<1>2. i = Identity(Current(tx[w])) \/ (Identity(Current(tx[w])) = None /\ i \in Anon)
  BY DEF Insert, Rows
<1>3. PICK r \in Tx : tx' = [tx EXCEPT ![w] = r] /\ Entered(w, i, r)
  BY InsertShape, FitTypes
<1>4. Fit(r, comp)
  BY <1>1, <1>2, <1>3, EntryFits, FitTypes
<1>5. UpToDate(r, fact, name)
  BY <1>1, <1>3, GoesUpToDate, FitTypes DEF Entered
<1>6. IInv'
  BY InsertInv DEF SnapInv
<1> QED
  BY <1>1, <1>3, <1>4, <1>5, <1>6, StepSnap

(* A commit tells those that have begun, so what they go on to trust is as *)
(* they read it.                                                           *)
LEMMA CommitSnap == ASSUME SnapInv, NEW w \in Worker, Commit(w) PROVE SnapInv'
<1> PICK q \in Tx : q = tx[w]
  BY FitTypes
<1>w. PICK written : written = Edited(q) \ q.gone
  OBVIOUS
<1>d. PICK D : D = written \cap Removed(q)
  OBVIOUS
<1>t. PICK t : t = Overtaken(w, D, written # {}, Adopts(q))
  OBVIOUS
<1>1. /\ fact' = [k \in Key |-> IF k \in written THEN q.facts[k] ELSE fact[k]]
      /\ name' = IF Adopts(q) THEN q.facts[Hostname] ELSE name
      /\ tx' = t
  BY <1>w, <1>d, <1>t DEF Commit
<1>2. /\ t \in [Worker -> Tx] /\ t[w] = Idle
      /\ \A v \in Worker \ {w} : Same(t[v], tx[v]) /\ Warned(t[v], tx[v], D, written # {}, Adopts(q))
  <2>1. D \in SUBSET Key
    BY <1>d DEF Removed
  <2> QED
    BY <1>t, <2>1, FitTypes, OvertakenShape DEF Left
<1>3. (written = {} => fact' = fact /\ D = {}) /\ (~Adopts(q) => name' = name)
  <2>1. fact \in Facts
    BY DEF SnapInv, IInv, TypeOK
  <2> QED
    BY <1>1, <1>d, <2>1 DEF Facts
<1>4. ASSUME NEW v \in Worker PROVE Fit(t[v], comp') /\ UpToDate(t[v], fact', name')
  <2>1. CASE v = w
    <3>1. Idle \in Tx /\ Idle.own = NoRows /\ Idle.seen = {} /\ Idle.done = 0 /\ Idle.at = "idle"
      BY IdleType DEF Idle
    <3> QED
      BY <1>2, <2>1, <3>1, NothingYet DEF UpToDate
  <2>2. CASE v # w
    <3>1. /\ Same(t[v], tx[v]) /\ Warned(t[v], tx[v], D, written # {}, Adopts(q))
          /\ t[v] \in Tx /\ tx[v] \in Tx /\ Fit(tx[v], comp) /\ UpToDate(tx[v], fact, name)
      BY <1>2, <2>2, FitTypes
    <3>2. Fit(t[v], comp')
      <4>1. CASE tx[v].at \in {"idle", "host", "facts"}
        <5>1. /\ t[v].own = NoRows /\ t[v].seen = {} /\ t[v].done = 0
              /\ t[v].at \notin {"match", "commit"}
          BY <3>1, <4>1 DEF Fit, Early, Same
        <5> QED
          BY <3>1, <5>1, NothingYet
      <4>2. CASE tx[v].at \notin {"idle", "host", "facts"}
        <5>1. ~Whole(t[v])
          BY <3>1, <4>2, TxFields DEF Warned, Whole, Step
        <5>2. Early(t[v]) /\ Progress(t[v])
          BY <3>1 DEF Fit, Same, Early, Progress, Current
        <5> QED
          BY <5>1, <5>2 DEF Fit
      <4> QED
        BY <4>1, <4>2
    <3>3. UpToDate(t[v], fact', name')
      <4>1. ASSUME t[v].at \notin {"idle", "host"}, "facts" \notin t[v].changed
            PROVE  t[v].read = fact' /\ t[v].gone = {}
        <5>1. written = {}
          BY <3>1, <4>1 DEF Warned, Same
        <5> QED
          BY <1>3, <3>1, <4>1, <5>1 DEF Warned, Same, UpToDate
      <4>2. ASSUME t[v].at # "idle", "host" \notin t[v].changed PROVE t[v].name = name'
        <5>1. ~Adopts(q)
          BY <3>1, <4>2 DEF Warned, Same
        <5> QED
          BY <1>3, <3>1, <4>2, <5>1 DEF Same, UpToDate
      <4>3. ASSUME t[v].at = "host" PROVE t[v].gone = {}
        BY <3>1, <4>3 DEF Warned, Same, UpToDate
      <4> QED
        BY <4>1, <4>2, <4>3 DEF UpToDate
    <3> QED
      BY <3>2, <3>3
  <2> QED
    BY <2>1, <2>2
<1>5. IInv'
  BY CommitInv DEF SnapInv
<1> QED
  BY <1>1, <1>4, <1>5 DEF SnapInv

LEMMA StutterSnap == ASSUME SnapInv, UNCHANGED vars PROVE SnapInv'
<1>1. IInv'
  BY StutterInv DEF SnapInv
<1>2. tx' = tx /\ comp' = comp /\ fact' = fact /\ name' = name
  BY DEF vars
<1>3. \A w \in Worker : Fit(tx'[w], comp') /\ UpToDate(tx'[w], fact', name')
  BY <1>2 DEF SnapInv
<1> QED
  BY <1>1, <1>3 DEF SnapInv

LEMMA StepsSnap == ASSUME SnapInv, [Next]_vars PROVE SnapInv'
BY EmptySnap, FlushSnap, SwapSnap, UpdateSnap, FinishSnap, CommitSnap, InsertSnap, StutterSnap
   DEF Next

-----------------------------------------------------------------------------
(* A commit that nothing overtook stores the view.                         *)
LEMMA CommitStores ==
  ASSUME SnapInv, NEW w \in Worker, Commit(w), Whole(tx[w]), NEW i \in Id
  PROVE  LET v == Viewed(tx[w], comp, i) IN
         /\ comp'[i] = None <=> v = None
         /\ v # None => comp'[i].present = v.present /\ comp'[i].slot = v.slot
<1> PICK r \in Tx : r = tx[w]
  BY FitTypes
<1>1. /\ Clean(r) /\ Backed(r) /\ r.own \in [Id -> Row \cup {None}]
      /\ comp \in [Id -> Row \cup {None}] /\ AsStored(r, comp)
  BY TxFields DEF SnapInv, Fit, IInv, TypeOK, Stored
<1>2. comp'[i] = IF r.own[i] = None THEN comp[i] ELSE Over(comp[i], r.own[i], DirtyOf(r, i))
  BY DEF Commit
<1>3. CASE r.own[i] = None
  BY <1>2, <1>3 DEF Viewed
<1>4. CASE r.own[i] # None
  <2> PICK F : F = DirtyOf(r, i)
    OBVIOUS
  <2>1. Over(comp[i], r.own[i], F) \in Row
    <3>1. r.own[i] \in Row /\ F \in SUBSET Field /\ (comp[i] \in Row \/ F = Field)
      BY <1>1, <1>4 DEF DirtyOf, Backed
    <3> QED
      BY <3>1, OverType
  <2>2. \A f \in Field : f \in F \/ r.own[i][f] = comp[i][f]
    BY <1>1, <1>4 DEF AsStored, DirtyOf
  <2>3. /\ Over(comp[i], r.own[i], F).present = r.own[i].present
        /\ Over(comp[i], r.own[i], F).slot = r.own[i].slot
    BY <2>2 DEF Over, Field
  <2> QED
    BY <1>2, <1>4, <2>1, <2>3, NoneIsNothing DEF Viewed
<1> QED
  BY <1>3, <1>4

LEMMA CommitPresent ==
  ASSUME SnapInv, NEW w \in Worker, Commit(w), Whole(tx[w])
  PROVE  /\ \A i \in Present' : /\ i \in tx[w].seen
                                /\ tx[w].own[i].present /\ comp'[i].slot = tx[w].own[i].slot
         /\ \A i \in tx[w].seen : comp'[i].slot = tx[w].own[i].slot
         /\ \A i \in tx[w].seen : tx[w].own[i].present => i \in Present'
<1> PICK r \in Tx : r = tx[w]
  BY FitTypes
<1>1. Covered(r, comp) /\ Progress(r) /\ r.at = "commit" /\ r.seen \subseteq Id
  BY TxFields DEF SnapInv, Fit, Commit
<1>2. ASSUME NEW i \in Present' PROVE i \in r.seen
  <2>1. i \in Id /\ comp'[i] # None /\ comp'[i].present
    BY DEF Present
  <2>2. PresentIn(r, comp, i)
    BY <2>1, CommitStores DEF PresentIn
  <2> QED
    BY <1>1, <2>1, <2>2 DEF Covered
<1>3. ASSUME NEW i \in r.seen
      PROVE  comp'[i] # None /\ comp'[i].slot = r.own[i].slot /\ comp'[i].present = r.own[i].present
  <2>1. i \in Id /\ r.own[i] # None
    BY <1>1 DEF Progress
  <2>2. Viewed(r, comp, i) = r.own[i]
    BY <2>1 DEF Viewed
  <2> QED
    BY <2>1, <2>2, CommitStores
<1> QED
  BY <1>1, <1>2, <1>3 DEF Present

(* A snapshot during which nothing else was committed to the components    *)
(* leaves no slot with two present components that have serials            *)
(* (_find_slot_swap), whatever rows were stored before it.                 *)
THEOREM SlotsHoldOne == Spec => OnePerSlot
<1>1. ASSUME SnapInv, NEW w \in Worker, Commit(w), "components" \notin tx[w].changed,
             NEW i \in Serial \cap Present', NEW j \in Serial \cap Present',
             comp'[i].slot = comp'[j].slot, i # j
      PROVE  comp'[i].slot = None
  <2>1. Whole(tx[w])
    BY <1>1 DEF Whole
  <2>2. SlotsDiffer(tx[w])
    BY <1>1, <2>1, FitTypes DEF Fit
  <2>3. /\ i \in tx[w].seen /\ tx[w].own[i].present /\ comp'[i].slot = tx[w].own[i].slot
        /\ j \in tx[w].seen /\ tx[w].own[j].present /\ comp'[j].slot = tx[w].own[j].slot
    BY <1>1, <2>1, CommitPresent
  <2> QED
    BY <1>1, <2>2, <2>3 DEF SlotsDiffer
<1>2. SnapInv /\ [Next]_vars =>
        [\A w \in Worker : Commit(w) /\ "components" \notin tx[w].changed =>
           \A i, j \in Serial \cap Present' : comp'[i].slot = comp'[j].slot /\ i # j
                                                 => comp'[i].slot = None]_vars
  BY <1>1
<1> QED
  BY <1>2, InitSnap, StepsSnap, PTL DEF Spec, OnePerSlot

(* A snapshot that nothing overtook and that names nothing twice is what   *)
(* is stored when it commits: its facts, the name among them, and its      *)
(* components, present and in their slots, and no others.                  *)
THEOREM SnapshotSettles == Spec => Settles
<1>1. ASSUME SnapInv, NEW w \in Worker, Commit(w), tx[w].changed = {},
             Distinct(tx[w].entries)
      PROVE  LET t == tx[w]
                 named == {Identity(t.entries[n]) : n \in DOMAIN t.entries} \ {None}
             IN /\ fact' = t.facts
                /\ t.facts[Hostname] # None => name' = t.facts[Hostname]
                /\ Present' = named \cup (t.seen \cap Anon)
                /\ \A n \in DOMAIN t.entries : Identity(t.entries[n]) # None =>
                     comp'[Identity(t.entries[n])].slot = t.entries[n].slot
  <2> PICK t \in Tx : t = tx[w]
    BY <1>1, FitTypes
  <2> DEFINE named == {Identity(t.entries[n]) : n \in DOMAIN t.entries} \ {None}
  <2>1. /\ Whole(t) /\ t.at = "commit" /\ t.read = fact /\ t.gone = {} /\ t.name = name
        /\ Progress(t) /\ Placed(t) /\ t.facts \in Facts /\ fact \in Facts
    BY <1>1, FitTypes, TxFields DEF Whole, Commit, UpToDate, Fit, IInv, TypeOK
  <2>2. fact' = t.facts
    <3>1. fact' = [k \in Key |-> IF k \in Edited(t) THEN t.facts[k] ELSE fact[k]]
      BY <1>1, <2>1 DEF Commit
    <3>2. \A k \in Key : fact'[k] = t.facts[k]
      BY <2>1, <3>1 DEF Edited
    <3>3. fact' \in [Key -> Value \cup {None}] /\ t.facts \in [Key -> Value \cup {None}]
      BY <2>1, <3>1 DEF Facts
    <3> QED
      BY <3>2, <3>3
  <2>3. t.facts[Hostname] # None => name' = t.facts[Hostname]
    <3>1. name' = IF Adopts(t) THEN t.facts[Hostname] ELSE name
      BY <1>1 DEF Commit
    <3> QED
      BY <2>1, <3>1 DEF Adopts
  <2>4. /\ \A i \in Present' : i \in t.seen
        /\ \A i \in t.seen : i \in Present' /\ comp'[i].slot = t.own[i].slot
    BY <1>1, <2>1, CommitPresent DEF Placed
  <2>5. DOMAIN t.entries = 1..t.done
    BY <2>1, EntriesType DEF Progress
  <2>6. t.seen = named \cup (t.seen \cap Anon)
    <3>1. ASSUME NEW i \in t.seen PROVE i \in named \/ i \in Anon
      <4>1. i \in Id /\ i # None
        BY TxFields, NoneIsNothing
      <4> QED
        BY <2>1, <2>5, <4>1 DEF Progress
    <3>2. \A i \in named : i \in t.seen
      BY <2>1, <2>5 DEF Progress
    <3> QED
      BY <3>1, <3>2
  <2>7. Present' = named \cup (t.seen \cap Anon)
    <3>1. Present' = t.seen
      BY <2>4
    <3> QED
      BY <2>6, <3>1
  <2>8. \A n \in DOMAIN t.entries : Identity(t.entries[n]) # None =>
          comp'[Identity(t.entries[n])].slot = t.entries[n].slot
    BY <2>1, <2>4, <2>5 DEF Progress, Placed
  <2> QED
    BY <2>2, <2>3, <2>7, <2>8
<1>2. SnapInv /\ [Next]_vars =>
        [\A w \in Worker :
           LET t == tx[w]
               named == {Identity(t.entries[n]) : n \in DOMAIN t.entries} \ {None}
           IN Commit(w) /\ t.changed = {} /\ Distinct(t.entries) =>
                /\ fact' = t.facts
                /\ t.facts[Hostname] # None => name' = t.facts[Hostname]
                /\ Present' = named \cup (t.seen \cap Anon)
                /\ \A n \in DOMAIN t.entries : Identity(t.entries[n]) # None =>
                     comp'[Identity(t.entries[n])].slot = t.entries[n].slot]_vars
  BY <1>1
<1> QED
  BY <1>2, InitSnap, StepsSnap, PTL DEF Spec, Settles
=============================================================================
