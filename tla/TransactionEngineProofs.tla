----------------------- MODULE TransactionEngineProofs -----------------------
(***************************************************************************)
(* Proofs about TransactionEngine, for every schema, every set of rows and *)
(* inputs, any number of transactions and any depth of the call stack.     *)
(*                                                                         *)
(* Integrity holds between calls and not inside them: an update first      *)
(* writes a row and then renames the references to it, one nested call per *)
(* referencing table.  The invariant says which call will repair each      *)
(* reference that dangles, and for a cascade which call will still remove  *)
(* a row that references the record about to go.                           *)
(***************************************************************************)
EXTENDS TransactionEngine, SequenceTheorems, WellFoundedInduction, TLAPS

\* Every foreign key references a primary key or a unique column.  The code
\* accepts any column.
KeyedTargets ==
    \A t \in Table : Target[t] # None =>
        \/ Target[t].column = "id"
        \/ Target[t].column = "val" /\ Target[t].table \in Unique

-----------------------------------------------------------------------------
(* Types                                                                   *)

Storage == [Table -> [Addr -> Row \union {None}]]

Patches == {op.patch : op \in Updates} \union {[ref |-> value] : value \in ReferencedValues}

InsertOps == [kind : {"insert"}, table : Table, row : Row]
UpdateOps == [kind : {"update"}, table : Table, rows : SUBSET Row, patch : Patches]
DeleteOps ==
    [kind : {"delete"}, table : Table, rows : SUBSET Row, behaviour : {"Restrict", "Cascade"}]

Operation == InsertOps \union UpdateOps \union DeleteOps

\* Tables with a foreign key.
Linked == {t \in Table : Target[t] # None}

UpdateFrames ==
    [kind : {"update"}, table : Table, todo : SUBSET Record, cur : Record \union {None},
     refs : SUBSET Linked, patch : Patches]
DeleteFrames ==
    [kind : {"delete"}, table : Table, todo : SUBSET Record, cur : Record \union {None},
     refs : SUBSET Linked, behaviour : {"Restrict", "Cascade"}]

Frame == UpdateFrames \union DeleteFrames

JobType ==
    /\ job = [running |-> job.running, tx |-> job.tx, ops |-> job.ops,
              input |-> job.input, view |-> job.view]
    /\ job.running \in BOOLEAN
    /\ job.ops \in Seq(Operation)

Typed ==
    /\ db \in Storage /\ saved \in Storage
    /\ session \in [Tx -> Seq(Operation) \union {None}]
    /\ JobType
    /\ stack \in Seq(Frame)
    /\ trapped \in BOOLEAN

-----------------------------------------------------------------------------
(* The invariant                                                           *)

\* Primary keys and unique columns hold each value once.
KeysOnce(d) ==
    \A t \in Table : \A a, b \in Addr :
        a # b /\ d[t][a] # None /\ d[t][b] # None =>
            /\ d[t][a].id # d[t][b].id
            /\ t \in Unique => d[t][a].val # d[t][b].val

\* Some row has the value that a foreign key of t names.
Found(d, t, value) ==
    \E b \in Addr :
        /\ d[Target[t].table][b] # None
        /\ d[Target[t].table][b][Target[t].column] = value

\* The row of t at address a references no row.
Dangling(d, t, a) ==
    /\ Target[t] # None
    /\ d[t][a] # None /\ d[t][a].ref # Null
    /\ ~Found(d, t, d[t][a].ref)

Consistent(d) == KeysOnce(d) /\ \A t \in Table, a \in Addr : ~Dangling(d, t, a)

\* An update that will rename the reference (t, a): it still has to visit t
\* because of the value that the reference holds, or it collected the record.
Repairs(d, frame, t, a) ==
    /\ frame.kind = "update"
    /\ \/ /\ frame.table = Target[t].table /\ t \in frame.refs
          /\ frame.cur # None /\ frame.cur.row[Target[t].column] = d[t][a].ref
       \/ frame.table = t /\ \E rec \in frame.todo : rec.addr = a

DanglingIsRepaired(d, s) ==
    \A t \in Table, a \in Addr :
        Dangling(d, t, a) => \E i \in 1 .. Len(s) : Repairs(d, s[i], t, a)

\* A nested delete that will remove the row of c at address a.
Removes(frame, c, a) ==
    /\ frame.table = c
    /\ \/ \E rec \in frame.todo : rec.addr = a
       \/ frame.cur # None /\ frame.cur.addr = a

\* Tables a cascade has visited hold no reference to the record that is about
\* to go, but for the rows that the nested delete has not removed yet.
ReferencesAreRemoved(d, s) ==
    \A i \in 1 .. Len(s) : s[i].kind = "delete" /\ s[i].cur # None =>
        \A c \in Referencing(s[i].table) \ s[i].refs, a \in Addr :
            d[c][a] # None /\ d[c][a].ref = s[i].cur.row[Target[c].column] =>
                i < Len(s) /\ Removes(s[i + 1], c, a)

\* Updates call updates and deletes call deletes.
OneKind(s) == \A i, j \in 1 .. Len(s) : s[i].kind = s[j].kind

\* What a running call keeps true of the rows d and its frames s.
Tended(d, s) ==
    KeysOnce(d) /\ DanglingIsRepaired(d, s) /\ ReferencesAreRemoved(d, s) /\ OneKind(s)

\* The inductive invariant.
IInv ==
    /\ Typed
    /\ ~job.running => stack = <<>>
    /\ Consistent(saved)
    /\ Tended(db, stack)

-----------------------------------------------------------------------------
(* The invariant of a delete                                               *)

\* A delete outside a transaction is running.
Deleting == job.running /\ job.tx = None /\ job.input.kind = "delete"

\* For the delete op, v the rows it started from, d the rows and s the frames
\* it has reached.

\* The record of t at b is gone, or a frame has taken it up and will remove it.
Doomed(d, s, t, b) ==
    \/ d[t][b] = None
    \/ \E i \in 1 .. Len(s) : s[i].table = t /\ s[i].cur # None /\ s[i].cur.addr = b

\* Why the delete may remove the row of t at address a.
Justified(op, v, d, s, t, a) ==
    \/ t = op.table /\ v[t][a] \in op.rows
    \/ /\ op.behaviour = "Cascade" /\ Target[t] # None
       /\ \E b \in Addr :
             /\ v[Target[t].table][b] # None /\ Doomed(d, s, Target[t].table, b)
             /\ v[Target[t].table][b][Target[t].column] = v[t][a].ref

\* Only what is justified is gone.
RemovalsAreJustified(op, v, d, s) ==
    \A t \in Table, a \in Addr :
        d[t][a] # v[t][a] => d[t][a] = None /\ Justified(op, v, d, s, t, a)

\* A collected record is the one that was there, and may go.
RecordIsJustified(op, v, d, s, t, rec) ==
    rec.row = v[t][rec.addr] /\ Justified(op, v, d, s, t, rec.addr)

FrameIsJustified(op, v, d, s, f) ==
    /\ f.kind = "delete" /\ f.behaviour = op.behaviour
    /\ f.refs \subseteq Referencing(f.table)
    /\ f.refs # {} => f.behaviour = "Cascade"
    /\ \A rec \in f.todo : RecordIsJustified(op, v, d, s, f.table, rec)
    /\ f.cur # None => RecordIsJustified(op, v, d, s, f.table, f.cur)

AllIsJustified(op, v, d, s) ==
    /\ RemovalsAreJustified(op, v, d, s)
    /\ \A i \in 1 .. Len(s) : FrameIsJustified(op, v, d, s, s[i])

\* The operation has not begun, or it has and is the last one.
DInv ==
    Deleting =>
        /\ job.input \in DeleteOps
        /\ \/ job.ops = <<job.input>> /\ stack = <<>> /\ db = saved
           \/ job.ops = <<>> /\ AllIsJustified(job.input, saved, db, stack)

-----------------------------------------------------------------------------
(* Frames and stacks                                                       *)

LEMMA FrameFields ==
    ASSUME NEW f \in Frame
    PROVE  /\ f.kind \in {"update", "delete"} /\ f.table \in Table /\ f.refs \subseteq Linked
           /\ f.todo \subseteq Record /\ f.cur \in Record \union {None}
           /\ f.kind = "update" => f \in UpdateFrames /\ f.patch \in Patches
           /\ f.kind = "delete" => f \in DeleteFrames
BY DEF Frame, UpdateFrames, DeleteFrames

\* The innermost frame of a stack replaced by another.
LEMMA ReplaceTop ==
    ASSUME NEW S, NEW s \in Seq(S), s # <<>>, NEW f \in S
    PROVE  LET r == [s EXCEPT ![Len(s)] = f] IN
           /\ Len(s) \in Nat /\ Len(s) >= 1
           /\ r \in Seq(S) /\ Len(r) = Len(s) /\ r[Len(s)] = f
           /\ \A i \in 1 .. Len(s) : i # Len(s) => r[i] = s[i]
<1>1. Len(s) \in Nat /\ Len(s) >= 1
  OBVIOUS
<1>2. DOMAIN s = 1 .. Len(s) /\ Len(s) \in DOMAIN s
  BY <1>1
<1> DEFINE r == [s EXCEPT ![Len(s)] = f]
<1>3. r = [i \in 1 .. Len(s) |-> IF i = Len(s) THEN f ELSE s[i]]
  BY <1>2
<1>4. \A i \in 1 .. Len(s) : s[i] \in S
  OBVIOUS
<1> HIDE DEF r
<1>5. r \in Seq(S) /\ Len(r) = Len(s)
  BY <1>1, <1>3, <1>4
<1>6. r[Len(s)] = f /\ \A i \in 1 .. Len(s) : i # Len(s) => r[i] = s[i]
  BY <1>1, <1>3
<1> QED
  BY <1>1, <1>5, <1>6 DEF r

\* A stack with one more frame.
LEMMA PushFrame ==
    ASSUME NEW S, NEW s \in Seq(S), NEW g \in S
    PROVE  /\ Append(s, g) \in Seq(S) /\ Len(Append(s, g)) = Len(s) + 1
           /\ Append(s, g)[Len(s) + 1] = g
           /\ \A i \in 1 .. Len(s) : Append(s, g)[i] = s[i]
OBVIOUS

\* A stack without its innermost frame.
LEMMA PopFrame ==
    ASSUME NEW S, NEW s \in Seq(S), s # <<>>
    PROVE  LET r == SubSeq(s, 1, Len(s) - 1) IN
           /\ Len(s) \in Nat /\ Len(s) >= 1
           /\ r \in Seq(S) /\ Len(r) = Len(s) - 1
           /\ \A i \in 1 .. Len(s) - 1 : r[i] = s[i]
<1>1. Len(s) \in Nat /\ Len(s) >= 1
  OBVIOUS
<1>2. PICK n \in Nat : n = Len(s) - 1
  BY <1>1
<1>3. \A i \in 1 .. n : s[i] \in S
  BY <1>1, <1>2
<1>4. /\ SubSeq(s, 1, n) \in Seq(S)
      /\ Len(SubSeq(s, 1, n)) = IF 1 <= n THEN n - 1 + 1 ELSE 0
      /\ \A i \in 1 .. n - 1 + 1 : SubSeq(s, 1, n)[i] = s[1 + i - 1]
  BY <1>3, SubSeqProperties
<1>5. /\ Len(SubSeq(s, 1, n)) = n
      /\ \A i \in 1 .. n : SubSeq(s, 1, n)[i] = s[i]
  BY <1>4
<1> QED
  BY <1>1, <1>2, <1>4, <1>5

-----------------------------------------------------------------------------
(* Rows                                                                    *)

\* What a write to storage changes.
LEMMA WriteRow ==
    ASSUME NEW d \in Storage, NEW t \in Table, NEW a \in Addr, NEW v \in Row \union {None}
    PROVE  LET e == [d EXCEPT ![t][a] = v] IN
           /\ e \in Storage
           /\ e[t][a] = v
           /\ \A u \in Table, b \in Addr : u # t \/ b # a => e[u][b] = d[u][b]
BY DEF Storage

\* The rows of a table, by address.
LEMMA CommittedRows ==
    ASSUME db \in Storage, NEW t \in Table
    PROVE  /\ \A a \in Addr : db[t][a] # None => db[t][a] \in Rows(t)
           /\ \A row \in Rows(t) : \E a \in Addr : db[t][a] # None /\ db[t][a] = row
           /\ Committed[t] = Rows(t)
BY DEF Rows, Committed

\* The foreign key check finds a row.
LEMMA ForeignKeyFound ==
    ASSUME db \in Storage, NEW t \in Table, NEW row
    PROVE  CheckForeignKey(Committed, t, row)
               <=> (Target[t] # None /\ row.ref # Null => Found(db, t, row.ref))
<1>1. CASE Target[t] = None
  BY <1>1 DEF CheckForeignKey
<1>2. CASE Target[t] # None
  <2>1. Target[t].table \in Table
    BY <1>2, TargetAssumption
  <2> QED
    BY <1>2, <2>1, CommittedRows DEF CheckForeignKey, Found
<1> QED
  BY <1>1, <1>2

\* A validated insert at a free address.
LEMMA InsertConsistent ==
    ASSUME db \in Storage, Consistent(db), NEW t \in Table, NEW a \in Addr, db[t][a] = None,
           NEW row \in Row, validate_insert(Committed, t, row)
    PROVE  Consistent([db EXCEPT ![t][a] = row])
<1> DEFINE d == [db EXCEPT ![t][a] = row]
<1>1. /\ d \in Storage /\ d[t][a] = row
      /\ \A u \in Table, b \in Addr : u # t \/ b # a => d[u][b] = db[u][b]
  BY WriteRow
<1> HIDE DEF d
<1>2. \A b \in Addr : db[t][b] # None =>
         /\ db[t][b].id # row.id
         /\ t \in Unique => db[t][b].val # row.val
  BY CommittedRows DEF validate_insert
<1>3. KeysOnce(d)
  BY <1>1, <1>2 DEF Consistent, KeysOnce
<1>4. ASSUME NEW u \in Table, Target[u] # None, NEW v, Found(db, u, v)
      PROVE  Found(d, u, v)
  <2>1. Target[u].table \in Table
    BY <1>4, TargetAssumption
  <2> QED
    BY <1>1, <1>4, <2>1 DEF Found
<1>5. ASSUME NEW u \in Table, NEW b \in Addr, Dangling(d, u, b)
      PROVE  FALSE
  <2>1. CASE u = t /\ b = a
    <3>1. Target[t] # None /\ row.ref # Null /\ ~Found(d, t, row.ref)
      BY <1>1, <1>5, <2>1 DEF Dangling
    <3>2. Found(db, t, row.ref)
      BY <3>1, ForeignKeyFound DEF validate_insert
    <3> QED
      BY <1>4, <3>1, <3>2
  <2>2. CASE u # t \/ b # a
    BY <1>1, <1>4, <1>5, <2>2 DEF Consistent, Dangling
  <2> QED
    BY <2>1, <2>2
<1> QED
  BY <1>3, <1>5 DEF Consistent, d

\* The index entries of a version agree with the row on every referenced column.
LEMMA IndexedColumns ==
    ASSUME KeyedTargets, NEW t \in Table, NEW rec, Indexed(t, rec), NEW c \in Referencing(t)
    PROVE  db[t][rec.addr][Target[c].column] = rec.row[Target[c].column]
BY DEF KeyedTargets, Indexed, Referencing

\* A validated update: keys stay unique, and a reference that dangles did so
\* before or referenced the old value of the row.
LEMMA UpdateTended ==
    ASSUME KeyedTargets, db \in Storage, KeysOnce(db), NEW t \in Table, NEW rec \in Record,
           NEW new \in Row, validate_update(t, new, rec.row.id), Indexed(t, rec)
    PROVE  LET d == [db EXCEPT ![t][rec.addr] = new] IN
           /\ KeysOnce(d)
           /\ \A u \in Table, b \in Addr : Dangling(d, u, b) =>
                 \/ /\ Dangling(db, u, b) /\ d[u][b] = db[u][b]
                    /\ u # t \/ b # rec.addr
                 \/ /\ u \in Referencing(t)
                    /\ rec.row[Target[u].column] # new[Target[u].column]
                    /\ d[u][b].ref = rec.row[Target[u].column]
<1> DEFINE a == rec.addr
           d == [db EXCEPT ![t][a] = new]
<1>0. a \in Addr /\ new # None
  BY RowAssumption DEF Record
<1>1. /\ d \in Storage /\ d[t][a] = new
      /\ \A u \in Table, b \in Addr : u # t \/ b # a => d[u][b] = db[u][b]
  BY <1>0, WriteRow
<1>2. db[t][a] # None /\ db[t][a].id = rec.row.id
  BY DEF Indexed
<1> HIDE DEF d
<1>3. \A b \in Addr : b # a /\ db[t][b] # None => db[t][b].id # rec.row.id
  BY <1>0, <1>2 DEF KeysOnce
<1>4. \A b \in Addr : b # a /\ db[t][b] # None => db[t][b].id # new.id
  <2> DEFINE same == {b \in Addr : db[t][b] # None /\ db[t][b].id = new.id}
  <2>1. same = {} \/ new.id = rec.row.id
    BY <1>2 DEF validate_update
  <2> QED
    BY <1>3, <2>1
<1>5. t \in Unique => \A b \in Addr : b # a /\ db[t][b] # None => db[t][b].val # new.val
  BY <1>2, <1>3, CommittedRows DEF validate_update
<1>6. KeysOnce(d)
  BY <1>0, <1>1, <1>4, <1>5 DEF KeysOnce
<1>7. ASSUME NEW u \in Table, Target[u] # None, NEW v, Found(db, u, v), ~Found(d, u, v)
      PROVE  /\ u \in Referencing(t) /\ v = rec.row[Target[u].column]
             /\ rec.row[Target[u].column] # new[Target[u].column]
  <2>1. Target[u].table \in Table
    BY <1>7, TargetAssumption
  <2>2. PICK b \in Addr : /\ db[Target[u].table][b] # None
                          /\ db[Target[u].table][b][Target[u].column] = v
    BY <1>7 DEF Found
  <2>3. Target[u].table = t /\ b = a
    BY <1>1, <1>7, <2>1, <2>2 DEF Found
  <2>4. u \in Referencing(t)
    BY <1>7, <2>3 DEF Referencing
  <2>5. v = rec.row[Target[u].column]
    BY <1>2, <2>2, <2>3, <2>4, IndexedColumns
  <2>6. new[Target[u].column] # v
    BY <1>0, <1>1, <1>7, <2>3 DEF Found
  <2> QED
    BY <2>4, <2>5, <2>6
<1>8. ASSUME NEW u \in Table, NEW b \in Addr, Dangling(d, u, b)
      PROVE  \/ /\ Dangling(db, u, b) /\ d[u][b] = db[u][b]
                /\ u # t \/ b # a
             \/ /\ u \in Referencing(t)
                /\ rec.row[Target[u].column] # new[Target[u].column]
                /\ d[u][b].ref = rec.row[Target[u].column]
  <2>1. Target[u] # None /\ d[u][b].ref # Null /\ ~Found(d, u, d[u][b].ref)
    BY <1>8 DEF Dangling
  <2>2. CASE u = t /\ b = a
    <3>1. Found(db, t, new.ref)
      BY <1>1, <1>2, <2>1, <2>2, ForeignKeyFound DEF validate_update
    <3> QED
      BY <1>1, <1>7, <2>1, <2>2, <3>1
  <2>3. CASE u # t \/ b # a
    <3>1. d[u][b] = db[u][b]
      BY <1>1, <2>3
    <3>2. CASE Found(db, u, d[u][b].ref)
      BY <1>7, <2>1, <3>2
    <3>3. CASE ~Found(db, u, d[u][b].ref)
      BY <1>8, <2>3, <3>1, <3>3 DEF Dangling
    <3> QED
      BY <3>2, <3>3
  <2> QED
    BY <2>2, <2>3
<1> QED
  BY <1>6, <1>8 DEF d

\* A record goes: keys stay unique, and a reference that dangles did so before
\* or referenced the record.
LEMMA DeleteTended ==
    ASSUME KeyedTargets, db \in Storage, KeysOnce(db), NEW t \in Table,
           NEW rec \in Record, Indexed(t, rec)
    PROVE  LET d == [db EXCEPT ![t][rec.addr] = None]
           IN  /\ KeysOnce(d)
               /\ \A u \in Table, b \in Addr : d[u][b] # None =>
                     d[u][b] = db[u][b] /\ (u # t \/ b # rec.addr)
               /\ \A u \in Table, b \in Addr : Dangling(d, u, b) =>
                     \/ Dangling(db, u, b)
                     \/ u \in Referencing(t) /\ d[u][b].ref = rec.row[Target[u].column]
<1> DEFINE a == rec.addr
           d == [db EXCEPT ![t][a] = None]
<1>0. a \in Addr
  BY DEF Record
<1>1. /\ d \in Storage /\ d[t][a] = None
      /\ \A u \in Table, b \in Addr : u # t \/ b # a => d[u][b] = db[u][b]
  BY <1>0, WriteRow
<1> HIDE DEF d
<1>2. \A u \in Table, b \in Addr : d[u][b] # None => d[u][b] = db[u][b] /\ (u # t \/ b # a)
  BY <1>1
<1>3. KeysOnce(d)
  BY <1>2 DEF KeysOnce
<1>4. ASSUME NEW u \in Table, NEW b \in Addr, Dangling(d, u, b), ~Dangling(db, u, b)
      PROVE  u \in Referencing(t) /\ d[u][b].ref = rec.row[Target[u].column]
  <2>1. /\ Target[u] # None /\ d[u][b] # None /\ d[u][b].ref # Null
        /\ ~Found(d, u, d[u][b].ref) /\ d[u][b] = db[u][b]
    BY <1>2, <1>4 DEF Dangling
  <2>2. Found(db, u, d[u][b].ref) /\ Target[u].table \in Table
    BY <1>4, <2>1, TargetAssumption DEF Dangling
  <2>3. PICK h \in Addr : /\ db[Target[u].table][h] # None
                          /\ db[Target[u].table][h][Target[u].column] = d[u][b].ref
    BY <2>2 DEF Found
  <2>4. Target[u].table = t /\ h = a
    BY <1>1, <2>1, <2>2, <2>3 DEF Found
  <2>5. u \in Referencing(t)
    BY <2>1, <2>4 DEF Referencing
  <2> QED
    BY <2>3, <2>4, <2>5, IndexedColumns
<1> QED
  BY <1>2, <1>3, <1>4 DEF d

-----------------------------------------------------------------------------
(* The invariant holds                                                     *)

\* Consistent rows need no frames.
LEMMA ConsistentTended ==
    ASSUME NEW d
    PROVE  Consistent(d) <=> Tended(d, <<>>)
BY DEF Consistent, Tended, DanglingIsRepaired, ReferencesAreRemoved, OneKind

LEMMA InitIInv == Init => IInv
<1> SUFFICES ASSUME Init PROVE IInv
  OBVIOUS
<1>1. /\ db \in Storage /\ saved = db
      /\ \A t \in Table, a \in Addr : db[t][a] = None
  BY DEF Init, Storage
<1>2. Consistent(db)
  BY <1>1 DEF Consistent, KeysOnce, Dangling
<1>3. session \in [Tx -> Seq(Operation) \union {None}] /\ JobType
  BY DEF Init, JobType, NoJob
<1>4. stack \in Seq(Frame)
  BY DEF Init
<1>5. trapped \in BOOLEAN
  BY Zenon DEF Init
<1>6. Typed
  BY <1>1, <1>3, <1>4, <1>5 DEF Typed
<1> QED
  BY <1>1, <1>2, <1>6, ConsistentTended DEF Init, IInv

\* A failed call leaves the rows it found.
LEMMA AbortStep ==
    ASSUME IInv, Abort
    PROVE  IInv'
<1>1. Typed'
  BY DEF IInv, Typed, Abort, JobType, NoJob
<1>2. Consistent(saved) /\ Tended(db', stack')
  BY ConsistentTended DEF IInv, Abort
<1> QED
  BY <1>1, <1>2 DEF IInv, Abort, NoJob

\* The inputs are operations, and narrowing a filter keeps them so.
LEMMA InputsTyped ==
    /\ \A op \in Inserts : op \in InsertOps
    /\ \A op \in Updates : op \in UpdateOps
    /\ \A op \in Deletes : op \in DeleteOps
    /\ \A op \in UpdateOps : \A view : [op EXCEPT !.rows = @ \intersect view] \in UpdateOps
    /\ \A op \in DeleteOps : \A view : [op EXCEPT !.rows = @ \intersect view] \in DeleteOps
<1>1. \A op \in Inserts : op \in InsertOps
  BY InputsAssumption DEF InsertOps, InsertOp
<1>2. \A op \in Updates : op \in UpdateOps
  BY InputsAssumption DEF UpdateOps, UpdateOp, Patches
<1>3. \A op \in Deletes : op \in DeleteOps
  BY InputsAssumption DEF DeleteOps, DeleteOp
<1>4. \A op \in UpdateOps : \A view : [op EXCEPT !.rows = @ \intersect view] \in UpdateOps
  BY DEF UpdateOps
<1>5. \A op \in DeleteOps : \A view : [op EXCEPT !.rows = @ \intersect view] \in DeleteOps
  BY DEF DeleteOps
<1> QED
  BY <1>1, <1>2, <1>3, <1>4, <1>5

\* Staging changes the session alone.
LEMMA StageStep ==
    ASSUME IInv, NEW x \in Tx, NEW op \in Operation, Stage(x, op)
    PROVE  IInv'
<1>1. session[x] \in Seq(Operation)
  BY DEF IInv, Typed, Stage
<1>2. Append(session[x], op) \in Seq(Operation)
  BY <1>1
<1>3. session' \in [Tx -> Seq(Operation) \union {None}]
  BY <1>2 DEF IInv, Typed, Stage
<1> QED
  BY <1>3 DEF IInv, Typed, Stage, JobType

\* Sessions open and close, calls start.
LEMMA CallStep ==
    ASSUME IInv,
           \/ \E x \in Tx : begin_transaction(x) \/ rollback(x) \/ commit(x)
           \/ \E op \in Inserts \union Updates \union Deletes : Oneshot(op)
    PROVE  IInv'
<1>1. ASSUME NEW x \in Tx, begin_transaction(x) \/ rollback(x)
      PROVE  IInv'
  <2>1. <<>> \in Seq(Operation)
    OBVIOUS
  <2>2. session' \in [Tx -> Seq(Operation) \union {None}]
    BY <1>1, <2>1 DEF IInv, Typed, begin_transaction, rollback
  <2> QED
    BY <1>1, <2>2 DEF IInv, Typed, JobType, begin_transaction, rollback
<1>2. ASSUME Idle, NEW ops \in Seq(Operation), NEW x, NEW input, NEW view,
             job' = [running |-> TRUE, tx |-> x, ops |-> ops, input |-> input, view |-> view],
             session' \in [Tx -> Seq(Operation) \union {None}], saved' = db,
             UNCHANGED <<db, stack, trapped>>
      PROVE  IInv'
  <2>1. Consistent(db) /\ stack = <<>>
    BY <1>2, ConsistentTended DEF IInv, Idle
  <2>2. Typed'
    BY <1>2 DEF IInv, Typed, JobType
  <2>3. Tended(db', stack') /\ Consistent(saved')
    BY <1>2, <2>1, ConsistentTended
  <2> QED
    BY <1>2, <2>2, <2>3 DEF IInv
<1>3. ASSUME NEW x \in Tx, commit(x)
      PROVE  IInv'
  <2>1. /\ session' \in [Tx -> Seq(Operation) \union {None}]
        /\ session[x] \in Seq(Operation)
    BY <1>3 DEF IInv, Typed, commit
  <2> QED
    BY <1>2, <1>3, <2>1 DEF commit
<1>4. ASSUME NEW op \in Inserts \union Updates \union Deletes, Oneshot(op)
      PROVE  IInv'
  <2>1. op \in Operation
    BY InputsTyped DEF Operation
  <2>2. <<op>> \in Seq(Operation) /\ session' \in [Tx -> Seq(Operation) \union {None}]
    BY <1>4, <2>1 DEF Oneshot, IInv, Typed
  <2> QED
    BY <1>2, <1>4, <2>2 DEF Oneshot
<1> QED
  BY <1>1, <1>3, <1>4

LEMMA FinishStep ==
    ASSUME IInv, Finish
    PROVE  IInv'
<1>1. Consistent(db)
  BY ConsistentTended DEF IInv, Finish
<1>2. Typed'
  BY DEF IInv, Typed, Finish, JobType, NoJob
<1> QED
  BY <1>1, <1>2, ConsistentTended DEF IInv, Finish, NoJob

\* The operation at hand is an operation, and the rest are.
LEMMA HeadTyped ==
    ASSUME IInv, job.ops # <<>>
    PROVE  /\ Head(job.ops) \in Operation /\ Tail(job.ops) \in Seq(Operation)
           /\ job.running => JobType /\ [job EXCEPT !.ops = Tail(@)]
                  = [running |-> TRUE, tx |-> job.tx, ops |-> Tail(job.ops),
                     input |-> job.input, view |-> job.view]
<1>1. job.ops \in Seq(Operation)
  BY DEF IInv, Typed, JobType
<1>2. Head(job.ops) \in Operation /\ Tail(job.ops) \in Seq(Operation)
  BY <1>1
<1>3. job.running => job.running = TRUE
  BY Zenon DEF IInv, Typed, JobType
<1>4. job = [running |-> job.running, tx |-> job.tx, ops |-> job.ops,
             input |-> job.input, view |-> job.view]
  BY DEF IInv, Typed, JobType
<1>5. [job EXCEPT !.ops = Tail(@)]
          = [running |-> job.running, tx |-> job.tx, ops |-> Tail(job.ops),
             input |-> job.input, view |-> job.view]
  BY <1>4, SMTT(30)
<1> QED
  BY <1>2, <1>3, <1>5 DEF IInv, Typed

\* The next operation is taken off the job: what is left to show.
LEMMA TakeOperation ==
    ASSUME IInv, Running, job.ops # <<>>, job' = [job EXCEPT !.ops = Tail(@)],
           db' \in Storage, stack' \in Seq(Frame), Tended(db', stack'),
           UNCHANGED <<session, saved, trapped>>
    PROVE  IInv'
<1>1. Typed' /\ job'.running
  BY HeadTyped DEF IInv, Typed, JobType, Running
<1> QED
  BY <1>1 DEF IInv

LEMMA InsertStep ==
    ASSUME IInv, RunInsert
    PROVE  IInv'
<1> DEFINE op == Head(job.ops)
           free == Free(op.table)
           first == CHOOSE a \in free : \A b \in free : a <= b
           row == Sanitize(op.table, op.row)
<1>1. /\ Running /\ stack = <<>> /\ job.ops # <<>> /\ op.kind = "insert" /\ InsertFits(op)
      /\ db' = [db EXCEPT ![op.table][first] = row]
      /\ job' = [job EXCEPT !.ops = Tail(@)]
      /\ UNCHANGED <<session, stack, saved, trapped>>
  BY DEF RunInsert, AtOperation
<1>2. op.table \in Table /\ op.row \in Row
  BY <1>1, HeadTyped DEF Operation, InsertOps, UpdateOps, DeleteOps
<1>3. row \in Row /\ validate_insert(Committed, op.table, row) /\ free # {}
  BY <1>1, <1>2, RowAssumption DEF InsertFits
<1>4. \E a \in free : \A b \in free : a <= b
  <2>1. free \subseteq Nat
    BY DEF Free, Addr
  <2> HIDE DEF free
  <2>2. PICK a \in free : \A b \in free : <<b, a>> \notin OpToRel(<, Nat)
    BY <1>3, <2>1, NatLessThanWellFounded, WFMin
  <2>3. \A b, c \in Nat : b < c => <<b, c>> \in OpToRel(<, Nat)
    BY DEF OpToRel
  <2>4. \A b \in free : ~(b < a)
    BY <2>1, <2>2, <2>3
  <2> QED
    BY <2>1, <2>4
<1>5. first \in free
  BY <1>4
<1> HIDE DEF first, row
<1>6. first \in Addr /\ db[op.table][first] = None
  BY <1>5 DEF Free
<1>7. db \in Storage /\ Consistent(db)
  BY <1>1, ConsistentTended DEF IInv, Typed
<1>8. Consistent(db') /\ db' \in Storage
  <2>1. Consistent([db EXCEPT ![op.table][first] = row])
    BY <1>2, <1>3, <1>6, <1>7, InsertConsistent
  <2>2. [db EXCEPT ![op.table][first] = row] \in Storage
    BY <1>2, <1>3, <1>6, <1>7, WriteRow
  <2> QED
    BY <1>1, <2>1, <2>2, Zenon
<1>9. stack' \in Seq(Frame) /\ Tended(db', stack')
  BY <1>1, <1>8, ConsistentTended DEF IInv, Typed
<1> QED
  BY <1>1, <1>8, <1>9, TakeOperation

\* Collected records are records, with the version that is stored.
LEMMA MatchingRecords ==
    ASSUME db \in Storage, NEW t \in Table, NEW filter
    PROVE  /\ Matching(t, filter) \subseteq Record
           /\ \A rec \in Matching(t, filter) : db[t][rec.addr] = rec.row /\ rec.row \in filter
           /\ \A a \in Addr : db[t][a] # None /\ db[t][a] \in filter =>
                 \E rec \in Matching(t, filter) : rec.addr = a
<1>1. \A a \in Addr : db[t][a] # None => db[t][a] \in Row
  BY DEF Storage
<1>2. ASSUME NEW rec \in Matching(t, filter)
      PROVE  rec \in Record /\ db[t][rec.addr] = rec.row /\ rec.row \in filter
  BY <1>1, <1>2 DEF Matching, Record
<1>3. ASSUME NEW a \in Addr, db[t][a] # None, db[t][a] \in filter
      PROVE  \E rec \in Matching(t, filter) : rec.addr = a
  <2>1. [addr |-> a, row |-> db[t][a]] \in Matching(t, filter)
    BY <1>3 DEF Matching
  <2> QED
    BY <2>1
<1> QED
  BY <1>2, <1>3

LEMMA OperationStep ==
    ASSUME IInv, RunOperation
    PROVE  IInv'
<1> DEFINE op == Head(job.ops)
           f == OperationFrame(op)
<1>1. /\ Running /\ stack = <<>> /\ job.ops # <<>> /\ op.kind \in {"delete", "update"}
      /\ stack' = <<f>> /\ job' = [job EXCEPT !.ops = Tail(@)]
      /\ UNCHANGED <<db, session, saved, trapped>>
  BY DEF RunOperation, AtOperation
<1>2. \/ op.kind = "delete" /\ op \in DeleteOps
      \/ op.kind = "update" /\ op \in UpdateOps
  BY <1>1, HeadTyped DEF Operation, InsertOps, UpdateOps, DeleteOps
<1>3. op.table \in Table /\ Matching(op.table, op.rows) \subseteq Record
  BY <1>2, MatchingRecords DEF UpdateOps, DeleteOps, IInv, Typed
<1>4. f \in Frame /\ f.cur = None
  <2>1. CASE op.kind = "delete"
    BY <1>2, <1>3, <2>1 DEF OperationFrame, DeleteFrame, DeleteOps, Frame, DeleteFrames
  <2>2. CASE op.kind = "update"
    BY <1>2, <1>3, <2>2 DEF OperationFrame, UpdateFrame, UpdateOps, Frame, UpdateFrames
  <2> QED
    BY <1>2, <2>1, <2>2
<1> HIDE DEF f
<1>5. stack' \in Seq(Frame) /\ Len(stack') = 1 /\ stack'[1] = f
  BY <1>1, <1>4
<1>6. Consistent(db)
  BY <1>1, ConsistentTended DEF IInv
<1>7. Tended(db, stack')
  BY <1>4, <1>5, <1>6
     DEF Consistent, Tended, DanglingIsRepaired, ReferencesAreRemoved, OneKind
<1> QED
  BY <1>1, <1>5, <1>7, TakeOperation DEF IInv, Typed

\* Inside a call: what is left to show.
LEMMA FrameStep ==
    ASSUME IInv, Running, db' \in Storage, stack' \in Seq(Frame), Tended(db', stack'),
           trapped' \in BOOLEAN, UNCHANGED <<job, session, saved>>
    PROVE  IInv'
<1>1. Typed'
  BY DEF IInv, Typed, JobType
<1> QED
  BY <1>1 DEF IInv, Running

\* The innermost frame.
LEMMA TopFrame ==
    ASSUME IInv, stack # <<>>
    PROVE  /\ Len(stack) \in Nat /\ Len(stack) >= 1 /\ Len(stack) \in 1 .. Len(stack)
           /\ Top = stack[Len(stack)] /\ Top \in Frame
           /\ \A i \in 1 .. Len(stack) : stack[i] \in Frame /\ stack[i].kind = Top.kind
<1>1. stack \in Seq(Frame) /\ OneKind(stack)
  BY DEF IInv, Typed, Tended
<1>2. Len(stack) \in Nat /\ Len(stack) >= 1 /\ Len(stack) \in 1 .. Len(stack)
  BY <1>1
<1> QED
  BY <1>1, <1>2 DEF Top, OneKind

\* A frame that is done covers nothing.
LEMMA ReturnStep ==
    ASSUME IInv, Return
    PROVE  IInv'
<1> DEFINE n == Len(stack)
           s == SubSeq(stack, 1, n - 1)
<1>1. /\ Running /\ stack # <<>> /\ Top.todo = {} /\ Top.cur = None /\ stack' = s
      /\ UNCHANGED <<db, job, session, saved, trapped>>
  BY DEF Return
<1>2. /\ stack \in Seq(Frame) /\ KeysOnce(db) /\ DanglingIsRepaired(db, stack)
      /\ ReferencesAreRemoved(db, stack) /\ OneKind(stack) /\ trapped \in BOOLEAN
  BY DEF IInv, Typed, Tended
<1>3. /\ n \in Nat /\ n >= 1 /\ s \in Seq(Frame) /\ Len(s) = n - 1
      /\ \A i \in 1 .. n - 1 : s[i] = stack[i]
  BY <1>1, <1>2, PopFrame
<1>4. stack[n].todo = {} /\ stack[n].cur = None
  BY <1>1 DEF Top
<1> HIDE DEF s, n
<1>5. DanglingIsRepaired(db, s)
  <2> SUFFICES ASSUME NEW t \in Table, NEW a \in Addr, Dangling(db, t, a)
               PROVE  \E i \in 1 .. Len(s) : Repairs(db, s[i], t, a)
    BY DEF DanglingIsRepaired
  <2>1. PICK i \in 1 .. n : Repairs(db, stack[i], t, a)
    BY <1>2 DEF DanglingIsRepaired, n
  <2>2. i # n
    BY <1>4, <2>1 DEF Repairs
  <2>3. i \in 1 .. Len(s) /\ s[i] = stack[i]
    BY <1>3, <2>2
  <2> QED
    BY <2>1, <2>3
<1>6. ReferencesAreRemoved(db, s)
  <2> SUFFICES ASSUME NEW i \in 1 .. Len(s), s[i].kind = "delete", s[i].cur # None,
                      NEW c \in Referencing(s[i].table) \ s[i].refs, NEW a \in Addr,
                      db[c][a] # None, db[c][a].ref = s[i].cur.row[Target[c].column]
               PROVE  i < Len(s) /\ Removes(s[i + 1], c, a)
    BY DEF ReferencesAreRemoved
  <2>1. i \in 1 .. n /\ s[i] = stack[i] /\ i + 1 \in 1 .. n
    BY <1>3
  <2>2. Removes(stack[i + 1], c, a)
    BY <1>2, <2>1 DEF ReferencesAreRemoved, n
  <2>3. i + 1 # n
    BY <1>4, <2>2 DEF Removes
  <2> QED
    BY <1>3, <2>1, <2>2, <2>3
<1>7. OneKind(s)
  BY <1>2, <1>3 DEF OneKind, n
<1> QED
  BY <1>1, <1>2, <1>3, <1>5, <1>6, <1>7, FrameStep DEF Tended, s, IInv, Typed

\* A delete takes up the next record it collected.
LEMMA TakeUpStep ==
    ASSUME IInv, NEW rec, NextDelete(rec)
    PROVE  IInv'
<1> DEFINE n == Len(stack)
           refs == IF Top.behaviour = "Cascade" THEN Referencing(Top.table) ELSE {}
           f == [Top EXCEPT !.todo = @ \ {rec}, !.cur = rec, !.refs = refs]
           s == [stack EXCEPT ![n] = f]
<1>1. /\ Running /\ stack # <<>> /\ Top.kind = "delete" /\ Top.cur = None /\ rec \in Top.todo
      /\ Top.behaviour = "Restrict" => ~Referenced(Top.table, rec.row)
      /\ stack' = s /\ UNCHANGED <<db, job, session, saved, trapped>>
  BY DEF NextDelete, InFrame, SetTop
<1>2. /\ stack \in Seq(Frame) /\ KeysOnce(db) /\ DanglingIsRepaired(db, stack)
      /\ ReferencesAreRemoved(db, stack) /\ db \in Storage /\ trapped \in BOOLEAN
  BY DEF IInv, Typed, Tended
<1>3. /\ n \in Nat /\ n >= 1 /\ n \in 1 .. n /\ Top = stack[n]
      /\ \A i \in 1 .. n : stack[i] \in Frame /\ stack[i].kind = "delete"
  BY <1>1, TopFrame
<1>4. Top \in DeleteFrames /\ Top.table \in Table
  BY <1>1, <1>3, FrameFields
<1>5. /\ f \in DeleteFrames /\ f \in Frame /\ f.kind = "delete" /\ f.table = Top.table
      /\ f.cur = rec /\ f.todo = Top.todo \ {rec} /\ f.refs = refs
  <2>1. refs \subseteq Linked
    BY DEF Referencing, Linked
  <2> HIDE DEF refs
  <2> QED
    BY <1>1, <1>4, <2>1 DEF DeleteFrames, Frame
<1> HIDE DEF f
<1>6. /\ s \in Seq(Frame) /\ Len(s) = n /\ s[n] = f
      /\ \A i \in 1 .. n : i # n => s[i] = stack[i]
  BY <1>1, <1>2, <1>5, ReplaceTop
<1> HIDE DEF s, n
<1>7. \A t \in Table, a \in Addr : ~Dangling(db, t, a)
  BY <1>2, <1>3 DEF DanglingIsRepaired, Repairs, n
<1>8. ReferencesAreRemoved(db, s)
  <2> SUFFICES ASSUME NEW i \in 1 .. Len(s), s[i].kind = "delete", s[i].cur # None,
                      NEW c \in Referencing(s[i].table) \ s[i].refs, NEW a \in Addr,
                      db[c][a] # None, db[c][a].ref = s[i].cur.row[Target[c].column]
               PROVE  i < Len(s) /\ Removes(s[i + 1], c, a)
    BY DEF ReferencesAreRemoved
  <2>1. CASE i = n
    <3>1. c \in Referencing(Top.table) \ refs /\ db[c][a].ref = rec.row[Target[c].column]
      BY <1>5, <1>6, <2>1
    <3>2. Top.behaviour = "Restrict"
      BY <1>4, <3>1 DEF DeleteFrames
    <3>3. db[c][a] \in ReferencesTo(c, rec.row[Target[c].column])
      BY <3>1 DEF ReferencesTo, Rows
    <3> QED
      BY <1>1, <3>1, <3>2, <3>3 DEF Referenced
  <2>2. CASE i # n
    <3>1. i \in 1 .. n /\ s[i] = stack[i] /\ i < n /\ i + 1 \in 1 .. n
      BY <1>3, <1>6, <2>2
    <3>2. Removes(stack[i + 1], c, a)
      BY <1>2, <3>1 DEF ReferencesAreRemoved, n
    <3>3. CASE i + 1 = n
      <4>1. Removes(f, c, a)
        BY <1>1, <1>3, <1>5, <3>2, <3>3, RowAssumption, <1>4 DEF Removes, DeleteFrames
      <4> QED
        BY <1>6, <3>1, <3>3, <4>1
    <3>4. CASE i + 1 # n
      BY <1>6, <3>1, <3>2, <3>4
    <3> QED
      BY <3>3, <3>4
  <2> QED
    BY <2>1, <2>2
<1>9. OneKind(s) /\ DanglingIsRepaired(db, s)
  BY <1>3, <1>5, <1>6, <1>7 DEF OneKind, DanglingIsRepaired
<1> QED
  BY <1>1, <1>2, <1>6, <1>8, <1>9, FrameStep DEF Tended

\* A call puts a frame on the stack, or traps and leaves it.
LEMMA CallFrame ==
    ASSUME IInv, stack # <<>>, NEW f \in Frame, NEW g \in Frame, Call(f, g)
    PROVE  \/ UNCHANGED stack /\ trapped' \in BOOLEAN
           \/ /\ trapped' \in BOOLEAN
              /\ Len(stack') = Len(stack) + 1 /\ stack' \in Seq(Frame)
              /\ stack'[Len(stack)] = f /\ stack'[Len(stack) + 1] = g
              /\ \A i \in 1 .. Len(stack) : i # Len(stack) => stack'[i] = stack[i]
<1> DEFINE r == [stack EXCEPT ![Len(stack)] = f]
<1>1. stack \in Seq(Frame) /\ trapped \in BOOLEAN
  BY DEF IInv, Typed
<1>2. CASE Len(stack) < MaxStack
  <2>1. stack' = Append(r, g) /\ trapped' \in BOOLEAN
    BY <1>1, <1>2, Zenon DEF Call
  <2>2. /\ Len(stack) \in Nat /\ Len(stack) >= 1
        /\ r \in Seq(Frame) /\ Len(r) = Len(stack) /\ r[Len(stack)] = f
        /\ \A i \in 1 .. Len(stack) : i # Len(stack) => r[i] = stack[i]
    BY <1>1, ReplaceTop
  <2> HIDE DEF r
  <2>3. /\ stack' \in Seq(Frame) /\ Len(stack') = Len(r) + 1
        /\ stack'[Len(r) + 1] = g
        /\ \A i \in 1 .. Len(r) : stack'[i] = r[i]
    BY <2>1, <2>2, PushFrame
  <2> QED
    BY <2>1, <2>2, <2>3
<1>3. CASE ~(Len(stack) < MaxStack)
  <2>1. UNCHANGED stack /\ trapped' \in BOOLEAN
    BY <1>3, Zenon DEF Call
  <2> QED
    BY <2>1
<1> QED
  BY <1>2, <1>3

\* The frame of a nested call collects every row that holds the value.
LEMMA Collected ==
    ASSUME db \in Storage, NEW c \in Table, NEW value
    PROVE  /\ Matching(c, ReferencesTo(c, value)) \subseteq Record
           /\ \A a \in Addr : db[c][a] # None /\ db[c][a].ref = value =>
                 \E rec \in Matching(c, ReferencesTo(c, value)) : rec.addr = a
<1>1. \A a \in Addr : db[c][a] # None /\ db[c][a].ref = value =>
         db[c][a] \in ReferencesTo(c, value)
  BY CommittedRows DEF ReferencesTo
<1> QED
  BY <1>1, MatchingRecords

LEMMA CascadeStep ==
    ASSUME IInv, NEW c \in Table, delete_foreign_keys_cascade(c)
    PROVE  IInv'
<1> DEFINE n == Len(stack)
           value == Top.cur.row[Target[c].column]
           f == [Top EXCEPT !.refs = @ \ {c}]
           g == DeleteFrame(c, ReferencesTo(c, value), "Cascade")
<1>1. /\ Running /\ stack # <<>> /\ Top.kind = "delete" /\ Top.cur # None /\ c \in Top.refs
      /\ Call(f, g) /\ UNCHANGED <<db, job, session, saved>>
  BY DEF delete_foreign_keys_cascade, InFrame
<1>2. /\ stack \in Seq(Frame) /\ KeysOnce(db) /\ DanglingIsRepaired(db, stack)
      /\ ReferencesAreRemoved(db, stack) /\ db \in Storage
  BY DEF IInv, Typed, Tended
<1>3. /\ n \in Nat /\ n >= 1 /\ n \in 1 .. n /\ Top = stack[n]
      /\ \A i \in 1 .. n : stack[i] \in Frame /\ stack[i].kind = "delete"
  BY <1>1, TopFrame
<1>4. Top \in DeleteFrames /\ Top.table \in Table
  BY <1>1, <1>3, FrameFields
<1>5. /\ f \in DeleteFrames /\ f \in Frame /\ f.kind = "delete" /\ f.table = Top.table
      /\ f.cur = Top.cur /\ f.todo = Top.todo /\ f.refs = Top.refs \ {c}
  BY <1>1, <1>4 DEF DeleteFrames, Frame
<1>6. /\ g \in Frame /\ g.kind = "delete" /\ g.table = c /\ g.cur = None
      /\ \A a \in Addr : db[c][a] # None /\ db[c][a].ref = value =>
            \E rec \in g.todo : rec.addr = a
  BY <1>2, Collected DEF DeleteFrame, Frame, DeleteFrames
<1> HIDE DEF f, g
<1>7. CASE UNCHANGED stack /\ trapped' \in BOOLEAN
  BY <1>1, <1>2, <1>7, FrameStep DEF IInv
<1>8. CASE /\ trapped' \in BOOLEAN
           /\ Len(stack') = Len(stack) + 1 /\ stack' \in Seq(Frame)
           /\ stack'[Len(stack)] = f /\ stack'[Len(stack) + 1] = g
           /\ \A i \in 1 .. Len(stack) : i # Len(stack) => stack'[i] = stack[i]
  <2> DEFINE s == stack'
  <2>1. /\ Len(s) = n + 1 /\ s[n] = f /\ s[n + 1] = g /\ s \in Seq(Frame)
        /\ \A i \in 1 .. n : i # n => s[i] = stack[i]
    BY <1>8
  <2> HIDE DEF s, n
  <2>2. \A t \in Table, a \in Addr : ~Dangling(db, t, a)
    BY <1>2, <1>3 DEF DanglingIsRepaired, Repairs, n
  <2>3. ReferencesAreRemoved(db, s)
    <3> SUFFICES ASSUME NEW i \in 1 .. Len(s), s[i].kind = "delete", s[i].cur # None,
                        NEW u \in Referencing(s[i].table) \ s[i].refs, NEW a \in Addr,
                        db[u][a] # None, db[u][a].ref = s[i].cur.row[Target[u].column]
                 PROVE  i < Len(s) /\ Removes(s[i + 1], u, a)
      BY DEF ReferencesAreRemoved
    <3>1. i # n + 1
      BY <1>6, <2>1
    <3>2. i \in 1 .. n /\ i < Len(s)
      BY <1>3, <2>1, <3>1
    <3>3. CASE i = n
      <4>1. CASE u = c
        BY <1>5, <1>6, <2>1, <3>2, <3>3, <4>1 DEF Removes
      <4>2. CASE u # c
        <5>1. u \in Referencing(stack[n].table) \ stack[n].refs
          BY <1>3, <1>5, <2>1, <3>3, <4>2
        <5> QED
          BY <1>1, <1>2, <1>3, <1>5, <2>1, <3>3, <5>1 DEF ReferencesAreRemoved, n
      <4> QED
        BY <4>1, <4>2
    <3>4. CASE i # n
      <4>1. s[i] = stack[i] /\ i < n /\ i + 1 \in 1 .. n
        BY <1>3, <2>1, <3>2, <3>4
      <4>2. Removes(stack[i + 1], u, a)
        BY <1>2, <3>2, <4>1 DEF ReferencesAreRemoved, n
      <4>3. CASE i + 1 = n
        BY <1>3, <1>5, <2>1, <3>2, <4>2, <4>3 DEF Removes
      <4>4. CASE i + 1 # n
        BY <2>1, <3>2, <4>1, <4>2, <4>4
      <4> QED
        BY <4>3, <4>4
    <3> QED
      BY <3>3, <3>4
  <2>4. OneKind(s) /\ DanglingIsRepaired(db, s)
    <3>1. \A i \in 1 .. Len(s) : s[i].kind = "delete"
      <4> TAKE i \in 1 .. Len(s)
      <4>1. i = n + 1 \/ i = n \/ (i \in 1 .. n /\ i # n)
        BY <1>3, <2>1
      <4> QED
        BY <1>3, <1>5, <1>6, <2>1, <4>1
    <3> QED
      BY <2>2, <3>1 DEF OneKind, DanglingIsRepaired
  <2> QED
    BY <1>1, <1>2, <1>8, <2>1, <2>3, <2>4, FrameStep DEF Tended, s
<1> QED
  BY <1>1, <1>5, <1>6, <1>7, <1>8, CallFrame

LEMMA DeleteStep ==
    ASSUME KeyedTargets, IInv, DeleteRecord
    PROVE  IInv'
<1> DEFINE n == Len(stack)
           rec == Top.cur
           f == [Top EXCEPT !.cur = None]
           s == [stack EXCEPT ![n] = f]
           d == [db EXCEPT ![Top.table][rec.addr] = None]
<1>1. /\ Running /\ stack # <<>> /\ Top.kind = "delete" /\ rec # None /\ Top.refs = {}
      /\ Indexed(Top.table, rec) /\ db' = d /\ stack' = s
      /\ UNCHANGED <<job, session, saved, trapped>>
  BY DEF DeleteRecord, InFrame, SetTop
<1>2. /\ stack \in Seq(Frame) /\ KeysOnce(db) /\ DanglingIsRepaired(db, stack)
      /\ ReferencesAreRemoved(db, stack) /\ db \in Storage /\ trapped \in BOOLEAN
  BY DEF IInv, Typed, Tended
<1>3. /\ n \in Nat /\ n >= 1 /\ n \in 1 .. n /\ Top = stack[n]
      /\ \A i \in 1 .. n : stack[i] \in Frame /\ stack[i].kind = "delete"
  BY <1>1, TopFrame
<1>4. Top \in DeleteFrames /\ Top.table \in Table /\ rec \in Record /\ rec.addr \in Addr
  BY <1>1, <1>3, FrameFields DEF Record
<1>5. /\ f \in Frame /\ f.kind = "delete" /\ f.table = Top.table
      /\ f.cur = None /\ f.todo = Top.todo /\ f.refs = {}
  BY <1>1, <1>4 DEF DeleteFrames, Frame
<1> HIDE DEF f
<1>6. /\ s \in Seq(Frame) /\ Len(s) = n /\ s[n] = f
      /\ \A i \in 1 .. n : i # n => s[i] = stack[i]
  BY <1>1, <1>2, <1>5, ReplaceTop
<1>7. /\ d \in Storage /\ KeysOnce(d)
      /\ \A u \in Table, b \in Addr : d[u][b] # None =>
            d[u][b] = db[u][b] /\ (u # Top.table \/ b # rec.addr)
      /\ \A u \in Table, b \in Addr : Dangling(d, u, b) =>
            \/ Dangling(db, u, b)
            \/ u \in Referencing(Top.table) /\ d[u][b].ref = rec.row[Target[u].column]
  BY <1>1, <1>2, <1>4, WriteRow, DeleteTended
<1> HIDE DEF s, n, d
<1>8. \A t \in Table, a \in Addr : ~Dangling(db, t, a)
  BY <1>2, <1>3 DEF DanglingIsRepaired, Repairs, n
<1>9. ASSUME NEW u \in Table, NEW b \in Addr, Dangling(d, u, b)
      PROVE  FALSE
  <2>1. /\ u \in Referencing(Top.table) /\ d[u][b] # None /\ d[u][b] = db[u][b]
        /\ db[u][b].ref = rec.row[Target[u].column]
    BY <1>7, <1>8, <1>9 DEF Dangling
  <2>2. u \in Referencing(stack[n].table) \ stack[n].refs
    BY <1>1, <1>3, <2>1
  <2> QED
    BY <1>1, <1>2, <1>3, <2>1, <2>2 DEF ReferencesAreRemoved, n
<1>10. ReferencesAreRemoved(d, s)
  <2> SUFFICES ASSUME NEW i \in 1 .. Len(s), s[i].kind = "delete", s[i].cur # None,
                      NEW c \in Referencing(s[i].table) \ s[i].refs, NEW a \in Addr,
                      d[c][a] # None, d[c][a].ref = s[i].cur.row[Target[c].column]
               PROVE  i < Len(s) /\ Removes(s[i + 1], c, a)
    BY DEF ReferencesAreRemoved
  <2>1. i # n /\ i \in 1 .. n /\ s[i] = stack[i] /\ i < n /\ i + 1 \in 1 .. n
    BY <1>3, <1>5, <1>6
  <2>2. c \in Table /\ db[c][a] = d[c][a] /\ (c # Top.table \/ a # rec.addr)
    BY <1>7 DEF Referencing
  <2>3. Removes(stack[i + 1], c, a)
    BY <1>2, <2>1, <2>2 DEF ReferencesAreRemoved, n
  <2>4. CASE i + 1 = n
    BY <1>3, <1>5, <1>6, <2>1, <2>2, <2>3, <2>4 DEF Removes
  <2>5. CASE i + 1 # n
    BY <1>6, <2>1, <2>3, <2>5
  <2> QED
    BY <2>4, <2>5
<1>11. OneKind(s) /\ DanglingIsRepaired(d, s)
  BY <1>3, <1>5, <1>6, <1>9 DEF OneKind, DanglingIsRepaired
<1> QED
  BY <1>1, <1>2, <1>6, <1>7, <1>10, <1>11, FrameStep DEF Tended

\* Patches make rows of rows.
LEMMA UpdatedRow ==
    ASSUME NEW f, f.table \in Table, f.patch \in Patches, NEW rec \in Record
    PROVE  Updated(f, rec) \in Row
<1>1. rec.row \in Row
  BY DEF Record
<1>2. apply_update(rec.row, f.patch) \in Row
  BY <1>1, RowAssumption DEF Patches
<1> QED
  BY <1>2, RowAssumption DEF Updated

LEMMA UpdateStep ==
    ASSUME KeyedTargets, IInv, NEW rec, UpdateRecord(rec)
    PROVE  IInv'
<1> DEFINE n == Len(stack)
           t == Top.table
           new == Updated(Top, rec)
           changed == {c \in Referencing(t) : rec.row[Target[c].column] # new[Target[c].column]}
           cur == IF changed = {} THEN None ELSE rec
           f == [Top EXCEPT !.todo = @ \ {rec}, !.cur = cur, !.refs = changed]
           s == [stack EXCEPT ![n] = f]
           d == [db EXCEPT ![t][rec.addr] = new]
<1>1. /\ Running /\ stack # <<>> /\ Top.kind = "update" /\ Top.cur = None /\ rec \in Top.todo
      /\ CanUpdate(Top, rec) /\ db' = d /\ stack' = s
      /\ UNCHANGED <<job, session, saved, trapped>>
  BY DEF UpdateRecord, InFrame, SetTop
<1>2. /\ stack \in Seq(Frame) /\ KeysOnce(db) /\ DanglingIsRepaired(db, stack)
      /\ db \in Storage /\ trapped \in BOOLEAN
  BY DEF IInv, Typed, Tended
<1>3. /\ n \in Nat /\ n >= 1 /\ n \in 1 .. n /\ Top = stack[n]
      /\ \A i \in 1 .. n : stack[i] \in Frame /\ stack[i].kind = "update"
  BY <1>1, TopFrame
<1>4. /\ Top \in UpdateFrames /\ t \in Table /\ Top.patch \in Patches
      /\ rec \in Record /\ rec.addr \in Addr /\ rec # None
  <2>1. Top \in UpdateFrames /\ t \in Table /\ Top.patch \in Patches /\ Top.todo \subseteq Record
    BY <1>1, <1>3, FrameFields
  <2>2. rec \in Record
    BY <1>1, <2>1
  <2>3. rec.addr \in Addr
    BY <2>2 DEF Record
  <2> QED
    BY <2>1, <2>2, <2>3, RowAssumption
<1>5. new \in Row
  BY <1>4, UpdatedRow
<1>6. /\ f \in Frame /\ f.kind = "update" /\ f.table = t
      /\ f.cur = cur /\ f.todo = Top.todo \ {rec} /\ f.refs = changed
  <2>1. changed \subseteq Linked
    BY DEF Referencing, Linked
  <2> HIDE DEF changed
  <2> QED
    BY <1>1, <1>4, <2>1 DEF UpdateFrames, Frame
<1>7. /\ d \in Storage /\ KeysOnce(d)
      /\ \A u \in Table, b \in Addr : Dangling(d, u, b) =>
            \/ /\ Dangling(db, u, b) /\ d[u][b] = db[u][b]
               /\ u # t \/ b # rec.addr
            \/ /\ u \in Referencing(t)
               /\ rec.row[Target[u].column] # new[Target[u].column]
               /\ d[u][b].ref = rec.row[Target[u].column]
  <2>1. d \in Storage
    BY <1>2, <1>4, <1>5, WriteRow
  <2>2. validate_update(t, new, rec.row.id) /\ Indexed(t, rec)
    BY <1>1 DEF CanUpdate
  <2>3. t \in Table /\ rec \in Record /\ db \in Storage /\ KeysOnce(db)
    BY <1>2, <1>4
  <2> HIDE DEF t, new
  <2>4. KeysOnce(d)
    BY <1>5, <2>2, <2>3, UpdateTended
  <2>5. ASSUME NEW u \in Table, NEW b \in Addr, Dangling(d, u, b)
        PROVE  \/ /\ Dangling(db, u, b) /\ d[u][b] = db[u][b]
                  /\ u # t \/ b # rec.addr
               \/ /\ u \in Referencing(t)
                  /\ rec.row[Target[u].column] # new[Target[u].column]
                  /\ d[u][b].ref = rec.row[Target[u].column]
    BY <1>5, <2>2, <2>3, <2>5, UpdateTended
  <2> QED
    BY <2>1, <2>4, <2>5
<1> HIDE DEF f, d, new
<1>8. /\ s \in Seq(Frame) /\ Len(s) = n /\ s[n] = f
      /\ \A i \in 1 .. n : i # n => s[i] = stack[i]
  BY <1>1, <1>2, <1>6, ReplaceTop
<1> HIDE DEF s, n
<1>9. DanglingIsRepaired(d, s)
  <2> SUFFICES ASSUME NEW u \in Table, NEW b \in Addr, Dangling(d, u, b)
               PROVE  \E i \in 1 .. Len(s) : Repairs(d, s[i], u, b)
    BY DEF DanglingIsRepaired
  <2>1. CASE Dangling(db, u, b) /\ d[u][b] = db[u][b] /\ (u # t \/ b # rec.addr)
    <3>1. PICK i \in 1 .. n : Repairs(db, stack[i], u, b)
      BY <1>2, <2>1 DEF DanglingIsRepaired, n
    <3>2. CASE i = n
      <4>1. t = u /\ \E r \in Top.todo : r.addr = b
        BY <1>1, <1>3, <3>1, <3>2 DEF Repairs
      <4>2. \E r \in f.todo : r.addr = b
        BY <1>6, <2>1, <4>1
      <4> QED
        BY <1>3, <1>6, <1>8, <4>1, <4>2 DEF Repairs
    <3>3. CASE i # n
      BY <1>8, <2>1, <3>1, <3>3 DEF Repairs
    <3> QED
      BY <3>2, <3>3
  <2>2. CASE /\ u \in Referencing(t)
             /\ rec.row[Target[u].column] # new[Target[u].column]
             /\ d[u][b].ref = rec.row[Target[u].column]
    <3>1. u \in f.refs /\ f.cur = rec /\ Target[u].table = f.table
      BY <1>6, <2>2 DEF Referencing
    <3>2. Repairs(d, f, u, b)
      BY <1>4, <1>6, <2>2, <3>1 DEF Repairs
    <3> QED
      BY <1>3, <1>8, <3>2
  <2> QED
    BY <1>7, <2>1, <2>2
<1>10. \A i \in 1 .. Len(s) : s[i].kind = "update"
  BY <1>3, <1>6, <1>8
<1>11. OneKind(s) /\ ReferencesAreRemoved(d, s)
  BY <1>10 DEF OneKind, ReferencesAreRemoved
<1> QED
  BY <1>1, <1>2, <1>7, <1>8, <1>9, <1>11, FrameStep DEF Tended

LEMMA RenameStep ==
    ASSUME IInv, NEW c \in Table, update_references_to_updated_record(c)
    PROVE  IInv'
<1> DEFINE n == Len(stack)
           column == Target[c].column
           value == Top.cur.row[column]
           refs == Top.refs \ {c}
           cur == IF refs = {} THEN None ELSE Top.cur
           patch == [ref |-> Updated(Top, Top.cur)[column]]
           f == [Top EXCEPT !.refs = refs, !.cur = cur]
           g == UpdateFrame(c, ReferencesTo(c, value), patch)
<1>1. /\ Running /\ stack # <<>> /\ Top.kind = "update" /\ Top.cur # None /\ c \in Top.refs
      /\ Call(f, g) /\ UNCHANGED <<db, job, session, saved>>
  BY DEF update_references_to_updated_record, InFrame
<1>2. /\ stack \in Seq(Frame) /\ KeysOnce(db) /\ DanglingIsRepaired(db, stack)
      /\ db \in Storage
  BY DEF IInv, Typed, Tended
<1>3. /\ n \in Nat /\ n >= 1 /\ n \in 1 .. n /\ Top = stack[n]
      /\ \A i \in 1 .. n : stack[i] \in Frame /\ stack[i].kind = "update"
  BY <1>1, TopFrame
<1>4. /\ Top \in UpdateFrames /\ Top.table \in Table /\ Top.patch \in Patches
      /\ Top.cur \in Record
  BY <1>1, <1>3, FrameFields
<1>5. /\ f \in Frame /\ f.kind = "update" /\ f.table = Top.table
      /\ f.cur = cur /\ f.todo = Top.todo /\ f.refs = refs
  BY <1>1, <1>4 DEF UpdateFrames, Frame
<1>6. patch \in Patches
  <2>1. Target[c] # None
    BY <1>1, <1>4, FrameFields DEF Frame, Linked
  <2>2. Updated(Top, Top.cur) \in Row
    BY <1>4, UpdatedRow
  <2>3. Updated(Top, Top.cur)[column] \in ReferencedValues
    BY <2>1, <2>2 DEF ReferencedValues
  <2> QED
    BY <2>3 DEF Patches
<1> HIDE DEF patch, f
<1>7. /\ g \in Frame /\ g.kind = "update" /\ g.table = c /\ g.cur = None /\ g.refs = {}
      /\ \A a \in Addr : db[c][a] # None /\ db[c][a].ref = value =>
            \E rec \in g.todo : rec.addr = a
  BY <1>2, <1>6, Collected DEF UpdateFrame, Frame, UpdateFrames
<1> HIDE DEF g
<1>8. CASE UNCHANGED stack /\ trapped' \in BOOLEAN
  BY <1>1, <1>2, <1>8, FrameStep DEF IInv
<1>9. CASE /\ trapped' \in BOOLEAN
           /\ Len(stack') = Len(stack) + 1 /\ stack' \in Seq(Frame)
           /\ stack'[Len(stack)] = f /\ stack'[Len(stack) + 1] = g
           /\ \A i \in 1 .. Len(stack) : i # Len(stack) => stack'[i] = stack[i]
  <2> DEFINE s == stack'
  <2>1. /\ Len(s) = n + 1 /\ s[n] = f /\ s[n + 1] = g /\ s \in Seq(Frame)
        /\ \A i \in 1 .. n : i # n => s[i] = stack[i]
    BY <1>9
  <2> HIDE DEF s, n
  <2>2. DanglingIsRepaired(db, s)
    <3> SUFFICES ASSUME NEW u \in Table, NEW b \in Addr, Dangling(db, u, b)
                 PROVE  \E i \in 1 .. Len(s) : Repairs(db, s[i], u, b)
      BY DEF DanglingIsRepaired
    <3>1. PICK i \in 1 .. n : Repairs(db, stack[i], u, b)
      BY <1>2 DEF DanglingIsRepaired, n
    <3>2. n \in 1 .. Len(s) /\ n + 1 \in 1 .. Len(s) /\ i \in 1 .. Len(s)
      BY <1>3, <2>1
    <3>3. CASE i # n
      BY <2>1, <3>1, <3>2, <3>3
    <3>4. CASE i = n /\ Top.table = u /\ \E rec \in Top.todo : rec.addr = b
      BY <1>5, <2>1, <3>2, <3>4 DEF Repairs
    <3>5. CASE i = n /\ u \in Top.refs /\ Top.table = Target[u].table
               /\ Top.cur.row[Target[u].column] = db[u][b].ref
      <4>1. CASE u = c
        <5>1. db[c][b] # None /\ db[c][b].ref = value
          BY <3>5, <4>1 DEF Dangling
        <5>2. Repairs(db, g, u, b)
          BY <1>7, <4>1, <5>1 DEF Repairs
        <5> QED
          BY <2>1, <3>2, <5>2
      <4>2. CASE u # c
        <5>1. u \in refs /\ f.cur = Top.cur
          BY <1>5, <3>5, <4>2
        <5>2. Repairs(db, f, u, b)
          BY <1>1, <1>5, <3>5, <5>1 DEF Repairs
        <5> QED
          BY <2>1, <3>2, <5>2
      <4> QED
        BY <4>1, <4>2
    <3> QED
      BY <1>3, <3>1, <3>3, <3>4, <3>5 DEF Repairs
  <2>3. \A i \in 1 .. Len(s) :
           i = n + 1 \/ i = n \/ (i \in 1 .. n /\ i # n /\ s[i] = stack[i])
    BY <1>3, <2>1
  <2>4. \A i \in 1 .. Len(s) : s[i].kind = "update"
    BY <1>3, <1>5, <1>7, <2>1, <2>3
  <2>5. OneKind(s) /\ ReferencesAreRemoved(db, s)
    BY <2>4 DEF OneKind, ReferencesAreRemoved
  <2> QED
    BY <1>1, <1>2, <1>9, <2>1, <2>2, <2>5, FrameStep DEF Tended, s
<1> QED
  BY <1>1, <1>5, <1>7, <1>8, <1>9, CallFrame

LEMMA NextIInv ==
    ASSUME KeyedTargets, IInv, [Next]_vars
    PROVE  IInv'
<1>1. CASE Finish
  BY <1>1, FinishStep
<1>2. CASE RunInsert
  BY <1>2, InsertStep
<1>3. CASE RunOperation
  BY <1>3, OperationStep
<1>4. CASE InsertFails \/ TransactionConflict \/ DeleteRecordFails
  BY <1>4, AbortStep DEF InsertFails, TransactionConflict, DeleteRecordFails
<1>5. CASE Return
  BY <1>5, ReturnStep
<1>6. CASE DeleteRecord
  BY <1>6, DeleteStep
<1>7. ASSUME NEW rec \in Records, NextDelete(rec)
      PROVE  IInv'
  BY <1>7, TakeUpStep
<1>8. ASSUME NEW rec \in Records, DeleteRestricted(rec) \/ UpdateRecordFails(rec)
      PROVE  IInv'
  BY <1>8, AbortStep DEF DeleteRestricted, UpdateRecordFails
<1>9. ASSUME NEW rec \in Records, UpdateRecord(rec)
      PROVE  IInv'
  BY <1>9, UpdateStep
<1>10. ASSUME NEW c \in Table, delete_foreign_keys_cascade(c)
       PROVE  IInv'
  BY <1>10, CascadeStep
<1>11. ASSUME NEW c \in Table, update_references_to_updated_record(c)
       PROVE  IInv'
  BY <1>11, RenameStep
<1>12. CASE Step
  BY <1>1, <1>2, <1>3, <1>4, <1>5, <1>6, <1>7, <1>8, <1>9, <1>10, <1>11, <1>12, Zenon DEF Step
<1>13. CASE \/ \E x \in Tx : begin_transaction(x) \/ rollback(x) \/ commit(x)
            \/ \E op \in Inserts \union Updates \union Deletes : Oneshot(op)
  BY <1>13, CallStep
<1>14. ASSUME NEW x \in Tx, NEW input \in Inserts, TxInsert(x, input)
       PROVE  IInv'
  <2> DEFINE op == InsertOp(input.table, Sanitize(input.table, input.row))
  <2>1. input.table \in Table /\ input.row \in Row
    BY InputsAssumption
  <2>2. op \in Operation
    BY <2>1, RowAssumption DEF InsertOp, Operation, InsertOps
  <2>3. Stage(x, op)
    BY <1>14 DEF TxInsert
  <2> QED
    BY <2>2, <2>3, StageStep
<1>15. ASSUME NEW x \in Tx, NEW input \in Updates, TxUpdate(x, input)
       PROVE  IInv'
  <2> DEFINE op == [input EXCEPT !.rows = @ \intersect View(x)[input.table]]
  <2>1. op \in Operation
    BY InputsTyped DEF Operation
  <2>2. Stage(x, op)
    BY <1>15 DEF TxUpdate
  <2> QED
    BY <2>1, <2>2, StageStep
<1>16. ASSUME NEW x \in Tx, NEW input \in Deletes, TxDelete(x, input)
       PROVE  IInv'
  <2> DEFINE op == [input EXCEPT !.rows = @ \intersect View(x)[input.table]]
  <2>1. op \in Operation
    BY InputsTyped DEF Operation
  <2>2. Stage(x, op)
    BY <1>16 DEF TxDelete
  <2> QED
    BY <2>1, <2>2, StageStep
<1>17. CASE UNCHANGED vars
  BY <1>17 DEF vars, IInv, Typed, JobType
<1> QED
  BY <1>12, <1>13, <1>14, <1>15, <1>16, <1>17, Zenon DEF Next

\* The rows are tended to at every step: committed and saved rows are
\* consistent, and while a call runs every reference that dangles is on the
\* list of a frame that will rename it.
THEOREM ReferencesAreTended ==
    ASSUME KeyedTargets
    PROVE  Spec => []IInv
<1>1. IInv /\ [Next]_vars => IInv'
  BY NextIInv
<1> QED
  BY <1>1, InitIInv, PTL DEF Spec

\* Between calls primary keys and unique columns hold each value once and
\* every foreign key finds its row, whatever was staged against which view and
\* whatever other writers did before the commit.
THEOREM Integrity ==
    ASSUME KeyedTargets
    PROVE  Spec => []IntegrityHolds
<1>1. IInv => IntegrityHolds
  <2> SUFFICES ASSUME IInv, Idle, NEW t \in Table
               PROVE  /\ \A a, b \in Addr :
                            a # b /\ db[t][a] # None /\ db[t][b] # None =>
                                /\ db[t][a].id # db[t][b].id
                                /\ t \in Unique => db[t][a].val # db[t][b].val
                      /\ \A row \in Rows(t) : CheckForeignKey(Committed, t, row)
    BY DEF IntegrityHolds
  <2>1. Consistent(db) /\ db \in Storage
    BY ConsistentTended DEF IInv, Typed, Idle
  <2>2. ASSUME NEW row \in Rows(t)
        PROVE  CheckForeignKey(Committed, t, row)
    <3>1. PICK a \in Addr : db[t][a] # None /\ db[t][a] = row
      BY <2>1, CommittedRows
    <3> QED
      BY <2>1, <3>1, ForeignKeyFound DEF Consistent, Dangling
  <2> QED
    BY <2>1, <2>2 DEF Consistent, KeysOnce
<1> QED
  BY <1>1, ReferencesAreTended, PTL

-----------------------------------------------------------------------------
(* Deletes remove no more than they should                                 *)

\* What is doomed stays doomed, and so what is justified stays justified.
LEMMA JustifiedStays ==
    ASSUME NEW op, NEW v, NEW d, NEW s, NEW e, NEW r,
           \A t \in Table, b \in Addr : Doomed(d, s, t, b) => Doomed(e, r, t, b)
    PROVE  \A t \in Table, a \in Addr :
              Justified(op, v, d, s, t, a) => Justified(op, v, e, r, t, a)
<1> SUFFICES ASSUME NEW t \in Table, NEW a \in Addr, Justified(op, v, d, s, t, a)
             PROVE  Justified(op, v, e, r, t, a)
  OBVIOUS
<1>1. CASE t = op.table /\ v[t][a] \in op.rows
  BY <1>1 DEF Justified
<1>2. CASE ~(t = op.table /\ v[t][a] \in op.rows)
  <2>1. /\ op.behaviour = "Cascade" /\ Target[t] # None
        /\ \E b \in Addr :
              /\ v[Target[t].table][b] # None /\ Doomed(d, s, Target[t].table, b)
              /\ v[Target[t].table][b][Target[t].column] = v[t][a].ref
    BY <1>2 DEF Justified
  <2>2. Target[t].table \in Table
    BY <2>1, TargetAssumption
  <2> QED
    BY <2>1, <2>2 DEF Justified
<1> QED
  BY <1>1, <1>2

LEMMA FrameStaysJustified ==
    ASSUME NEW op, NEW v, NEW d, NEW s, NEW e, NEW r, NEW f \in Frame,
           \A t \in Table, b \in Addr : Doomed(d, s, t, b) => Doomed(e, r, t, b),
           FrameIsJustified(op, v, d, s, f)
    PROVE  FrameIsJustified(op, v, e, r, f)
<1>1. f.table \in Table /\ f.todo \subseteq Record /\ f.cur \in Record \union {None}
  BY FrameFields
<1>2. \A rec \in Record : RecordIsJustified(op, v, d, s, f.table, rec)
                              => RecordIsJustified(op, v, e, r, f.table, rec)
  BY <1>1, JustifiedStays DEF RecordIsJustified, Record
<1> QED
  BY <1>1, <1>2 DEF FrameIsJustified

LEMMA InitDInv == Init => DInv
BY DEF Init, DInv, Deleting, NoJob

\* Steps that start a call or end one, or touch no call.
LEMMA OutsideDInv ==
    ASSUME IInv, DInv,
           \/ Finish \/ Abort
           \/ \E x \in Tx : begin_transaction(x) \/ rollback(x) \/ commit(x)
           \/ \E x \in Tx : \E op : Stage(x, op)
           \/ \E op \in Inserts \union Updates \union Deletes : Oneshot(op)
    PROVE  DInv'
<1>1. CASE Finish \/ Abort
  BY <1>1 DEF Finish, Abort, NoJob, DInv, Deleting
<1>2. CASE \/ \E x \in Tx : begin_transaction(x) \/ rollback(x)
           \/ \E x \in Tx : \E op : Stage(x, op)
  BY <1>2 DEF begin_transaction, rollback, Stage, Idle, DInv, Deleting
<1>3. CASE \E x \in Tx : commit(x)
  BY <1>3, TxAssumption DEF commit, DInv, Deleting
<1>4. ASSUME NEW op \in Inserts \union Updates \union Deletes, Oneshot(op)
      PROVE  DInv'
  <2> SUFFICES ASSUME Deleting'
               PROVE  /\ job'.input \in DeleteOps
                      /\ job'.ops = <<job'.input>> /\ stack' = <<>> /\ db' = saved'
    BY DEF DInv
  <2>1. job'.input = op /\ job'.ops = <<op>> /\ op.kind = "delete"
    BY <1>4 DEF Oneshot, Deleting
  <2>2. op \in DeleteOps
    BY <2>1, InputsTyped DEF InsertOps, UpdateOps
  <2>3. stack' = <<>> /\ db' = saved'
    BY <1>4 DEF Oneshot, Idle, IInv
  <2> QED
    BY <2>1, <2>2, <2>3
<1> QED
  BY <1>1, <1>2, <1>3, <1>4

\* The operation of a delete is called.
LEMMA OperationDInv ==
    ASSUME IInv, DInv, RunInsert \/ RunOperation
    PROVE  DInv'
<1> SUFFICES ASSUME Deleting' PROVE DInv'
  BY DEF DInv
<1>1. /\ stack = <<>> /\ job.ops # <<>> /\ job.running
      /\ job' = [job EXCEPT !.ops = Tail(@)] /\ saved' = saved
  BY DEF RunInsert, RunOperation, AtOperation, Running
<1>2. /\ job'.running = TRUE /\ job'.tx = job.tx /\ job'.input = job.input
      /\ job'.ops = Tail(job.ops)
  BY <1>1, HeadTyped
<1>3. Deleting /\ job.input \in DeleteOps /\ job.ops = <<job.input>> /\ db = saved
  BY <1>1, <1>2 DEF Deleting, DInv
<1>4. Head(job.ops) = job.input /\ job'.ops = <<>> /\ job.input.kind = "delete"
  BY <1>2, <1>3 DEF DeleteOps
<1> DEFINE op == job.input
           f == DeleteFrame(op.table, op.rows, op.behaviour)
<1>5. RunOperation /\ stack' = <<f>> /\ db' = db
  BY <1>4 DEF RunInsert, AtOperation, RunOperation, OperationFrame
<1>6. op.table \in Table /\ db \in Storage
  BY <1>3 DEF DeleteOps, IInv, Typed
<1>7. /\ f.kind = "delete" /\ f.table = op.table /\ f.behaviour = op.behaviour
      /\ f.refs = {} /\ f.cur = None /\ f.todo = Matching(op.table, op.rows)
  BY DEF DeleteFrame
<1> HIDE DEF f
<1>8. FrameIsJustified(op, saved, db, stack', f)
  BY <1>3, <1>6, <1>7, MatchingRecords
     DEF FrameIsJustified, RecordIsJustified, Justified
<1>9. AllIsJustified(op, saved, db, stack')
  <2>1. Len(stack') = 1 /\ stack'[1] = f
    BY <1>5
  <2> QED
    BY <1>3, <1>8, <2>1 DEF AllIsJustified, RemovalsAreJustified
<1> QED
  BY <1>1, <1>2, <1>3, <1>4, <1>5, <1>9 DEF DInv

\* A frame of a delete is justified.
LEMMA DeletingFrames ==
    ASSUME IInv, DInv, Deleting, stack # <<>>
    PROVE  /\ job.input \in DeleteOps /\ job.ops = <<>>
           /\ AllIsJustified(job.input, saved, db, stack)
           /\ FrameIsJustified(job.input, saved, db, stack, Top)
           /\ Top.kind = "delete"
<1>1. /\ job.input \in DeleteOps /\ job.ops = <<>>
      /\ AllIsJustified(job.input, saved, db, stack)
  BY DEF DInv
<1>2. FrameIsJustified(job.input, saved, db, stack, Top)
  BY <1>1, TopFrame DEF AllIsJustified
<1> QED
  BY <1>1, <1>2 DEF FrameIsJustified

\* Inside a delete: what is left to show.
LEMMA FrameDInv ==
    ASSUME IInv, DInv, stack # <<>>, UNCHANGED <<job, saved>>,
           Deleting => AllIsJustified(job.input, saved, db', stack')
    PROVE  DInv'
BY DeletingFrames DEF DInv, Deleting

LEMMA ReturnDInv ==
    ASSUME IInv, DInv, Return
    PROVE  DInv'
<1> DEFINE n == Len(stack)
           s == SubSeq(stack, 1, n - 1)
<1>1. /\ stack # <<>> /\ Top.cur = None /\ stack' = s /\ UNCHANGED <<db, job, saved>>
  BY DEF Return
<1>2. stack \in Seq(Frame) /\ Top = stack[n]
  BY DEF IInv, Typed, Top
<1>3. /\ n \in Nat /\ n >= 1 /\ Len(s) = n - 1
      /\ \A i \in 1 .. n - 1 : s[i] = stack[i] /\ stack[i] \in Frame
  BY <1>1, <1>2, PopFrame
<1> HIDE DEF s, n
<1>4. \A t \in Table, b \in Addr : Doomed(db, stack, t, b) => Doomed(db, s, t, b)
  <2> SUFFICES ASSUME NEW t \in Table, NEW b \in Addr, Doomed(db, stack, t, b), db[t][b] # None
               PROVE  Doomed(db, s, t, b)
    BY DEF Doomed
  <2>1. PICK i \in 1 .. n : stack[i].table = t /\ stack[i].cur # None /\ stack[i].cur.addr = b
    BY DEF Doomed, n
  <2>2. i \in 1 .. Len(s) /\ s[i] = stack[i]
    BY <1>1, <1>2, <1>3, <2>1
  <2> QED
    BY <2>1, <2>2 DEF Doomed
<1>5. ASSUME Deleting
      PROVE  AllIsJustified(job.input, saved, db, s)
  <2>1. AllIsJustified(job.input, saved, db, stack)
    BY <1>1, <1>5, DeletingFrames
  <2>2. RemovalsAreJustified(job.input, saved, db, s)
    BY <1>4, <2>1, JustifiedStays DEF AllIsJustified, RemovalsAreJustified
  <2>3. ASSUME NEW i \in 1 .. Len(s)
        PROVE  FrameIsJustified(job.input, saved, db, s, s[i])
    <3>1. s[i] = stack[i] /\ s[i] \in Frame /\ i \in 1 .. n
      BY <1>3
    <3>2. FrameIsJustified(job.input, saved, db, stack, s[i])
      BY <2>1, <3>1 DEF AllIsJustified, n
    <3> QED
      BY <1>4, <3>1, <3>2, FrameStaysJustified
  <2> QED
    BY <2>2, <2>3 DEF AllIsJustified
<1> QED
  BY <1>1, <1>5, FrameDInv

\* The innermost frame is replaced and nothing doomed is spared.
LEMMA TopDInv ==
    ASSUME IInv, DInv, stack # <<>>, NEW f \in Frame,
           stack' = [stack EXCEPT ![Len(stack)] = f], UNCHANGED <<job, saved>>, db' \in Storage,
           f.table = Top.table,
           Top.cur # None => f.cur = Top.cur \/ db'[Top.table][Top.cur.addr] = None,
           \A t \in Table, b \in Addr : db[t][b] = None => db'[t][b] = None,
           Deleting => RemovalsAreJustified(job.input, saved, db', stack),
           Deleting => FrameIsJustified(job.input, saved, db', stack, f)
    PROVE  DInv'
<1> DEFINE n == Len(stack)
           s == [stack EXCEPT ![n] = f]
<1>1. stack \in Seq(Frame) /\ Top = stack[n]
  BY DEF IInv, Typed, Top
<1>2. /\ n \in Nat /\ n >= 1 /\ n \in 1 .. n /\ Len(s) = n /\ s[n] = f
      /\ \A i \in 1 .. n : stack[i] \in Frame /\ (i # n => s[i] = stack[i])
  BY <1>1, ReplaceTop
<1> HIDE DEF s, n
<1>3. \A t \in Table, b \in Addr : Doomed(db', stack, t, b) => Doomed(db', s, t, b)
  <2> SUFFICES ASSUME NEW t \in Table, NEW b \in Addr, Doomed(db', stack, t, b),
                      db'[t][b] # None
               PROVE  Doomed(db', s, t, b)
    BY DEF Doomed
  <2>1. PICK i \in 1 .. n : stack[i].table = t /\ stack[i].cur # None /\ stack[i].cur.addr = b
    BY DEF Doomed, n
  <2>2. s[i].table = t /\ s[i].cur = stack[i].cur
    BY <1>1, <1>2, <2>1
  <2> QED
    BY <1>2, <2>1, <2>2 DEF Doomed
<1>4. \A t \in Table, b \in Addr : Doomed(db, stack, t, b) => Doomed(db', stack, t, b)
  BY DEF Doomed
<1>5. ASSUME Deleting
      PROVE  AllIsJustified(job.input, saved, db', s)
  <2>1. AllIsJustified(job.input, saved, db, stack)
    BY <1>5, DeletingFrames
  <2>2. RemovalsAreJustified(job.input, saved, db', s)
    BY <1>3, <1>5, JustifiedStays DEF RemovalsAreJustified
  <2>3. ASSUME NEW i \in 1 .. Len(s)
        PROVE  FrameIsJustified(job.input, saved, db', s, s[i])
    <3>1. CASE i = n
      BY <1>2, <1>3, <1>5, <3>1, FrameStaysJustified
    <3>2. CASE i # n
      <4>1. i \in 1 .. n /\ s[i] = stack[i] /\ stack[i] \in Frame
        BY <1>2, <3>2
      <4>2. FrameIsJustified(job.input, saved, db, stack, stack[i])
        BY <2>1, <4>1 DEF AllIsJustified, n
      <4>3. \A t \in Table, b \in Addr : Doomed(db, stack, t, b) => Doomed(db', s, t, b)
        BY <1>3, <1>4
      <4> QED
        BY <4>1, <4>2, <4>3, FrameStaysJustified
    <3> QED
      BY <3>1, <3>2
  <2> QED
    BY <2>2, <2>3 DEF AllIsJustified
<1> QED
  BY <1>5, FrameDInv DEF s, n

LEMMA TakeUpDInv ==
    ASSUME IInv, DInv, NEW rec, NextDelete(rec)
    PROVE  DInv'
<1> DEFINE refs == IF Top.behaviour = "Cascade" THEN Referencing(Top.table) ELSE {}
           f == [Top EXCEPT !.todo = @ \ {rec}, !.cur = rec, !.refs = refs]
<1>1. /\ stack # <<>> /\ Top.kind = "delete" /\ Top.cur = None /\ rec \in Top.todo
      /\ stack' = [stack EXCEPT ![Len(stack)] = f] /\ UNCHANGED <<db, job, saved>>
  BY DEF NextDelete, InFrame, SetTop
<1>2. Top \in DeleteFrames
  BY <1>1, TopFrame, FrameFields
<1>3. /\ f \in Frame /\ f.kind = "delete" /\ f.table = Top.table /\ f.behaviour = Top.behaviour
      /\ f.cur = rec /\ f.todo = Top.todo \ {rec} /\ f.refs = refs
  <2>1. refs \subseteq Linked
    BY DEF Referencing, Linked
  <2> HIDE DEF refs
  <2> QED
    BY <1>1, <1>2, <2>1 DEF DeleteFrames, Frame
<1> HIDE DEF f
<1>4. db' \in Storage
  BY <1>1 DEF IInv, Typed
<1>5. ASSUME Deleting
      PROVE  /\ RemovalsAreJustified(job.input, saved, db, stack)
             /\ FrameIsJustified(job.input, saved, db, stack, f)
  BY <1>1, <1>3, <1>5, DeletingFrames DEF AllIsJustified, FrameIsJustified
<1> QED
  BY <1>1, <1>3, <1>4, <1>5, TopDInv

LEMMA DeleteDInv ==
    ASSUME IInv, DInv, DeleteRecord
    PROVE  DInv'
<1> DEFINE rec == Top.cur
           f == [Top EXCEPT !.cur = None]
           d == [db EXCEPT ![Top.table][rec.addr] = None]
<1>1. /\ stack # <<>> /\ Top.kind = "delete" /\ rec # None /\ Top.refs = {}
      /\ db' = d /\ stack' = [stack EXCEPT ![Len(stack)] = f] /\ UNCHANGED <<job, saved>>
  BY DEF DeleteRecord, InFrame, SetTop
<1>2. Top \in DeleteFrames /\ Top.table \in Table /\ rec \in Record /\ rec.addr \in Addr
  BY <1>1, TopFrame, FrameFields DEF Record
<1>3. /\ f \in Frame /\ f.kind = "delete" /\ f.table = Top.table /\ f.behaviour = Top.behaviour
      /\ f.cur = None /\ f.todo = Top.todo /\ f.refs = {}
  BY <1>1, <1>2 DEF DeleteFrames, Frame
<1>4. /\ d \in Storage /\ d[Top.table][rec.addr] = None
      /\ \A u \in Table, b \in Addr : u # Top.table \/ b # rec.addr => d[u][b] = db[u][b]
  <2>1. db \in Storage
    BY DEF IInv, Typed
  <2> QED
    BY <1>2, <2>1, WriteRow, SMTT(30)
<1> HIDE DEF f, d
<1>5. \A t \in Table, b \in Addr : db[t][b] = None => d[t][b] = None
  BY <1>4
<1>6. \A t \in Table, b \in Addr : Doomed(db, stack, t, b) => Doomed(d, stack, t, b)
  BY <1>5 DEF Doomed
<1>7. ASSUME Deleting
      PROVE  /\ RemovalsAreJustified(job.input, saved, d, stack)
             /\ FrameIsJustified(job.input, saved, d, stack, f)
  <2>1. /\ RemovalsAreJustified(job.input, saved, db, stack)
        /\ FrameIsJustified(job.input, saved, db, stack, Top)
    BY <1>1, <1>7, DeletingFrames DEF AllIsJustified
  <2>2. RemovalsAreJustified(job.input, saved, d, stack)
    <3> SUFFICES ASSUME NEW t \in Table, NEW a \in Addr, d[t][a] # saved[t][a]
                 PROVE  d[t][a] = None /\ Justified(job.input, saved, d, stack, t, a)
      BY DEF RemovalsAreJustified
    <3>1. CASE t = Top.table /\ a = rec.addr
      <4>1. Justified(job.input, saved, db, stack, t, a)
        BY <1>1, <2>1, <3>1 DEF FrameIsJustified, RecordIsJustified
      <4> QED
        BY <1>4, <1>6, <3>1, <4>1, JustifiedStays
    <3>2. CASE t # Top.table \/ a # rec.addr
      BY <1>4, <1>6, <2>1, <3>2, JustifiedStays DEF RemovalsAreJustified
    <3> QED
      BY <3>1, <3>2
  <2>3. FrameIsJustified(job.input, saved, db, stack, f)
    BY <1>3, <2>1 DEF FrameIsJustified
  <2>4. FrameIsJustified(job.input, saved, d, stack, f)
    BY <1>3, <1>6, <2>3, FrameStaysJustified
  <2> QED
    BY <2>2, <2>4
<1> QED
  BY <1>1, <1>3, <1>4, <1>5, <1>7, TopDInv

LEMMA CascadeDInv ==
    ASSUME IInv, DInv, NEW c \in Table, delete_foreign_keys_cascade(c)
    PROVE  DInv'
<1> DEFINE n == Len(stack)
           value == Top.cur.row[Target[c].column]
           f == [Top EXCEPT !.refs = @ \ {c}]
           g == DeleteFrame(c, ReferencesTo(c, value), "Cascade")
<1>1. /\ stack # <<>> /\ Top.kind = "delete" /\ Top.cur # None /\ c \in Top.refs
      /\ Call(f, g) /\ UNCHANGED <<db, job, saved>>
  BY DEF delete_foreign_keys_cascade, InFrame
<1>2. db \in Storage /\ stack \in Seq(Frame)
  BY DEF IInv, Typed
<1>3. /\ n \in Nat /\ n >= 1 /\ n \in 1 .. n /\ Top = stack[n]
      /\ \A i \in 1 .. n : stack[i] \in Frame
  BY <1>1, TopFrame
<1>4. Top \in DeleteFrames /\ Top.table \in Table /\ Top.cur \in Record
  BY <1>1, <1>3, FrameFields
<1>5. /\ f \in Frame /\ f.kind = "delete" /\ f.table = Top.table /\ f.behaviour = Top.behaviour
      /\ f.cur = Top.cur /\ f.todo = Top.todo /\ f.refs = Top.refs \ {c}
  BY <1>1, <1>4 DEF DeleteFrames, Frame
<1>6. /\ g \in Frame /\ g.kind = "delete" /\ g.table = c /\ g.behaviour = "Cascade"
      /\ g.cur = None /\ g.refs = {} /\ g.todo = Matching(c, ReferencesTo(c, value))
  BY <1>2, Collected DEF DeleteFrame, Frame, DeleteFrames
<1> HIDE DEF f, g
<1>7. CASE UNCHANGED stack
  BY <1>1, <1>7, FrameDInv, DeletingFrames
<1>8. CASE /\ Len(stack') = Len(stack) + 1
           /\ stack'[Len(stack)] = f /\ stack'[Len(stack) + 1] = g
           /\ \A i \in 1 .. Len(stack) : i # Len(stack) => stack'[i] = stack[i]
  <2> DEFINE s == stack'
             op == job.input
  <2>1. /\ Len(s) = n + 1 /\ s[n] = f /\ s[n + 1] = g
        /\ \A i \in 1 .. n : i # n => s[i] = stack[i]
    BY <1>8
  <2> HIDE DEF s, n, op
  <2>2. n \in 1 .. Len(s) /\ \A i \in 1 .. n : i \in 1 .. Len(s)
    BY <1>3, <2>1
  <2>3. \A t \in Table, b \in Addr : Doomed(db, stack, t, b) => Doomed(db, s, t, b)
    <3> SUFFICES ASSUME NEW t \in Table, NEW b \in Addr, Doomed(db, stack, t, b),
                        db[t][b] # None
                 PROVE  Doomed(db, s, t, b)
      BY DEF Doomed
    <3>1. PICK i \in 1 .. n : stack[i].table = t /\ stack[i].cur # None /\ stack[i].cur.addr = b
      BY DEF Doomed, n
    <3>2. s[i].table = t /\ s[i].cur = stack[i].cur
      BY <1>3, <1>5, <2>1, <3>1
    <3> QED
      BY <2>2, <3>1, <3>2 DEF Doomed
  <2>4. ASSUME Deleting
        PROVE  AllIsJustified(op, saved, db, s)
    <3>1. /\ AllIsJustified(op, saved, db, stack)
          /\ FrameIsJustified(op, saved, db, stack, Top)
      BY <1>1, <2>4, DeletingFrames DEF op
    <3>2. RemovalsAreJustified(op, saved, db, s)
      BY <2>3, <3>1, JustifiedStays DEF AllIsJustified, RemovalsAreJustified
    <3>3. FrameIsJustified(op, saved, db, stack, f)
      BY <1>1, <1>5, <3>1 DEF FrameIsJustified
    <3>4. op.behaviour = "Cascade" /\ Target[c] # None /\ Target[c].table = Top.table
      BY <1>1, <3>1 DEF FrameIsJustified, Referencing
    <3>5. Doomed(db, s, Top.table, Top.cur.addr) /\ Top.cur.addr \in Addr
      BY <1>1, <1>4, <1>5, <2>1, <2>2 DEF Doomed, Record
    <3>6. saved[Top.table][Top.cur.addr] = Top.cur.row /\ Top.cur.row # None
      BY <1>1, <1>4, <3>1, RowAssumption DEF FrameIsJustified, RecordIsJustified, Record
    <3>7. ASSUME NEW rec \in g.todo
          PROVE  RecordIsJustified(op, saved, db, s, c, rec)
      <4>1. /\ rec \in Record /\ db[c][rec.addr] = rec.row
            /\ rec.row \in ReferencesTo(c, value)
        BY <1>2, <1>6, <3>7, MatchingRecords
      <4>2. rec.addr \in Addr /\ rec.row # None /\ rec.row.ref = value
        BY <4>1, RowAssumption DEF Record, ReferencesTo
      <4>3. rec.row = saved[c][rec.addr]
        BY <3>2, <4>1, <4>2 DEF RemovalsAreJustified
      <4>4. Justified(op, saved, db, s, c, rec.addr)
        BY <3>4, <3>5, <3>6, <4>2, <4>3 DEF Justified
      <4> QED
        BY <4>3, <4>4 DEF RecordIsJustified
    <3>8. FrameIsJustified(op, saved, db, s, g)
      BY <1>6, <3>4, <3>7 DEF FrameIsJustified
    <3>9. ASSUME NEW i \in 1 .. Len(s)
          PROVE  FrameIsJustified(op, saved, db, s, s[i])
      <4>1. i = n + 1 \/ i = n \/ (i \in 1 .. n /\ i # n)
        BY <1>3, <2>1
      <4>2. CASE i = n
        BY <1>5, <2>1, <2>3, <3>3, <4>2, FrameStaysJustified
      <4>3. CASE i \in 1 .. n /\ i # n
        <5>1. FrameIsJustified(op, saved, db, stack, stack[i])
          BY <3>1, <4>3 DEF AllIsJustified, n
        <5> QED
          BY <1>3, <2>1, <2>3, <4>3, <5>1, FrameStaysJustified
      <4> QED
        BY <2>1, <3>8, <4>1, <4>2, <4>3
    <3> QED
      BY <3>2, <3>9 DEF AllIsJustified
  <2> QED
    BY <1>1, <2>4, FrameDInv DEF s, op
<1> QED
  BY <1>1, <1>5, <1>6, <1>7, <1>8, CallFrame

LEMMA NextDInv ==
    ASSUME IInv, DInv, [Next]_vars
    PROVE  DInv'
<1>1. CASE \/ Finish \/ InsertFails \/ TransactionConflict \/ DeleteRecordFails
           \/ \E rec \in Records : DeleteRestricted(rec) \/ UpdateRecordFails(rec)
  BY <1>1, OutsideDInv
     DEF InsertFails, TransactionConflict, DeleteRecordFails, DeleteRestricted, UpdateRecordFails
<1>2. CASE RunInsert \/ RunOperation
  BY <1>2, OperationDInv
<1>3. CASE Return
  BY <1>3, ReturnDInv
<1>4. CASE DeleteRecord
  BY <1>4, DeleteDInv
<1>5. ASSUME NEW rec \in Records, NextDelete(rec)
      PROVE  DInv'
  BY <1>5, TakeUpDInv
<1>6. ASSUME NEW c \in Table, delete_foreign_keys_cascade(c)
      PROVE  DInv'
  BY <1>6, CascadeDInv
<1>7. ASSUME \/ \E rec \in Records : UpdateRecord(rec)
             \/ \E c \in Table : update_references_to_updated_record(c)
      PROVE  DInv'
  <2>1. stack # <<>> /\ Top.kind = "update" /\ UNCHANGED <<job, saved>>
    BY <1>7 DEF UpdateRecord, update_references_to_updated_record, InFrame
  <2>2. ~Deleting
    BY <2>1, DeletingFrames
  <2> QED
    BY <2>1, <2>2, FrameDInv
<1>8. CASE Step
  BY <1>1, <1>2, <1>3, <1>4, <1>5, <1>6, <1>7, <1>8, Zenon DEF Step
<1>9. CASE \/ \E x \in Tx : begin_transaction(x) \/ rollback(x) \/ commit(x)
           \/ \E op \in Inserts \union Updates \union Deletes : Oneshot(op)
  BY <1>9, OutsideDInv
<1>10. CASE \/ \E x \in Tx, input \in Inserts : TxInsert(x, input)
            \/ \E x \in Tx, input \in Updates : TxUpdate(x, input)
            \/ \E x \in Tx, input \in Deletes : TxDelete(x, input)
  <2>1. \E x \in Tx : \E op : Stage(x, op)
    BY <1>10, Zenon DEF TxInsert, TxUpdate, TxDelete
  <2> QED
    BY <2>1, OutsideDInv
<1>11. CASE UNCHANGED vars
  BY <1>11 DEF vars, DInv, Deleting
<1> QED
  BY <1>8, <1>9, <1>10, <1>11, Zenon DEF Next

\* A delete that succeeds has removed the rows it selects and, when it
\* cascades, rows that referenced removed rows; every other row is as it was.
THEOREM CascadeIsExact ==
    ASSUME KeyedTargets
    PROVE  Spec => CascadeRemovesNoMore
<1> DEFINE Exact == \A t \in Table, a \in Addr :
              \/ db[t][a] = saved[t][a]
              \/ /\ a \in RemovedRows(t)
                 /\ \/ t = job.input.table /\ saved[t][a] \in job.input.rows
                    \/ /\ job.input.behaviour = "Cascade" /\ Target[t] # None
                       /\ \E b \in RemovedRows(Target[t].table) :
                             saved[Target[t].table][b][Target[t].column] = saved[t][a].ref
<1>1. ASSUME IInv, DInv, Finish, job.tx = None, job.input.kind = "delete"
      PROVE  Exact
  <2>1. Deleting /\ stack = <<>> /\ job.ops = <<>>
    BY <1>1 DEF Finish, Running, Deleting
  <2>2. RemovalsAreJustified(job.input, saved, db, <<>>)
    BY <1>1, <2>1 DEF DInv, AllIsJustified
  <2>3. \A t, b : Doomed(db, <<>>, t, b) => db[t][b] = None
    BY DEF Doomed
  <2> QED
    BY <2>2, <2>3 DEF RemovalsAreJustified, Justified, RemovedRows
<1>2. IInv /\ DInv /\ [Next]_vars
        => [Finish /\ job.tx = None /\ job.input.kind = "delete" => Exact]_vars
  BY <1>1
<1>3. Spec => []DInv
  <2>1. IInv /\ DInv /\ [Next]_vars => DInv'
    BY NextDInv
  <2> QED
    BY <2>1, InitDInv, ReferencesAreTended, PTL DEF Spec
<1> QED
  BY <1>2, <1>3, ReferencesAreTended, PTL DEF Spec, CascadeRemovesNoMore
=============================================================================
