------------------------------ MODULE TrashProofs ------------------------------
(***************************************************************************)
(* The invariants of the trash for every number of keys, contents, items,   *)
(* calls and events. ShapeInv says what each step may rely on in memory;    *)
(* RowInv relates the copies of a row in memory to the row in the database; *)
(* PoolInv is about the shared blobs and who holds their locks; CallTrue    *)
(* and FreshInv about the call that captures; RestoreInv about pins and     *)
(* captured files; and EndInv about what ends an item.                      *)
(***************************************************************************)
EXTENDS Trash, SequenceTheorems, TLAPS

-----------------------------------------------------------------------------
(***************************************************************************)
(* The inductive invariant                                                  *)
(***************************************************************************)
PurgeSteps == {"purge", "dereference", "blobs", "forget"}
RowSteps == PurgeSteps \cup {"mark", "capture", "finish", "pin", "look", "move", "replace", "blob", "settle", "unpin"}
KeySteps == {"retain", "record", "mark", "bare", "place", "index", "pin", "replace", "blob", "unpin",
             "dereference", "blobs", "forget"}

SpentType ==
  spent \in [calls : Nat, events : Nat, taken : SUBSET Bytes, waived : SUBSET Bytes,
             undone : SUBSET Bytes, back : SUBSET Ids, stale : SUBSET Ids]

\* A row of a key has a content, the row of the folder has its captured files.
Shaped(row) ==
  /\ row.key = Dir => row.content = Absent /\ row.captured /\ ~row.manual
  /\ row.key # Dir => row.content \in Contents

RowsShaped == \A i \in DOMAIN items : items[i] # None => Shaped(items[i])

\* What a call holds at each of its steps.
CallShaped ==
  call # None =>
    /\ call.at \in RowSteps => call.row # None
    /\ call.row # None => Shaped(call.row) /\ call.row.key = call.key /\ call.id \in DOMAIN items
    /\ call.at \in KeySteps \/ call.kind = "write" => call.key \in Keys
    /\ call.at \in {"retain", "record"} =>
         IF call.kind = "propagate" THEN call.row # None
         ELSE call.kind \in {"remove", "write"} /\ call.row = None /\ Len(items) < MaxItems
    /\ call.at = "record" => call.found \in Contents
    /\ call.at = "pin" => call.kind = "propagate"

ListingShaped ==
  listing # None =>
    /\ listing.id \in DOMAIN items
    /\ Shaped(listing.row) /\ listing.row.state = "pending"
    /\ listing.row.manual => listing.row.ready

SweepShaped ==
  sweep # None => sweep.rows \subseteq DOMAIN items /\ sweep.dropped \in DOMAIN items \cup {0}

ShapeInv == TypeOK /\ SpentType /\ RowsShaped /\ CallShaped /\ ListingShaped /\ SweepShaped

-----------------------------------------------------------------------------
(***************************************************************************)
(* Rows in the database                                                     *)
(***************************************************************************)

\* The ids of the rows are ids of the instance.
LEMMA RowIds ==
  ASSUME TypeOK
  PROVE  /\ Len(items) \in Nat /\ DOMAIN items = 1..Len(items)
         /\ DOMAIN items \subseteq Ids
         /\ \A i \in DOMAIN items : items[i] \in Item \cup {None}
  <1>1. items \in Seq(Item \cup {None}) /\ Len(items) <= MaxItems /\ MaxItems \in Nat
    BY BoundsAssumption DEF TypeOK
  <1>2. Len(items) \in Nat /\ DOMAIN items = 1..Len(items)
    BY <1>1, LenProperties
  <1>3. \A i \in DOMAIN items : items[i] \in Item \cup {None}
    BY <1>1, <1>2, ElementOfSeq
  <1> QED  BY <1>1, <1>2, <1>3 DEF Ids

\* Writing the row of an id leaves the other rows alone.
LEMMA PutRow ==
  ASSUME TypeOK, NEW i \in DOMAIN items, NEW row \in Item \cup {None},
         items' = [items EXCEPT ![i] = row]
  PROVE  /\ items' \in Seq(Item \cup {None}) /\ Len(items') = Len(items)
         /\ DOMAIN items' = DOMAIN items
         /\ \A j \in DOMAIN items : items'[j] = IF j = i THEN row ELSE items[j]
  <1>1. items \in Seq(Item \cup {None}) /\ DOMAIN items = 1..Len(items)
    BY RowIds DEF TypeOK
  <1>2. items' \in Seq(Item \cup {None}) /\ Len(items') = Len(items)
    BY <1>1, ExceptSeq
  <1>3. \A j \in DOMAIN items : items'[j] = IF j = i THEN row ELSE items[j]
    BY <1>1, ExceptSeq
  <1>4. DOMAIN items' = DOMAIN items
    BY <1>1, <1>2, LenProperties
  <1> QED  BY <1>2, <1>3, <1>4

\* A new row takes the next id.
LEMMA AddRow ==
  ASSUME TypeOK, NEW row \in Item, items' = Append(items, row), Len(items) < MaxItems
  PROVE  /\ items' \in Seq(Item \cup {None}) /\ Len(items') <= MaxItems
         /\ Len(items) + 1 \in Ids /\ Len(items) + 1 \notin DOMAIN items
         /\ Len(items') = Len(items) + 1
         /\ DOMAIN items' = DOMAIN items \cup {Len(items) + 1}
         /\ items'[Len(items) + 1] = row
         /\ \A j \in DOMAIN items : items'[j] = items[j]
  <1>1. items \in Seq(Item \cup {None}) /\ Len(items) \in Nat /\ DOMAIN items = 1..Len(items)
    BY RowIds DEF TypeOK
  <1>2. row \in Item \cup {None} /\ MaxItems \in Nat
    BY BoundsAssumption
  <1>3. items' \in Seq(Item \cup {None}) /\ Len(items') = Len(items) + 1
    BY <1>1, <1>2, AppendProperties
  <1>4. items'[Len(items) + 1] = row /\ \A j \in 1..Len(items) : items'[j] = items[j]
    BY <1>1, <1>2, AppendProperties
  <1>5. DOMAIN items' = 1..(Len(items) + 1)
    BY <1>1, <1>3, LenProperties
  <1> QED  BY <1>1, <1>2, <1>3, <1>4, <1>5 DEF Ids

(***************************************************************************)
(* The shape of the state                                                   *)
(***************************************************************************)

\* A call that moves on is still a call.
LEMMA CallMoves ==
  ASSUME NEW c \in Call, NEW step \in Steps, NEW row \in Item
  PROVE  /\ [c EXCEPT !.at = step] \in Call
         /\ [c EXCEPT !.at = step, !.row = row] \in Call
         /\ [c EXCEPT !.at = step].at = step
         /\ [c EXCEPT !.at = step, !.row = row].at = step
         /\ [c EXCEPT !.at = step, !.row = row].row = row
  BY DEF Call

\* A row keeps its type and its shape when its state changes.
LEMMA RowMoves ==
  ASSUME NEW row \in Item, NEW state \in {"pending", "active", "restored", "discarding", "discarded"}
  PROVE  /\ [row EXCEPT !.state = state] \in Item
         /\ Shaped(row) => Shaped([row EXCEPT !.state = state])
         /\ [row EXCEPT !.state = state].key = row.key
         /\ [row EXCEPT !.captured = TRUE] \in Item
         /\ Shaped(row) => Shaped([row EXCEPT !.captured = TRUE])
         /\ [row EXCEPT !.ready = TRUE] \in Item
         /\ Shaped(row) => Shaped([row EXCEPT !.ready = TRUE])
         /\ [row EXCEPT !.old = TRUE] \in Item
         /\ Shaped(row) => Shaped([row EXCEPT !.old = TRUE])
  BY DEF Item, Shaped

LEMMA InitShape == Init => ShapeInv
  <1> SUFFICES ASSUME Init PROVE ShapeInv
    OBVIOUS
  <1>1. items \in Seq(Item \cup {None}) /\ Len(items) = 0 /\ DOMAIN items = {}
    BY EmptySeq, LenProperties DEF Init
  <1>2. TypeOK
    <2>1. 0 <= MaxItems
      BY BoundsAssumption
    <2>2. Len(items) <= MaxItems
      BY <1>1, <2>1
    <2>3. Nothing \in [Keys -> Bytes]
      BY DEF Nothing, Bytes
    <2>4. /\ disk \in [Keys -> Bytes] /\ index \in [Keys -> Bytes]
          /\ kept \subseteq Contents /\ retained \in [Contents -> Record \cup {None}]
          /\ trashed \in [Ids -> [Keys -> Bytes]] /\ pins \in [Ids -> Bytes]
          /\ locked \subseteq Contents /\ call = None /\ listing = None /\ sweep = None
          /\ timer \in BOOLEAN
      BY <2>3, DiskAssumption DEF Init, Bytes
    <2> QED  BY <1>1, <2>2, <2>4 DEF TypeOK
  <1>3. SpentType
    BY DEF Init, SpentType
  <1> QED  BY <1>1, <1>2, <1>3 DEF Init, ShapeInv, RowsShaped, CallShaped, ListingShaped, SweepShaped

\* What a call is made of.
LEMMA CallMade ==
  ASSUME NEW kind \in Kinds, NEW at \in Steps, NEW key \in Keys \cup {Dir}, NEW id \in Ids \cup {0},
         NEW row \in Item \cup {None}, NEW found \in Bytes, NEW new \in Bytes, NEW create \in BOOLEAN
  PROVE  [kind |-> kind, at |-> at, key |-> key, id |-> id, row |-> row, found |-> found,
          new |-> new, create |-> create] \in Call
  <1>1. id \in 0..MaxItems
    BY BoundsAssumption DEF Ids
  <1> QED  BY <1>1 DEF Call

\* The rows that calls write first.
LEMMA RowMade ==
  ASSUME NEW reason \in {"delete", "overwrite"}
  PROVE  /\ \A k \in Keys, c \in Contents : Row(k, c, reason) \in Item /\ Shaped(Row(k, c, reason))
         /\ Row(Dir, Absent, reason) \in Item /\ Shaped(Row(Dir, Absent, reason))
         /\ \A k \in Keys, c \in Contents : [Row(k, c, reason) EXCEPT !.manual = TRUE] \in Item
         /\ \A k \in Keys, c \in Contents : Shaped([Row(k, c, reason) EXCEPT !.manual = TRUE])
  BY DirAssumption DEF Row, Item, Shaped, Bytes

\* The history keeps its type.
LEMMA SpentMoves ==
  ASSUME SpentType
  PROVE  /\ \A kind : Accept(kind) => SpentType' /\ kind \in Kinds
         /\ \A B \in SUBSET Bytes : spent' = Waived(B) => SpentType'
         /\ \A B \in SUBSET Bytes : spent' = [Waived(B) EXCEPT !.calls = @ + 1] => SpentType'
         /\ \A B, C \in SUBSET Bytes : spent' = [Taken(B) EXCEPT !.undone = @ \cup C] => SpentType'
         /\ spent' = [spent EXCEPT !.events = @ + 1] => SpentType'
  <1> USE DEF SpentType
  <1>1. \A kind : Accept(kind) => SpentType' /\ kind \in Kinds
    BY DEF Accept
  <1>2. ASSUME NEW B \in SUBSET Bytes PROVE Waived(B) = [spent EXCEPT !.waived = @ \cup (B \ {Absent})]
    BY DEF Waived
  <1>3. ASSUME NEW B \in SUBSET Bytes, spent' = Waived(B) PROVE SpentType'
    BY <1>2, <1>3
  <1>4. ASSUME NEW B \in SUBSET Bytes, spent' = [Waived(B) EXCEPT !.calls = @ + 1] PROVE SpentType'
    BY <1>2, <1>4
  <1>5. ASSUME NEW B \in SUBSET Bytes, NEW C \in SUBSET Bytes, spent' = [Taken(B) EXCEPT !.undone = @ \cup C]
        PROVE SpentType'
    <2>1. /\ spent.taken \cup (B \ {Absent}) \in SUBSET Bytes /\ spent.waived \ B \in SUBSET Bytes
          /\ (spent.undone \ B) \cup C \in SUBSET Bytes
      OBVIOUS
    <2> QED  BY <1>5, <2>1 DEF Taken
  <1>6. spent' = [spent EXCEPT !.events = @ + 1] => SpentType'
    OBVIOUS
  <1> QED  BY <1>1, <1>3, <1>4, <1>5, <1>6

\* The calls that users and replicas make.
LEMMA AcceptedShape ==
  ASSUME ShapeInv
  PROVE  /\ \A k \in Keys : Remove(k) \/ Propagate(k) => ShapeInv'
         /\ \A k \in Keys, c \in Contents, create \in BOOLEAN : Write(k, c, create) => ShapeInv'
         /\ TrashFolder => ShapeInv'
         /\ \A i \in DOMAIN items : Again(i) \/ Restore(i) \/ Discard(i) => ShapeInv'
  <1> USE DEF ShapeInv, memory
  <1>0. /\ {"retain", "place", "pin", "capture", "look", "purge"} \subseteq Steps
        /\ Absent \in Bytes /\ None \in Item \cup {None} /\ 0 \in Ids \cup {0}
        /\ Contents \subseteq Bytes /\ Bytes \ {Absent} \subseteq Contents
        /\ TRUE \in BOOLEAN /\ FALSE \in BOOLEAN
    BY DEF Steps, Bytes
  <1>00. \A k \in Keys : index[k] \in Bytes /\ disk[k] \in Bytes
    BY DEF TypeOK
  <1>1. ASSUME NEW k \in Keys, Remove(k) PROVE ShapeInv'
    <2>1. call' = [kind |-> "remove", at |-> "retain", key |-> k, id |-> 0, row |-> None, found |-> index[k],
                   new |-> Absent, create |-> FALSE]
      BY <1>1 DEF Remove, Ask
    <2>2. "remove" \in Kinds
      BY <1>1 DEF Remove, Accept
    <2>3. call' \in Call
      BY <1>0, <1>00, <2>1, <2>2, CallMade
    <2>4. CallShaped'
      BY <1>1, <2>1 DEF Remove, CallShaped, KeySteps, RowSteps, PurgeSteps
    <2>5. TypeOK'
      BY <1>1, <2>3 DEF Remove, TypeOK
    <2>6. SpentType'
      BY <1>1, SpentMoves DEF Remove
    <2> QED  BY <1>1, <2>4, <2>5, <2>6 DEF Remove, RowsShaped, ListingShaped, SweepShaped
  <1>2. ASSUME NEW k \in Keys, Propagate(k) PROVE ShapeInv'
    <2> DEFINE row == [Row(k, index[k], "delete") EXCEPT !.manual = TRUE]
    <2>1. row \in Item /\ Shaped(row) /\ row.key = k
      <3>1. index[k] \in Contents
        BY <1>2, <1>0, <1>00 DEF Propagate
      <3> QED  BY <3>1, RowMade DEF Row
    <2>2. items' = Append(items, row) /\ Len(items) < MaxItems
      BY <1>2 DEF Propagate
    <2> HIDE DEF row
    <2>3. /\ items' \in Seq(Item \cup {None}) /\ Len(items') <= MaxItems
          /\ Len(items) + 1 \in Ids /\ DOMAIN items' = DOMAIN items \cup {Len(items) + 1}
          /\ items'[Len(items) + 1] = row /\ \A j \in DOMAIN items : items'[j] = items[j]
      BY <2>1, <2>2, AddRow
    <2>4. call' = [kind |-> "propagate", at |-> "pin", key |-> k, id |-> Len(items) + 1, row |-> row,
                   found |-> index[k], new |-> Absent, create |-> FALSE]
      BY <1>2 DEF Propagate, Ask, row
    <2>5. "propagate" \in Kinds
      BY <1>2 DEF Propagate, Accept
    <2>6. call' \in Call
      BY <1>0, <1>00, <2>1, <2>3, <2>4, <2>5, CallMade
    <2>7. CallShaped'
      <3>1. /\ call'.kind = "propagate" /\ call'.at = "pin" /\ call'.key = k /\ call'.row = row
            /\ call'.id \in DOMAIN items'
        BY <2>3, <2>4
      <3> QED  BY <2>1, <3>1, RowAssumption DEF CallShaped, KeySteps, RowSteps, PurgeSteps
    <2>8. TypeOK'
      BY <1>2, <2>3, <2>6 DEF Propagate, TypeOK
    <2>9. SpentType'
      BY <1>2, SpentMoves DEF Propagate
    <2>10. RowsShaped'
      BY <2>1, <2>3 DEF RowsShaped
    <2>11. ListingShaped' /\ SweepShaped'
      BY <1>2, <2>3 DEF Propagate, ListingShaped, SweepShaped
    <2> QED  BY <2>7, <2>8, <2>9, <2>10, <2>11
  <1>3. ASSUME NEW k \in Keys, NEW c \in Contents, NEW create \in BOOLEAN, Write(k, c, create) PROVE ShapeInv'
    <2> DEFINE at == IF disk[k] = Absent THEN "place" ELSE "retain"
    <2>1. call' = [kind |-> "write", at |-> at, key |-> k, id |-> 0, row |-> None, found |-> disk[k],
                   new |-> c, create |-> create]
      BY <1>3 DEF Write, Ask
    <2>2. "write" \in Kinds /\ at \in Steps /\ at \in {"place", "retain"}
      BY <1>3, <1>0 DEF Write, Accept
    <2> HIDE DEF at
    <2>3. call' \in Call
      BY <1>0, <1>00, <2>1, <2>2, CallMade
    <2>4. CallShaped'
      <3>1. /\ call'.kind = "write" /\ call'.at \in {"place", "retain"} /\ call'.key = k /\ call'.row = None
        BY <2>1, <2>2
      <3>2. Len(items') < MaxItems
        BY <1>3 DEF Write
      <3> QED  BY <3>1, <3>2 DEF CallShaped, KeySteps, RowSteps, PurgeSteps
    <2>5. TypeOK'
      BY <1>3, <1>00, <2>3 DEF Write, TypeOK
    <2>6. SpentType'
      BY <1>3, SpentMoves DEF Write
    <2> QED  BY <1>3, <2>4, <2>5, <2>6 DEF Write, RowsShaped, ListingShaped, SweepShaped
  <1>4. CASE TrashFolder
    <2> DEFINE row == Row(Dir, Absent, "delete")
    <2>1. row \in Item /\ Shaped(row) /\ row.key = Dir
      BY RowMade DEF Row
    <2>2. items' = Append(items, row) /\ Len(items) < MaxItems
      BY <1>4 DEF TrashFolder
    <2> HIDE DEF row
    <2>3. /\ items' \in Seq(Item \cup {None}) /\ Len(items') <= MaxItems
          /\ Len(items) + 1 \in Ids /\ DOMAIN items' = DOMAIN items \cup {Len(items) + 1}
          /\ items'[Len(items) + 1] = row /\ \A j \in DOMAIN items : items'[j] = items[j]
      BY <2>1, <2>2, AddRow
    <2>4. call' = [kind |-> "folder", at |-> "capture", key |-> Dir, id |-> Len(items) + 1, row |-> row,
                   found |-> Absent, new |-> Absent, create |-> FALSE]
      BY <1>4 DEF TrashFolder, Ask, row
    <2>5. "folder" \in Kinds
      BY <1>4 DEF TrashFolder, Accept
    <2>6. call' \in Call
      BY <1>0, <2>1, <2>3, <2>4, <2>5, CallMade
    <2>7. CallShaped'
      <3>1. /\ call'.kind = "folder" /\ call'.at = "capture" /\ call'.key = Dir /\ call'.row = row
            /\ call'.id \in DOMAIN items'
        BY <2>3, <2>4
      <3> QED  BY <2>1, <3>1, RowAssumption DEF CallShaped, KeySteps, RowSteps, PurgeSteps
    <2>8. TypeOK'
      BY <1>4, <2>3, <2>6 DEF TrashFolder, TypeOK
    <2>9. SpentType'
      BY <1>4, SpentMoves DEF TrashFolder
    <2>10. RowsShaped'
      BY <2>1, <2>3 DEF RowsShaped
    <2>11. ListingShaped' /\ SweepShaped'
      BY <1>4, <2>3 DEF TrashFolder, ListingShaped, SweepShaped
    <2> QED  BY <2>7, <2>8, <2>9, <2>10, <2>11
  <1>5. ASSUME NEW i \in DOMAIN items, items[i] # None
        PROVE  /\ items[i] \in Item /\ Shaped(items[i]) /\ i \in Ids
               /\ items[i].key \in Keys \cup {Dir} /\ items[i].content \in Bytes
               /\ items[i].manual => items[i].key \in Keys
    <2>1. items[i] \in Item /\ Shaped(items[i]) /\ i \in Ids
      BY <1>5, RowIds DEF RowsShaped
    <2> QED  BY <2>1 DEF Item, Shaped
  <1>6. ASSUME NEW i \in DOMAIN items, Again(i) PROVE ShapeInv'
    <2> DEFINE row == items[i]
    <2>1. row # None /\ row.manual /\ row.state = "pending" /\ "propagate" \in Kinds
      BY <1>6 DEF Again, Accept
    <2>2. row \in Item /\ Shaped(row) /\ row.key \in Keys /\ row.content \in Bytes /\ i \in Ids
      BY <1>5, <2>1
    <2>3. CASE items' = [items EXCEPT ![i].state = "active"] /\ UNCHANGED call
      <3> DEFINE new == [row EXCEPT !.state = "active"]
      <3>1. new \in Item /\ Shaped(new)
        BY <2>2, RowMoves
      <3>2. items' = [items EXCEPT ![i] = new]
        BY <2>3
      <3> HIDE DEF new
      <3>3. /\ items' \in Seq(Item \cup {None}) /\ Len(items') = Len(items) /\ DOMAIN items' = DOMAIN items
            /\ \A j \in DOMAIN items : items'[j] = IF j = i THEN new ELSE items[j]
        BY <3>1, <3>2, PutRow
      <3>4. TypeOK'
        BY <1>6, <2>3, <3>3 DEF Again, TypeOK
      <3>5. SpentType'
        BY <1>6, SpentMoves DEF Again
      <3>6. RowsShaped'
        BY <3>1, <3>3 DEF RowsShaped
      <3>7. CallShaped' /\ ListingShaped' /\ SweepShaped'
        BY <1>6, <2>3, <3>3 DEF Again, CallShaped, ListingShaped, SweepShaped
      <3> QED  BY <3>4, <3>5, <3>6, <3>7
    <2>4. CASE ~(items' = [items EXCEPT ![i].state = "active"] /\ UNCHANGED call)
      <3> DEFINE at == IF row.ready THEN "retain" ELSE "pin"
      <3>1. /\ call' = [kind |-> "propagate", at |-> at, key |-> row.key, id |-> i, row |-> row,
                        found |-> row.content, new |-> Absent, create |-> FALSE]
            /\ UNCHANGED items
        BY <1>6, <2>4 DEF Again, Ask
      <3>2. at \in Steps /\ at \in {"retain", "pin"}
        BY <1>0
      <3> HIDE DEF at
      <3>3. call' \in Call
        BY <1>0, <2>1, <2>2, <3>1, <3>2, CallMade
      <3>4. CallShaped'
        BY <2>1, <2>2, <3>1, <3>2 DEF CallShaped, KeySteps, RowSteps, PurgeSteps
      <3>5. TypeOK'
        BY <1>6, <3>1, <3>3 DEF Again, TypeOK
      <3>6. SpentType'
        BY <1>6, SpentMoves DEF Again
      <3> QED  BY <1>6, <3>1, <3>4, <3>5, <3>6 DEF Again, RowsShaped, ListingShaped, SweepShaped
    <2> QED  BY <2>3, <2>4
  <1>7. ASSUME NEW i \in DOMAIN items, Restore(i) PROVE ShapeInv'
    <2>1. items[i] # None /\ "restore" \in Kinds
      BY <1>7 DEF Restore, Accept, Offered
    <2>2. call' = [kind |-> "restore", at |-> "look", key |-> items[i].key, id |-> i, row |-> items[i],
                   found |-> Absent, new |-> Absent, create |-> FALSE]
      BY <1>7 DEF Restore, Ask
    <2>3. call' \in Call
      BY <1>0, <1>5, <2>1, <2>2, CallMade
    <2>4. CallShaped'
      <3>1. /\ call'.kind = "restore" /\ call'.at = "look" /\ call'.key = call'.row.key /\ call'.row = items[i]
            /\ call'.id = i
        BY <2>2
      <3>2. DOMAIN items' = DOMAIN items
        BY <1>7 DEF Restore
      <3> QED  BY <1>5, <2>1, <3>1, <3>2 DEF CallShaped, KeySteps, RowSteps, PurgeSteps
    <2>5. TypeOK'
      BY <1>7, <2>3 DEF Restore, TypeOK
    <2>6. SpentType'
      BY <1>7, SpentMoves DEF Restore
    <2> QED  BY <1>7, <2>4, <2>5, <2>6 DEF Restore, RowsShaped, ListingShaped, SweepShaped
  <1>8. ASSUME NEW i \in DOMAIN items, Discard(i) PROVE ShapeInv'
    <2> DEFINE new == [items[i] EXCEPT !.state = "discarding"]
    <2>1. items[i] # None /\ "discard" \in Kinds
      BY <1>8 DEF Discard
    <2>2. new \in Item /\ Shaped(new)
      BY <1>5, <2>1, RowMoves
    <2>3. items' = [items EXCEPT ![i] = new]
      BY <1>8 DEF Discard
    <2> HIDE DEF new
    <2>4. /\ items' \in Seq(Item \cup {None}) /\ Len(items') = Len(items) /\ DOMAIN items' = DOMAIN items
          /\ \A j \in DOMAIN items : items'[j] = IF j = i THEN new ELSE items[j]
      BY <2>2, <2>3, PutRow
    <2>5. call' = [kind |-> "discard", at |-> "purge", key |-> items[i].key, id |-> i, row |-> items[i],
                   found |-> Absent, new |-> Absent, create |-> FALSE]
      BY <1>8 DEF Discard, Ask
    <2>6. call' \in Call
      BY <1>0, <1>5, <2>1, <2>5, CallMade
    <2>7. CallShaped'
      BY <1>5, <2>1, <2>4, <2>5 DEF CallShaped, KeySteps, RowSteps, PurgeSteps
    <2>8. TypeOK'
      BY <1>8, <2>4, <2>6 DEF Discard, TypeOK
    <2>9. SpentType'
      <3>1. {items[i].content} \cup Files(trashed[i]) \subseteq Bytes
        BY <1>5, <2>1 DEF Files, TypeOK
      <3> QED  BY <1>8, <3>1, SpentMoves DEF Discard
    <2>10. RowsShaped'
      BY <2>2, <2>4 DEF RowsShaped
    <2>11. ListingShaped' /\ SweepShaped'
      BY <1>8, <2>4 DEF Discard, ListingShaped, SweepShaped
    <2> QED  BY <2>7, <2>8, <2>9, <2>10, <2>11
  <1> QED  BY <1>1, <1>2, <1>3, <1>4, <1>6, <1>7, <1>8

\* What is known of a call that runs.
LEMMA CallFacts ==
  ASSUME ShapeInv, call # None
  PROVE  /\ call \in Call /\ call.at \in Steps /\ call.kind \in Kinds
         /\ call.key \in Keys \cup {Dir} /\ call.found \in Bytes /\ call.new \in Bytes
         /\ call.row # None =>
              /\ call.row \in Item /\ Shaped(call.row) /\ call.row.key = call.key
              /\ call.id \in DOMAIN items /\ call.id \in Ids
              /\ call.key = Dir => call.row.captured /\ ~call.row.manual
              /\ call.key \in Keys => call.row.content \in Contents
         /\ call.at \in RowSteps => call.row # None
         /\ call.at \in KeySteps => call.key \in Keys
  <1>1. call \in Call
    BY DEF ShapeInv, TypeOK
  <1>2. /\ call.at \in Steps /\ call.kind \in Kinds /\ call.row \in Item \cup {None}
        /\ call.key \in Keys \cup {Dir} /\ call.found \in Bytes /\ call.new \in Bytes
    BY <1>1 DEF Call
  <1>3. DOMAIN items \subseteq Ids
    BY RowIds DEF ShapeInv
  <1>4. call.row # None => Shaped(call.row) /\ call.row.key = call.key /\ call.id \in DOMAIN items
    BY DEF ShapeInv, CallShaped
  <1>5. call.row # None =>
          /\ call.key = Dir => call.row.captured /\ ~call.row.manual
          /\ call.key \in Keys => call.row.content \in Contents
    BY <1>4, DirAssumption DEF Shaped
  <1>6. (call.at \in RowSteps => call.row # None) /\ (call.at \in KeySteps => call.key \in Keys)
    BY DEF ShapeInv, CallShaped
  <1> QED  BY <1>1, <1>2, <1>3, <1>4, <1>5, <1>6

\* The next step of a call keeps its shape when it has what that step needs.
LEMMA GotoShaped ==
  ASSUME ShapeInv, call # None, NEW step \in Steps, Goto(step),
         DOMAIN items' = DOMAIN items, Len(items') = Len(items),
         step \in RowSteps => call.row # None,
         step \in KeySteps => call.key \in Keys,
         step \notin {"retain", "pin"}, step = "record" => call.at = "retain" /\ call.found \in Contents
  PROVE  call' \in Call /\ CallShaped'
  <1>1. call \in Call /\ call' = [call EXCEPT !.at = step]
    BY CallFacts DEF Goto
  <1>2. call' \in Call
    BY <1>1, CallMoves, RowMade
  <1>3. /\ call'.at = step /\ call'.kind = call.kind /\ call'.key = call.key /\ call'.id = call.id
        /\ call'.row = call.row /\ call'.found = call.found
    BY <1>1 DEF Call
  <1>4. CallShaped
    BY DEF ShapeInv
  <1> QED  BY <1>2, <1>3, <1>4 DEF CallShaped

LEMMA MoveShaped ==
  ASSUME ShapeInv, call # None, call.row # None, NEW step \in Steps \ {"retain", "record", "pin"}, NEW row \in Item,
         call' = [call EXCEPT !.at = step, !.row = row], Shaped(row), row.key = call.key,
         DOMAIN items' = DOMAIN items, Len(items') = Len(items),
         step \in KeySteps => call.key \in Keys
  PROVE  call' \in Call /\ CallShaped'
  <1>1. call \in Call
    BY CallFacts
  <1>2. call' \in Call
    BY <1>1, CallMoves
  <1>3. /\ call'.at = step /\ call'.kind = call.kind /\ call'.key = call.key /\ call'.id = call.id
        /\ call'.row = row /\ call'.found = call.found
    BY <1>1 DEF Call
  <1>4. CallShaped
    BY DEF ShapeInv
  <1> QED  BY <1>2, <1>3, <1>4, RowAssumption DEF CallShaped

\* The rows keep their shape, and what refers to them too, when one is written.
LEMMA PutShaped ==
  ASSUME ShapeInv, NEW i \in DOMAIN items, NEW row \in Item \cup {None}, row # None => Shaped(row),
         items' = [items EXCEPT ![i] = row]
  PROVE  /\ items' \in Seq(Item \cup {None}) /\ Len(items') <= MaxItems
         /\ Len(items') = Len(items) /\ DOMAIN items' = DOMAIN items
         /\ RowsShaped'
         /\ UNCHANGED listing => ListingShaped'
         /\ UNCHANGED sweep => SweepShaped'
  <1>1. /\ items' \in Seq(Item \cup {None}) /\ Len(items') = Len(items) /\ DOMAIN items' = DOMAIN items
        /\ \A j \in DOMAIN items : items'[j] = IF j = i THEN row ELSE items[j]
    BY PutRow DEF ShapeInv
  <1>2. RowsShaped'
    BY <1>1 DEF ShapeInv, RowsShaped
  <1>3. (UNCHANGED listing => ListingShaped') /\ (UNCHANGED sweep => SweepShaped')
    BY <1>1 DEF ShapeInv, ListingShaped, SweepShaped
  <1> QED  BY <1>1, <1>2, <1>3 DEF ShapeInv, TypeOK

\* A call that ends leaves nothing in memory.
LEMMA ReturnShaped == Return => CallShaped' /\ call' = None
  BY DEF Return, CallShaped

\* What leaves the rows and the other processes alone keeps their shape.
LEMMA RestShaped ==
  ASSUME ShapeInv, UNCHANGED <<items, listing, sweep>>
  PROVE  /\ RowsShaped' /\ ListingShaped' /\ SweepShaped'
         /\ items' \in Seq(Item \cup {None}) /\ Len(items') <= MaxItems
         /\ DOMAIN items' = DOMAIN items /\ Len(items') = Len(items)
  BY DEF ShapeInv, TypeOK, RowsShaped, ListingShaped, SweepShaped

\* Taking a version off its key.
LEMMA TakingShape ==
  ASSUME ShapeInv
  PROVE  Retain \/ RecordRetained \/ Mark \/ Capture \/ Finish \/ Bare \/ Place \/ Index => ShapeInv'
  <1> USE DEF ShapeInv, memory
  <1> DEFINE c == call.found
             k == call.key
  <1>0. \A key \in Keys : disk[key] \in Bytes /\ index[key] \in Bytes
    BY DEF TypeOK
  <1>00. Steps = {"retain", "record", "mark", "capture", "finish", "bare", "place", "index", "pin", "look", "move",
                  "replace", "blob", "settle", "unpin", "purge", "dereference", "blobs", "forget"}
    BY DEF Steps
  <1>1. CASE Retain
    <2>1. call # None /\ call.at = "retain" /\ k \in Keys
      BY <1>1, CallFacts DEF Retain, At, KeySteps
    <2>2. kept' \subseteq Contents /\ locked' \subseteq Contents
      BY <1>1, <1>0, <2>1 DEF Retain, TypeOK, Bytes
    <2>3. call' \in Call \cup {None} /\ CallShaped'
      <3>1. UNCHANGED items
        BY <1>1 DEF Retain
      <3>2. CASE Return
        BY <3>2, ReturnShaped
      <3>3. CASE Goto("record") /\ disk[k] # Absent /\ (c \in kept \/ disk[k] = c)
        <4>1. c \in Contents
          BY <3>3, <2>1, <1>0 DEF TypeOK, Bytes
        <4> QED  BY <2>1, <3>1, <3>3, <4>1, <1>00, GotoShaped DEF RowSteps, PurgeSteps
      <3>4. CASE Goto(CASE call.kind = "remove" -> "bare" [] call.kind = "write" -> "place" [] OTHER -> "mark")
        <4>1. call.kind \in {"remove", "write", "propagate"} /\ (call.kind = "propagate" => call.row # None)
          BY <2>1 DEF CallShaped
        <4>2. CASE call.kind = "remove"
          BY <2>1, <3>1, <3>4, <4>2, <1>00, GotoShaped DEF RowSteps, PurgeSteps
        <4>3. CASE call.kind = "write"
          BY <2>1, <3>1, <3>4, <4>3, <1>00, GotoShaped DEF RowSteps, PurgeSteps
        <4>4. CASE call.kind = "propagate"
          BY <2>1, <3>1, <3>4, <4>1, <4>4, <1>00, GotoShaped DEF RowSteps, PurgeSteps
        <4> QED  BY <4>1, <4>2, <4>3, <4>4
      <3> QED  BY <1>1, <3>2, <3>3, <3>4 DEF Retain
    <2>4. UNCHANGED <<disk, index, retained, items, trashed, pins, listing, sweep, timer, spent>>
      BY <1>1 DEF Retain
    <2>5. TypeOK'
      BY <2>2, <2>3, <2>4 DEF TypeOK
    <2> QED  BY <2>3, <2>4, <2>5, RestShaped DEF SpentType
  <1>2. CASE RecordRetained
    <2>1. call # None /\ call.at = "record" /\ k \in Keys /\ c \in Contents
      BY <1>2, CallFacts DEF RecordRetained, At, KeySteps, CallShaped
    <2>2. retained' \in [Contents -> Record \cup {None}]
      <3>1. retained[c] \in Record \cup {None}
        BY <2>1 DEF TypeOK
      <3>2. Noted(retained[c], k, call.kind # "remove") \in Record
        BY <2>1, <3>1 DEF Noted, Record
      <3> QED  BY <1>2, <2>1, <3>2 DEF RecordRetained, TypeOK
    <2>3. UNCHANGED <<disk, index, kept, trashed, pins, listing, sweep, spent>> /\ timer' = TRUE /\ locked' = locked \ {c}
      BY <1>2 DEF RecordRetained
    <2>4. CASE call.kind = "propagate"
      <3>1. Goto("mark") /\ UNCHANGED items
        BY <1>2, <2>4 DEF RecordRetained
      <3>2. call.row # None
        BY <2>1, <2>4 DEF CallShaped
      <3>3. call' \in Call /\ CallShaped'
        BY <2>1, <3>1, <3>2, <1>00, GotoShaped
      <3>4. TypeOK'
        BY <2>2, <2>3, <3>1, <3>3 DEF TypeOK
      <3> QED  BY <2>3, <3>1, <3>3, <3>4, RestShaped DEF SpentType
    <2>5. CASE call.kind # "propagate"
      <3> DEFINE row == Row(k, c, IF call.kind = "remove" THEN "delete" ELSE "overwrite")
      <3>1. items' = Append(items, row) /\ call' = [call EXCEPT !.at = "mark", !.id = Len(items) + 1, !.row = row]
        BY <1>2, <2>5 DEF RecordRetained
      <3>2. row \in Item /\ Shaped(row) /\ row.key = k
        BY <2>1, RowMade DEF Row
      <3>3. Len(items) < MaxItems
        BY <2>1, <2>5 DEF CallShaped
      <3> HIDE DEF row
      <3>4. /\ items' \in Seq(Item \cup {None}) /\ Len(items') <= MaxItems
            /\ Len(items) + 1 \in Ids /\ DOMAIN items' = DOMAIN items \cup {Len(items) + 1}
            /\ items'[Len(items) + 1] = row /\ \A j \in DOMAIN items : items'[j] = items[j]
        BY <3>1, <3>2, <3>3, AddRow
      <3>5. call \in Call /\ Len(items) + 1 \in 0..MaxItems
        BY <2>1, <3>4, CallFacts DEF Ids
      <3>6. call' \in Call
        BY <3>1, <3>2, <3>5, <1>00 DEF Call
      <3>7. call'.at = "mark" /\ call'.row = row /\ call'.key = k /\ call'.id = Len(items) + 1
        BY <3>1, <3>5 DEF Call
      <3>8. CallShaped'
        BY <2>1, <3>2, <3>4, <3>7, RowAssumption DEF CallShaped
      <3>9. TypeOK'
        BY <2>2, <2>3, <3>4, <3>6 DEF TypeOK
      <3>10. RowsShaped' /\ ListingShaped' /\ SweepShaped' /\ SpentType'
        BY <2>3, <3>2, <3>4 DEF RowsShaped, ListingShaped, SweepShaped, SpentType
      <3> QED  BY <3>8, <3>9, <3>10
    <2> QED  BY <2>4, <2>5
  <1>3. CASE Mark
    <2> DEFINE row == [call.row EXCEPT !.captured = TRUE]
    <2>1. call # None /\ call.row # None /\ call.row \in Item /\ call.id \in DOMAIN items /\ call.key \in Keys
      BY <1>3, CallFacts DEF Mark, At, RowSteps, KeySteps
    <2>2. row \in Item /\ Shaped(row) /\ row.key = call.key
      BY <2>1, CallFacts, RowMoves DEF Item
    <2>3. /\ items' = [items EXCEPT ![call.id] = row] /\ call' = [call EXCEPT !.at = "capture", !.row = row]
          /\ UNCHANGED <<disk, index, kept, retained, trashed, pins, locked, listing, sweep, timer, spent>>
      BY <1>3 DEF Mark, Put
    <2> HIDE DEF row
    <2>4. /\ items' \in Seq(Item \cup {None}) /\ Len(items') <= MaxItems
          /\ Len(items') = Len(items) /\ DOMAIN items' = DOMAIN items
          /\ RowsShaped' /\ ListingShaped' /\ SweepShaped'
      BY <2>1, <2>2, <2>3, PutShaped
    <2>5. call' \in Call /\ CallShaped'
      BY <2>1, <2>2, <2>3, <2>4, <1>00, MoveShaped DEF KeySteps
    <2> QED  BY <2>3, <2>4, <2>5 DEF TypeOK, SpentType
  <1>4. CASE Capture
    <2> DEFINE tree == [key \in Keys |-> IF key \in Under(call.key) THEN disk[key] ELSE Absent]
    <2>1. call # None /\ call.row # None /\ call.id \in Ids
      BY <1>4, CallFacts DEF Capture, At, RowSteps
    <2>2. tree \in [Keys -> Bytes]
      BY <1>0 DEF Bytes
    <2>3. UNCHANGED <<index, kept, retained, items, pins, locked, listing, sweep, timer>>
      BY <1>4 DEF Capture
    <2>4. call' \in Call \cup {None} /\ CallShaped'
      <3>1. CASE Return
        BY <3>1, ReturnShaped
      <3>2. CASE Goto("finish")
        BY <2>1, <2>3, <3>2, <1>00, GotoShaped DEF KeySteps
      <3> QED  BY <1>4, <3>1, <3>2 DEF Capture
    <2>5. disk' \in [Keys -> Bytes] /\ trashed' \in [Ids -> [Keys -> Bytes]] /\ SpentType'
      <3>1. CASE UNCHANGED <<disk, trashed, spent>>
        BY <3>1 DEF TypeOK, SpentType
      <3>2. CASE /\ trashed' = [trashed EXCEPT ![call.id] = tree]
                 /\ disk' = [key \in Keys |-> IF key \in Under(call.key) THEN Absent ELSE disk[key]]
                 /\ spent' = [Taken(Files(tree)) EXCEPT !.undone = @ \cup (Files(trashed[call.id]) \ Files(tree))]
        <4>1. trashed' \in [Ids -> [Keys -> Bytes]]
          BY <2>1, <2>2, <3>2 DEF TypeOK
        <4>2. disk' \in [Keys -> Bytes]
          BY <1>0, <3>2 DEF Bytes
        <4>3. Files(tree) \in SUBSET Bytes /\ Files(trashed[call.id]) \ Files(tree) \in SUBSET Bytes
          BY <2>1, <2>2 DEF Files, TypeOK
        <4> QED  BY <3>2, <4>1, <4>2, <4>3, SpentMoves
      <3> QED  BY <1>4, <3>1, <3>2 DEF Capture
    <2>6. TypeOK'
      BY <2>3, <2>4, <2>5 DEF TypeOK
    <2> QED  BY <2>3, <2>4, <2>5, <2>6, RestShaped
  <1>5. CASE Finish
    <2> DEFINE row == [call.row EXCEPT !.state = "active"]
    <2>1. call # None /\ call.row # None /\ call.row \in Item /\ call.id \in DOMAIN items /\ Shaped(call.row)
      BY <1>5, CallFacts DEF Finish, At, RowSteps
    <2>2. row \in Item /\ Shaped(row)
      BY <2>1, RowMoves
    <2>3. /\ items' = [items EXCEPT ![call.id] = row]
          /\ UNCHANGED <<disk, kept, retained, trashed, pins, locked, listing, sweep, spent>>
      BY <1>5 DEF Finish, Put
    <2> HIDE DEF row
    <2>4. /\ items' \in Seq(Item \cup {None}) /\ Len(items') <= MaxItems
          /\ Len(items') = Len(items) /\ DOMAIN items' = DOMAIN items
          /\ RowsShaped' /\ ListingShaped' /\ SweepShaped'
      BY <2>1, <2>2, <2>3, PutShaped
    <2>5. call' \in Call \cup {None} /\ CallShaped' /\ index' \in [Keys -> Bytes]
      <3>1. CASE ~Intended
        <4>1. call.key # Dir /\ call.key \in Keys
          BY <2>1, <3>1, CallFacts DEF Intended
        <4>2. Goto("replace") \/ Goto("move")
          BY <1>5, <3>1 DEF Finish
        <4>3. UNCHANGED index
          BY <1>5, <3>1 DEF Finish
        <4> QED  BY <2>1, <2>4, <4>1, <4>2, <4>3, <1>00, GotoShaped DEF TypeOK
      <3>2. CASE Intended /\ call.kind = "write"
        <4>1. Goto("place") /\ UNCHANGED index /\ call.key \in Keys
          BY <1>5, <2>1, <3>2 DEF Finish, CallShaped
        <4> QED  BY <2>1, <2>4, <4>1, <1>00, GotoShaped DEF TypeOK, RowSteps, PurgeSteps
      <3>3. CASE Intended /\ call.kind # "write"
        <4>1. Return /\ index' = [key \in Keys |-> IF key \in Under(call.key) THEN Absent ELSE index[key]]
          BY <1>5, <3>3 DEF Finish
        <4> QED  BY <4>1, <1>0, ReturnShaped DEF Bytes
      <3> QED  BY <3>1, <3>2, <3>3
    <2>6. timer' \in BOOLEAN
      BY <1>5 DEF Finish, TypeOK
    <2>7. TypeOK'
      BY <2>3, <2>4, <2>5, <2>6 DEF TypeOK
    <2> QED  BY <2>3, <2>4, <2>5, <2>7 DEF SpentType
  <1>6. CASE Bare
    <2>1. call # None /\ call.key \in Keys
      BY <1>6, CallFacts DEF Bare, At, KeySteps
    <2>2. /\ disk' = [disk EXCEPT ![call.key] = Absent] /\ index' = [index EXCEPT ![call.key] = Absent]
          /\ spent' = Waived({disk[call.key]}) /\ Return
          /\ UNCHANGED <<kept, retained, items, trashed, pins, locked, listing, sweep, timer>>
      BY <1>6 DEF Bare
    <2>3. disk' \in [Keys -> Bytes] /\ index' \in [Keys -> Bytes]
      BY <2>1, <2>2 DEF TypeOK, Bytes
    <2>4. SpentType'
      BY <1>0, <2>1, <2>2, SpentMoves
    <2> QED  BY <2>2, <2>3, <2>4, ReturnShaped, RestShaped DEF TypeOK
  <1>7. CASE Place
    <2>1. call # None /\ call.key \in Keys /\ call.new \in Bytes
      BY <1>7, CallFacts DEF Place, At, KeySteps
    <2>2. UNCHANGED <<index, kept, retained, items, trashed, pins, locked, listing, sweep, timer>>
      BY <1>7 DEF Place
    <2>3. CASE disk' = [disk EXCEPT ![k] = call.new] /\ spent' = Waived({disk[k]}) /\ Goto("index")
      <3>1. disk' \in [Keys -> Bytes]
        BY <2>1, <2>3 DEF TypeOK
      <3>2. SpentType'
        BY <1>0, <2>1, <2>3, SpentMoves
      <3>3. call' \in Call /\ CallShaped'
        BY <2>1, <2>2, <2>3, <1>00, GotoShaped DEF RowSteps, PurgeSteps
      <3> QED  BY <2>2, <3>1, <3>2, <3>3, RestShaped DEF TypeOK
    <2>4. CASE (Return \/ (call.row # None /\ Goto("move"))) /\ UNCHANGED <<disk, spent>>
      <3>1. call' \in Call \cup {None} /\ CallShaped'
        BY <2>1, <2>2, <2>4, <1>00, GotoShaped, ReturnShaped
      <3> QED  BY <2>2, <2>4, <3>1, RestShaped DEF TypeOK, SpentType
    <2> QED  BY <1>7, <2>3, <2>4 DEF Place
  <1>8. CASE Index
    <2>1. call # None /\ call.key \in Keys /\ call.new \in Bytes
      BY <1>8, CallFacts DEF Index, At, KeySteps
    <2>2. /\ index' = [index EXCEPT ![call.key] = call.new] /\ Return
          /\ UNCHANGED <<disk, kept, retained, items, trashed, pins, locked, listing, sweep, timer, spent>>
      BY <1>8 DEF Index
    <2> QED  BY <2>1, <2>2, ReturnShaped, RestShaped DEF TypeOK, SpentType
  <1> QED  BY <1>1, <1>2, <1>3, <1>4, <1>5, <1>6, <1>7, <1>8

\* Propagated deletions and restores.
LEMMA RestoringShape ==
  ASSUME ShapeInv
  PROVE  Pin \/ Look \/ Move \/ Replace \/ Blob \/ Settle \/ Unpin => ShapeInv'
  <1> USE DEF ShapeInv, memory
  <1>0. \A key \in Keys : disk[key] \in Bytes /\ index[key] \in Bytes
    BY DEF TypeOK
  <1>00. Steps = {"retain", "record", "mark", "capture", "finish", "bare", "place", "index", "pin", "look", "move",
                  "replace", "blob", "settle", "unpin", "purge", "dereference", "blobs", "forget"}
    BY DEF Steps
  <1>1. CASE Pin
    <2> DEFINE row == [call.row EXCEPT !.ready = TRUE]
    <2>1. /\ call # None /\ call.row # None /\ call.row \in Item /\ Shaped(call.row) /\ call.row.key = call.key
          /\ call.id \in DOMAIN items /\ call.id \in Ids /\ call.key \in Keys /\ call.found \in Bytes
      BY <1>1, CallFacts DEF Pin, At, RowSteps, KeySteps
    <2>2. row \in Item /\ Shaped(row) /\ row.key = call.key
      BY <2>1, RowMoves DEF Item
    <2>3. UNCHANGED <<disk, index, kept, retained, trashed, locked, listing, sweep, timer, spent>>
      BY <1>1 DEF Pin
    <2>4. CASE disk[call.key] = call.found
      <3>1. /\ items' = [items EXCEPT ![call.id] = row] /\ pins' = [pins EXCEPT ![call.id] = call.found]
            /\ (call' = [call EXCEPT !.at = "retain", !.row = row] /\ index[call.key] = call.found) \/ Return
        BY <1>1, <2>4 DEF Pin, Put
      <3> HIDE DEF row
      <3>2. /\ items' \in Seq(Item \cup {None}) /\ Len(items') <= MaxItems
            /\ Len(items') = Len(items) /\ DOMAIN items' = DOMAIN items
            /\ RowsShaped' /\ ListingShaped' /\ SweepShaped'
        BY <2>1, <2>2, <2>3, <3>1, PutShaped
      <3>3. call' \in Call \cup {None} /\ CallShaped'
        <4>1. CASE Return
          BY <4>1, ReturnShaped
        <4>2. CASE call' = [call EXCEPT !.at = "retain", !.row = row]
          <5>1. call \in Call /\ call.kind \in Kinds /\ call.at = "pin"
            BY <1>1, <2>1, CallFacts DEF Pin, At
          <5>2. call' \in Call
            <6>1. "retain" \in Steps /\ row \in Item
              BY <2>2, <1>00
            <6>2. [call EXCEPT !.at = "retain", !.row = row] \in Call
              BY <5>1, <6>1, CallMoves
            <6> QED  BY <4>2, <6>2
          <5>3. /\ call'.at = "retain" /\ call'.row = row /\ call'.key = call.key /\ call'.id = call.id
                /\ call'.kind = call.kind
            BY <4>2, <5>1 DEF Call
          <5>4. call.kind = "propagate"
            BY <5>1, <2>1 DEF CallShaped
          <5> QED  BY <2>1, <2>2, <3>2, <5>2, <5>3, <5>4, RowAssumption DEF CallShaped, KeySteps, RowSteps, PurgeSteps
        <4> QED  BY <3>1, <4>1, <4>2
      <3> QED  BY <2>1, <2>3, <3>1, <3>2, <3>3 DEF TypeOK, SpentType
    <2>5. CASE disk[call.key] # call.found
      <3>1. pins' = [pins EXCEPT ![call.id] = Absent] /\ Return /\ UNCHANGED items
        BY <1>1, <2>5 DEF Pin
      <3> QED  BY <2>1, <2>3, <3>1, ReturnShaped, RestShaped DEF TypeOK, SpentType, Bytes
    <2> QED  BY <2>4, <2>5
  <1>2. CASE Look
    <2> DEFINE row == [call.row EXCEPT !.state = "active"]
               at == IF row.manual THEN "replace" ELSE IF row.captured THEN "move" ELSE "blob"
    <2>1. /\ call # None /\ call.row # None /\ call.row \in Item /\ Shaped(call.row) /\ call.row.key = call.key
          /\ call.id \in DOMAIN items
      BY <1>2, CallFacts DEF Look, At, RowSteps
    <2>2. row \in Item /\ Shaped(row) /\ row.key = call.key
      BY <2>1, RowMoves
    <2>3. UNCHANGED <<disk, index, kept, retained, trashed, pins, locked, listing, sweep, timer, spent>>
      BY <1>2 DEF Look
    <2>4. CASE Return /\ UNCHANGED items
      BY <2>3, <2>4, ReturnShaped, RestShaped DEF TypeOK, SpentType
    <2>5. CASE ~(Return /\ UNCHANGED items)
      <3>1. /\ items' = [items EXCEPT ![call.id] = row] \/ UNCHANGED items
            /\ call' = [call EXCEPT !.at = at, !.row = row]
        BY <1>2, <2>5 DEF Look, Put
      <3>2. at \in Steps \ {"retain", "record", "pin"} /\ (at \in KeySteps => call.key \in Keys)
        <4>1. call.key \in Keys \cup {Dir} /\ row.captured = call.row.captured /\ row.manual = call.row.manual
          BY <2>1, CallFacts DEF Item
        <4>2. call.key = Dir => at = "move"
          BY <2>1, <4>1, CallFacts
        <4> QED  BY <4>1, <4>2, <1>00 DEF KeySteps
      <3> HIDE DEF row, at
      <3>3. /\ items' \in Seq(Item \cup {None}) /\ Len(items') <= MaxItems
            /\ Len(items') = Len(items) /\ DOMAIN items' = DOMAIN items
            /\ RowsShaped' /\ ListingShaped' /\ SweepShaped'
        BY <2>1, <2>2, <2>3, <3>1, PutShaped, RestShaped
      <3>4. call' \in Call /\ CallShaped'
        BY <2>1, <2>2, <3>1, <3>2, <3>3, MoveShaped
      <3> QED  BY <2>3, <3>3, <3>4 DEF TypeOK, SpentType
    <2> QED  BY <2>4, <2>5
  <1>3. CASE Move
    <2> DEFINE tree == trashed[call.id]
    <2>1. call # None /\ call.row # None /\ call.id \in Ids
      BY <1>3, CallFacts DEF Move, At, RowSteps
    <2>2. UNCHANGED <<index, kept, retained, items, pins, locked, listing, sweep, timer>>
      BY <1>3 DEF Move
    <2>3. call' \in Call \cup {None} /\ CallShaped'
      <3>1. CASE Return
        BY <3>1, ReturnShaped
      <3>2. CASE Goto("settle")
        BY <2>1, <2>2, <3>2, <1>00, GotoShaped DEF KeySteps
      <3> QED  BY <1>3, <3>1, <3>2 DEF Move
    <2>4. disk' \in [Keys -> Bytes] /\ trashed' \in [Ids -> [Keys -> Bytes]] /\ SpentType'
      <3>1. CASE UNCHANGED <<disk, trashed, spent>>
        BY <3>1 DEF TypeOK, SpentType
      <3>2. CASE /\ disk' = [key \in Keys |-> IF key \in Under(call.key) THEN tree[key] ELSE disk[key]]
                 /\ trashed' = [trashed EXCEPT ![call.id] = Nothing]
                 /\ spent' = [spent EXCEPT !.taken = @ \ Files(tree), !.back = @ \cup {call.id}]
        <4>1. tree \in [Keys -> Bytes] /\ Nothing \in [Keys -> Bytes]
          BY <2>1 DEF TypeOK, Nothing, Bytes
        <4>2. disk' \in [Keys -> Bytes]
          BY <1>0, <3>2, <4>1
        <4>3. trashed' \in [Ids -> [Keys -> Bytes]]
          BY <3>2, <4>1 DEF TypeOK
        <4>4. SpentType'
          BY <2>1, <3>2 DEF SpentType
        <4> QED  BY <4>2, <4>3, <4>4
      <3> QED  BY <1>3, <3>1, <3>2 DEF Move
    <2> QED  BY <2>2, <2>3, <2>4, RestShaped DEF TypeOK
  <1>4. ASSUME NEW bytes \in Bytes, Rewrite("replace", bytes) \/ Rewrite("blob", bytes) PROVE ShapeInv'
    <2>1. call # None /\ call.row # None /\ call.key \in Keys
      BY <1>4, CallFacts DEF Rewrite, At, RowSteps, KeySteps
    <2>2. UNCHANGED <<kept, retained, items, trashed, pins, locked, listing, sweep, timer>>
      BY <1>4 DEF Rewrite
    <2>3. call' \in Call \cup {None} /\ CallShaped'
      <3>1. CASE Return
        BY <3>1, ReturnShaped
      <3>2. CASE Goto("settle")
        BY <2>1, <2>2, <3>2, <1>00, GotoShaped DEF KeySteps
      <3> QED  BY <1>4, <3>1, <3>2 DEF Rewrite
    <2>4. disk' \in [Keys -> Bytes] /\ index' \in [Keys -> Bytes] /\ SpentType'
      <3>1. CASE UNCHANGED <<disk, index, spent>>
        BY <3>1 DEF TypeOK, SpentType
      <3>2. CASE /\ disk' = [disk EXCEPT ![call.key] = bytes] /\ index' = [index EXCEPT ![call.key] = bytes]
                 /\ spent' = [spent EXCEPT !.taken = @ \ {bytes}]
        BY <2>1, <3>2 DEF TypeOK, SpentType
      <3> QED  BY <1>4, <3>1, <3>2 DEF Rewrite
    <2> QED  BY <2>2, <2>3, <2>4, RestShaped DEF TypeOK
  <1>5. CASE Replace
    <2>1. call # None /\ call.id \in Ids
      BY <1>5, CallFacts DEF Replace, Rewrite, At, RowSteps
    <2>2. (IF call = None THEN Absent ELSE IF call.id = 0 THEN Absent ELSE pins[call.id]) \in Bytes
      BY <2>1 DEF TypeOK, Bytes
    <2> QED  BY <1>4, <1>5, <2>2 DEF Replace
  <1>6. CASE Blob
    <2>1. call # None /\ call.row.content \in Bytes
      BY <1>6, CallFacts DEF Blob, Rewrite, At, RowSteps, Item
    <2> DEFINE c == IF call = None THEN Absent ELSE call.row.content
    <2>2. (IF c \in kept /\ retained[c] # None THEN c ELSE Absent) \in Bytes
      BY <2>1 DEF Bytes
    <2> QED  BY <1>4, <1>6, <2>2 DEF Blob
  <1>7. CASE Settle
    <2> DEFINE row == [call.row EXCEPT !.state = "restored"]
    <2>1. /\ call # None /\ call.row # None /\ call.row \in Item /\ Shaped(call.row) /\ call.id \in DOMAIN items
          /\ call.id \in Ids /\ call.key \in Keys \cup {Dir}
      BY <1>7, CallFacts DEF Settle, At, RowSteps
    <2>2. row \in Item /\ Shaped(row)
      BY <2>1, RowMoves
    <2>3. items' = [items EXCEPT ![call.id] = row] /\ UNCHANGED <<disk, kept, retained, trashed, pins, locked, listing, sweep, timer>>
      BY <1>7 DEF Settle, Put
    <2> HIDE DEF row
    <2>4. /\ items' \in Seq(Item \cup {None}) /\ Len(items') <= MaxItems
          /\ Len(items') = Len(items) /\ DOMAIN items' = DOMAIN items
          /\ RowsShaped' /\ ListingShaped' /\ SweepShaped'
      BY <2>1, <2>2, <2>3, PutShaped
    <2>5. index' \in [Keys -> Bytes]
      BY <1>7, <1>0, <2>1 DEF Settle, TypeOK
    <2>6. call' \in Call \cup {None} /\ CallShaped' /\ SpentType'
      <3>1. CASE call.row.manual
        <4>1. Goto("unpin") /\ spent' = [spent EXCEPT !.undone = @ \cup (Files(trashed[call.id]) \ {call.row.content})]
          BY <1>7, <3>1 DEF Settle
        <4>2. Files(trashed[call.id]) \subseteq Bytes
          BY <2>1 DEF Files, TypeOK
        <4>3. SpentType'
          BY <4>1, <4>2 DEF SpentType
        <4>4. call.key \in Keys
          BY <2>1, <3>1, CallFacts
        <4>5. call' \in Call /\ CallShaped'
          BY <2>1, <2>4, <4>1, <4>4, <1>00, GotoShaped
        <4> QED  BY <4>3, <4>5
      <3>2. CASE ~call.row.manual
        <4>1. Return /\ UNCHANGED spent
          BY <1>7, <3>2 DEF Settle
        <4> QED  BY <4>1, ReturnShaped DEF SpentType
      <3> QED  BY <3>1, <3>2
    <2> QED  BY <2>3, <2>4, <2>5, <2>6 DEF TypeOK
  <1>8. CASE Unpin
    <2>1. call # None /\ call.id \in Ids
      BY <1>8, CallFacts DEF Unpin, At, RowSteps
    <2>2. /\ pins' = [pins EXCEPT ![call.id] = Absent] /\ Return
          /\ trashed' = [trashed EXCEPT ![call.id] = Nothing] \/ UNCHANGED trashed
          /\ UNCHANGED <<disk, index, kept, retained, items, locked, listing, sweep, timer, spent>>
      BY <1>8 DEF Unpin
    <2>3. Nothing \in [Keys -> Bytes] /\ Absent \in Bytes
      BY DEF Nothing, Bytes
    <2>4. trashed' \in [Ids -> [Keys -> Bytes]] /\ pins' \in [Ids -> Bytes]
      BY <2>2, <2>3 DEF TypeOK
    <2> QED  BY <2>2, <2>4, ReturnShaped, RestShaped DEF TypeOK, SpentType
  <1> QED  BY <1>1, <1>2, <1>3, <1>5, <1>6, <1>7, <1>8

\* Purging an item.
LEMMA PurgingShape ==
  ASSUME ShapeInv
  PROVE  Purge \/ Dereference \/ Blobs \/ Forget \/ PurgeFails => ShapeInv'
  <1> USE DEF ShapeInv, memory
  <1> DEFINE c == call.row.content
             row == [call.row EXCEPT !.state = "discarded"]
  <1>00. Steps = {"retain", "record", "mark", "capture", "finish", "bare", "place", "index", "pin", "look", "move",
                  "replace", "blob", "settle", "unpin", "purge", "dereference", "blobs", "forget"}
    BY DEF Steps
  <1>1. ASSUME call # None, call.at \in PurgeSteps
        PROVE  /\ call.row # None /\ call.id \in DOMAIN items /\ call.id \in Ids /\ call.row \in Item
               /\ row \in Item /\ Shaped(row)
               /\ call.key \in Keys \cup {Dir} /\ call.row.key = call.key
               /\ call.at # "purge" => call.key \in Keys /\ c \in Contents
    <2>1. call.at \in RowSteps /\ (call.at # "purge" => call.at \in KeySteps)
      BY <1>1 DEF PurgeSteps, RowSteps, KeySteps
    <2>2. call.row # None /\ call.row \in Item /\ Shaped(call.row)
      BY <1>1, <2>1, CallFacts
    <2> QED  BY <1>1, <2>1, <2>2, CallFacts, RowMoves
  <1>2. ASSUME call # None, call.at \in PurgeSteps, Discarded, UNCHANGED <<listing, sweep>>
        PROVE  /\ items' \in Seq(Item \cup {None}) /\ Len(items') <= MaxItems
               /\ RowsShaped' /\ ListingShaped' /\ SweepShaped'
    BY <1>1, <1>2, PutShaped DEF Discarded, Put
  <1>3. CASE Purge
    <2>1. call # None /\ call.at = "purge" /\ call.at \in PurgeSteps
      BY <1>3 DEF Purge, At, PurgeSteps
    <2>2. UNCHANGED <<disk, index, kept, retained, locked, listing, sweep, timer, spent>>
      BY <1>3 DEF Purge
    <2>3. trashed' \in [Ids -> [Keys -> Bytes]] /\ pins' \in [Ids -> Bytes]
      <3>1. /\ trashed' = [trashed EXCEPT ![call.id] = Nothing] \/ trashed' = trashed
            /\ pins' = [pins EXCEPT ![call.id] = Absent] \/ pins' = pins
        BY <1>3 DEF Purge
      <3>2. Nothing \in [Keys -> Bytes] /\ Absent \in Bytes
        BY DEF Nothing, Bytes
      <3> QED  BY <3>1, <3>2 DEF TypeOK
    <2>4. CASE Discarded /\ Return
      BY <1>2, <2>1, <2>2, <2>3, <2>4, ReturnShaped DEF TypeOK, SpentType
    <2>5. CASE ~(Discarded /\ Return)
      <3>1. Goto("dereference") /\ UNCHANGED items /\ call.row.key # Dir
        BY <1>3, <2>5 DEF Purge
      <3>2. call.key \in Keys /\ call.row # None
        BY <1>1, <2>1, <3>1
      <3>3. call' \in Call /\ CallShaped'
        BY <2>1, <3>1, <3>2, <1>00, GotoShaped
      <3> QED  BY <2>2, <2>3, <3>1, <3>3, RestShaped DEF TypeOK, SpentType
    <2> QED  BY <2>4, <2>5
  <1>4. CASE Dereference
    <2>1. call # None /\ call.at = "dereference" /\ call.at \in PurgeSteps /\ c \in Contents /\ call.key \in Keys /\ call.row # None
      BY <1>1, <1>4 DEF Dereference, At, PurgeSteps
    <2>2. UNCHANGED <<disk, index, kept, trashed, pins, listing, sweep, timer, spent>>
      BY <1>4 DEF Dereference
    <2>3. CASE Discarded /\ Return /\ UNCHANGED <<retained, locked>>
      BY <1>2, <2>1, <2>2, <2>3, ReturnShaped DEF TypeOK, SpentType
    <2>4. CASE /\ retained[c] # None /\ retained' = [retained EXCEPT ![c].keys = StillNeeded(call.id, call.row)]
               /\ Discarded /\ Return /\ UNCHANGED locked
      <3>1. retained[c] \in Record
        BY <2>1, <2>4 DEF TypeOK
      <3>2. StillNeeded(call.id, call.row) \subseteq Keys
        BY <3>1 DEF StillNeeded, Record
      <3>3. [retained[c] EXCEPT !.keys = StillNeeded(call.id, call.row)] \in Record
        BY <3>1, <3>2 DEF Record
      <3>4. retained' \in [Contents -> Record \cup {None}]
        BY <2>1, <2>4, <3>3 DEF TypeOK
      <3> QED  BY <1>2, <2>1, <2>2, <2>4, <3>4, ReturnShaped DEF TypeOK, SpentType
    <2>5. CASE locked' = locked \cup {c} /\ Goto("blobs") /\ UNCHANGED <<items, retained>>
      <3>1. call' \in Call /\ CallShaped'
        BY <2>1, <2>2, <2>5, <1>00, GotoShaped
      <3>2. locked' \subseteq Contents
        BY <2>1, <2>5 DEF TypeOK
      <3> QED  BY <2>2, <2>5, <3>1, <3>2, RestShaped DEF TypeOK, SpentType
    <2> QED  BY <1>4, <2>3, <2>4, <2>5 DEF Dereference
  <1>5. CASE Blobs
    <2>1. call # None /\ call.at = "blobs" /\ call.at \in PurgeSteps /\ call.key \in Keys /\ call.row # None
      BY <1>1, <1>5 DEF Blobs, At, PurgeSteps
    <2>2. kept' \subseteq Contents /\ Goto("forget") /\ UNCHANGED <<disk, index, retained, items, trashed, pins, locked, listing, sweep, timer, spent>>
      BY <1>5 DEF Blobs, TypeOK
    <2>3. call' \in Call /\ CallShaped'
      BY <2>1, <2>2, <1>00, GotoShaped
    <2> QED  BY <2>2, <2>3, RestShaped DEF TypeOK, SpentType
  <1>6. CASE Forget
    <2>1. call # None /\ call.at = "forget" /\ call.at \in PurgeSteps
      BY <1>1, <1>6 DEF Forget, At, PurgeSteps
    <2>2. /\ retained' = [retained EXCEPT ![c] = None] /\ locked' = locked \ {c} /\ Discarded /\ Return
          /\ UNCHANGED <<disk, index, kept, trashed, pins, listing, sweep, timer, spent>>
      BY <1>6 DEF Forget
    <2>3. retained' \in [Contents -> Record \cup {None}] /\ locked' \subseteq Contents
      BY <2>2 DEF TypeOK
    <2> QED  BY <1>2, <2>1, <2>2, <2>3, ReturnShaped DEF TypeOK, SpentType
  <1>7. CASE PurgeFails
    <2>1. /\ spent' = [spent EXCEPT !.events = @ + 1] /\ locked' \subseteq locked /\ Return
          /\ UNCHANGED <<disk, index, kept, retained, items, trashed, pins, listing, sweep, timer>>
      BY <1>7 DEF PurgeFails
    <2> QED  BY <2>1, ReturnShaped, RestShaped, SpentMoves DEF TypeOK
  <1> QED  BY <1>3, <1>4, <1>5, <1>6, <1>7

\* The sweep timer.
LEMMA SweepingShape ==
  ASSUME ShapeInv, Sweeping
  PROVE  ShapeInv'
  <1> USE DEF ShapeInv, memory
  <1>0. DOMAIN items \subseteq Ids /\ Ids \subseteq 0..MaxItems /\ 0 \in 0..MaxItems /\ 0 \notin Ids
    BY RowIds, BoundsAssumption DEF Ids
  <1>1. CASE StartSweep
    <2>1. /\ sweep' = [rows |-> {i \in DOMAIN items : Expired(i)}, digests |-> {c \in Contents : retained[c] # None},
                       dropped |-> 0, digest |-> None]
          /\ UNCHANGED <<disk, index, kept, retained, items, trashed, pins, locked, call, listing, timer, spent>>
      BY <1>1 DEF StartSweep
    <2>2. sweep' \in Sweep /\ sweep'.rows \subseteq DOMAIN items /\ sweep'.dropped = 0
      BY <1>0, <2>1 DEF Sweep
    <2> QED  BY <2>1, <2>2 DEF TypeOK, SpentType, RowsShaped, CallShaped, ListingShaped, SweepShaped
  <1>2. CASE SweepTrashed
    <2>1. PICK i \in sweep.rows :
            /\ sweep' = [sweep EXCEPT !.dropped = i]
            /\ \/ trashed' = [trashed EXCEPT ![i] = Nothing] /\ spent' = Waived(Files(trashed[i]))
               \/ UNCHANGED <<trashed, spent>>
      BY <1>2 DEF SweepTrashed
    <2>2. /\ sweep # None
          /\ UNCHANGED <<disk, index, kept, retained, items, pins, locked, call, listing, timer>>
      BY <1>2 DEF SweepTrashed
    <2>3. sweep \in Sweep /\ sweep.rows \subseteq DOMAIN items
      BY <2>2 DEF TypeOK, SweepShaped
    <2>4. sweep' \in Sweep /\ sweep'.rows \subseteq DOMAIN items /\ sweep'.dropped \in DOMAIN items
      BY <1>0, <2>1, <2>3 DEF Sweep
    <2>5. trashed' \in [Ids -> [Keys -> Bytes]] /\ SpentType'
      <3>1. Nothing \in [Keys -> Bytes] /\ Files(trashed[i]) \in SUBSET Bytes
        BY <1>0, <2>1, <2>3 DEF Nothing, Bytes, Files, TypeOK
      <3>2. trashed' = [trashed EXCEPT ![i] = Nothing] \/ UNCHANGED trashed
        BY <2>1
      <3> QED  BY <2>1, <3>1, <3>2, SpentMoves DEF TypeOK, SpentType
    <2> QED  BY <2>2, <2>4, <2>5 DEF TypeOK, RowsShaped, CallShaped, ListingShaped, SweepShaped
  <1>3. CASE SweepRow
    <2>1. /\ sweep # None /\ sweep.dropped # 0 /\ items' = [items EXCEPT ![sweep.dropped] = None]
          /\ sweep' = [sweep EXCEPT !.rows = @ \ {sweep.dropped}, !.dropped = 0]
          /\ UNCHANGED <<disk, index, kept, retained, trashed, pins, locked, call, listing, timer, spent>>
      BY <1>3 DEF SweepRow
    <2>2. sweep \in Sweep /\ sweep.rows \subseteq DOMAIN items /\ sweep.dropped \in DOMAIN items
      BY <2>1 DEF TypeOK, SweepShaped
    <2>3. sweep' \in Sweep /\ sweep'.rows \subseteq DOMAIN items /\ sweep'.dropped = 0
      BY <1>0, <2>1, <2>2 DEF Sweep
    <2>4. /\ items' \in Seq(Item \cup {None}) /\ Len(items') <= MaxItems
          /\ Len(items') = Len(items) /\ DOMAIN items' = DOMAIN items /\ RowsShaped' /\ ListingShaped'
      BY <2>1, <2>2, PutShaped
    <2>5. CallShaped'
      BY <2>1, <2>4 DEF CallShaped
    <2>6. SweepShaped'
      BY <2>3, <2>4 DEF SweepShaped
    <2> QED  BY <2>1, <2>3, <2>4, <2>5, <2>6 DEF TypeOK, SpentType
  <1>4. CASE SweepDigest
    <2>1. PICK c \in sweep.digests \ locked :
            \/ /\ locked' = locked \cup {c} /\ kept' = kept \ {c}
               /\ sweep' = [sweep EXCEPT !.digest = c]
               /\ spent' = Waived({c})
            \/ sweep' = [sweep EXCEPT !.digests = @ \ {c}] /\ UNCHANGED <<locked, kept, spent>>
      BY <1>4 DEF SweepDigest
    <2>2. /\ sweep # None /\ UNCHANGED <<disk, index, retained, items, trashed, pins, call, listing, timer>>
      BY <1>4 DEF SweepDigest
    <2>3. sweep \in Sweep /\ c \in Contents /\ {c} \in SUBSET Bytes
      BY <2>1, <2>2 DEF TypeOK, Sweep, Bytes
    <2>4. sweep' \in Sweep /\ sweep'.rows = sweep.rows /\ sweep'.dropped = sweep.dropped
      BY <2>1, <2>3 DEF Sweep
    <2>5. kept' \subseteq Contents /\ locked' \subseteq Contents /\ SpentType'
      BY <2>1, <2>3, SpentMoves DEF TypeOK, SpentType
    <2> QED  BY <2>2, <2>4, <2>5 DEF TypeOK, RowsShaped, CallShaped, ListingShaped, SweepShaped
  <1>5. CASE SweepRecord
    <2>1. /\ sweep # None /\ retained' = [retained EXCEPT ![sweep.digest] = None] /\ locked' = locked \ {sweep.digest}
          /\ sweep' = [sweep EXCEPT !.digests = @ \ {sweep.digest}, !.digest = None]
          /\ UNCHANGED <<disk, index, kept, items, trashed, pins, call, listing, timer, spent>>
      BY <1>5 DEF SweepRecord
    <2>2. sweep \in Sweep
      BY <2>1 DEF TypeOK
    <2>3. sweep' \in Sweep /\ sweep'.rows = sweep.rows /\ sweep'.dropped = sweep.dropped
      BY <2>1, <2>2 DEF Sweep
    <2>4. retained' \in [Contents -> Record \cup {None}] /\ locked' \subseteq Contents
      BY <2>1 DEF TypeOK
    <2> QED  BY <2>1, <2>3, <2>4 DEF TypeOK, SpentType, RowsShaped, CallShaped, ListingShaped, SweepShaped
  <1>6. CASE EndSweep
    BY <1>6 DEF EndSweep, TypeOK, SpentType, RowsShaped, CallShaped, ListingShaped, SweepShaped
  <1> QED  BY <1>1, <1>2, <1>3, <1>4, <1>5, <1>6 DEF Sweeping

\* Every row that ages is still a row.
LEMMA AgedRows ==
  ASSUME ShapeInv, Age
  PROVE  /\ items' \in Seq(Item \cup {None}) /\ Len(items') = Len(items) /\ DOMAIN items' = DOMAIN items
         /\ \A i \in DOMAIN items :
              items'[i] = IF items[i] = None THEN None ELSE [items[i] EXCEPT !.old = TRUE]
         /\ \A i \in DOMAIN items : items[i] # None =>
              items'[i] \in Item /\ Shaped(items'[i]) /\ items'[i].old /\ items'[i].state = items[i].state
  <1>1. items' = [i \in DOMAIN items |-> IF items[i] = None THEN None ELSE [items[i] EXCEPT !.old = TRUE]]
    BY DEF Age
  <1>2. /\ Len(items) \in Nat /\ DOMAIN items = 1..Len(items)
        /\ \A i \in DOMAIN items : items[i] # None => items[i] \in Item /\ Shaped(items[i])
    BY RowIds DEF ShapeInv, RowsShaped
  <1>3. ASSUME NEW i \in DOMAIN items, items[i] # None, NEW row, row = [items[i] EXCEPT !.old = TRUE]
        PROVE  row \in Item /\ Shaped(row) /\ row.old /\ row.state = items[i].state
    <2>1. items[i] \in Item /\ Shaped(items[i])
      BY <1>2, <1>3
    <2>2. row \in Item /\ Shaped(row)
      BY <1>3, <2>1, RowMoves
    <2>3. row.old /\ row.state = items[i].state
      BY <1>3, <2>1 DEF Item
    <2> QED  BY <2>2, <2>3
  <1>4. items' \in [1..Len(items) -> Item \cup {None}]
    BY <1>1, <1>2, <1>3
  <1>5. items' \in Seq(Item \cup {None}) /\ Len(items') = Len(items)
    BY <1>2, <1>4
  <1> QED  BY <1>1, <1>2, <1>3, <1>5

\* Listings, and what happens outside Stored.
LEMMA OtherShape ==
  ASSUME ShapeInv
  PROVE  /\ \A i \in DOMAIN items : List(i) => ShapeInv'
         /\ ListLook \/ ListFinish \/ Age \/ Crash => ShapeInv'
         /\ \A k \in Keys : Watch(k) => ShapeInv'
         /\ \A k \in Keys, b \in Bytes : Foreign(k, b) => ShapeInv'
  <1> USE DEF ShapeInv, memory
  <1>0. \A key \in Keys : disk[key] \in Bytes /\ index[key] \in Bytes
    BY DEF TypeOK
  <1>1. ASSUME NEW i \in DOMAIN items, List(i) PROVE ShapeInv'
    <2>1. /\ listing' = [id |-> i, row |-> items[i], found |-> FALSE] /\ spent' = [spent EXCEPT !.events = @ + 1]
          /\ items[i] # None /\ items[i].state = "pending" /\ (items[i].manual => items[i].ready)
          /\ UNCHANGED <<disk, index, kept, retained, items, trashed, pins, locked, call, sweep, timer>>
      BY <1>1 DEF List, Offered
    <2>2. items[i] \in Item /\ Shaped(items[i]) /\ i \in Ids
      BY <2>1, RowIds DEF RowsShaped
    <2>3. listing' \in Listing /\ ListingShaped'
      BY <2>1, <2>2 DEF Listing, ListingShaped
    <2> QED  BY <2>1, <2>3, SpentMoves DEF TypeOK, RowsShaped, CallShaped, SweepShaped
  <1>2. CASE ListLook
    <2>1. /\ listing # None
          /\ listing' = [listing EXCEPT !.found = TRUE] \/ listing' = None
          /\ UNCHANGED <<disk, index, kept, retained, items, trashed, pins, locked, call, sweep, timer, spent>>
      BY <1>2 DEF ListLook
    <2>2. listing \in Listing
      BY <2>1 DEF TypeOK
    <2>3. listing' \in Listing \cup {None} /\ ListingShaped'
      BY <2>1, <2>2 DEF Listing, ListingShaped
    <2> QED  BY <2>1, <2>3 DEF TypeOK, RowsShaped, CallShaped, SweepShaped, SpentType
  <1>3. CASE ListFinish
    <2> DEFINE row == [listing.row EXCEPT !.state = "active"]
    <2>1. /\ listing # None /\ items' = [items EXCEPT ![listing.id] = row] /\ listing' = None
          /\ spent' = spent \/ spent' = [spent EXCEPT !.stale = @ \cup {listing.id}]
          /\ UNCHANGED <<disk, index, kept, retained, trashed, pins, locked, call, sweep, timer>>
      BY <1>3 DEF ListFinish
    <2>2. listing.id \in DOMAIN items /\ listing.id \in Ids /\ row \in Item /\ Shaped(row)
      <3>1. listing.row \in Item /\ Shaped(listing.row) /\ listing.id \in DOMAIN items
        <4>1. listing \in Listing
          BY <2>1 DEF TypeOK
        <4> QED  BY <2>1, <4>1 DEF Listing, ListingShaped
      <3>2. row = [listing.row EXCEPT !.state = "active"]
        OBVIOUS
      <3> HIDE DEF row
      <3> QED  BY <3>1, <3>2, RowMoves, RowIds
    <2> HIDE DEF row
    <2>3. /\ items' \in Seq(Item \cup {None}) /\ Len(items') <= MaxItems /\ Len(items') = Len(items)
          /\ DOMAIN items' = DOMAIN items /\ RowsShaped' /\ SweepShaped'
      BY <2>1, <2>2, PutShaped
    <2>4. SpentType'
      BY <2>1, <2>2 DEF SpentType
    <2>5. CallShaped' /\ ListingShaped'
      BY <2>1, <2>3 DEF CallShaped, ListingShaped
    <2> QED  BY <2>1, <2>3, <2>4, <2>5 DEF TypeOK
  <1>4. CASE Age
    <2>1. /\ call = None /\ listing = None /\ sweep = None /\ spent' = [spent EXCEPT !.events = @ + 1]
          /\ UNCHANGED <<disk, index, kept, trashed, pins, memory>>
      BY <1>4 DEF Age
    <2>2. retained' = [c \in Contents |-> IF retained[c] = None THEN None ELSE [retained[c] EXCEPT !.old = TRUE]]
      BY <1>4 DEF Age
    <2>3. retained' \in [Contents -> Record \cup {None}]
      <3>1. \A c \in Contents : retained[c] # None => [retained[c] EXCEPT !.old = TRUE] \in Record
        BY DEF TypeOK, Record
      <3> QED  BY <2>2, <3>1
    <2>4. items' \in Seq(Item \cup {None}) /\ Len(items') = Len(items) /\ DOMAIN items' = DOMAIN items /\ RowsShaped'
      BY <1>4, AgedRows DEF RowsShaped
    <2>5. CallShaped' /\ ListingShaped' /\ SweepShaped'
      BY <2>1 DEF CallShaped, ListingShaped, SweepShaped
    <2> QED  BY <2>1, <2>3, <2>4, <2>5, SpentMoves DEF TypeOK
  <1>5. CASE Crash
    BY <1>5, SpentMoves DEF Crash, TypeOK, RowsShaped, CallShaped, ListingShaped, SweepShaped
  <1>6. ASSUME NEW k \in Keys, Watch(k) PROVE ShapeInv'
    BY <1>0, <1>6 DEF Watch, TypeOK, SpentType, RowsShaped, CallShaped, ListingShaped, SweepShaped
  <1>7. ASSUME NEW k \in Keys, NEW b \in Bytes, Foreign(k, b) PROVE ShapeInv'
    <2>1. SpentType'
      BY <1>7, SpentMoves DEF Foreign
    <2> QED  BY <1>7, <2>1 DEF Foreign, TypeOK, RowsShaped, CallShaped, ListingShaped, SweepShaped
  <1> QED  BY <1>1, <1>2, <1>3, <1>4, <1>5, <1>6, <1>7

LEMMA StutterShape == ShapeInv /\ UNCHANGED vars => ShapeInv'
  BY DEF ShapeInv, vars, memory, TypeOK, SpentType, RowsShaped, CallShaped, ListingShaped, SweepShaped

LEMMA ShapeStep == ShapeInv /\ [Next]_vars => ShapeInv'
  <1> SUFFICES ASSUME ShapeInv, [Next]_vars PROVE ShapeInv'
    OBVIOUS
  <1>1. CASE Calls
    BY <1>1, AcceptedShape DEF Calls
  <1>2. CASE Step
    BY <1>2, TakingShape, RestoringShape, PurgingShape DEF Step
  <1>3. CASE Sweeping
    BY <1>3, SweepingShape
  <1>4. CASE ListLook \/ ListFinish
    BY <1>4, OtherShape
  <1>5. CASE Environment
    BY <1>5, OtherShape, PurgingShape DEF Environment
  <1>6. CASE UNCHANGED vars
    BY <1>6, StutterShape
  <1> QED  BY <1>1, <1>2, <1>3, <1>4, <1>5, <1>6 DEF Next

\* The state keeps its type and its shape for every instance: whatever a call, a
\* listing or a sweep does next finds in memory what that step needs.
THEOREM ShapeCorrect == Spec => []ShapeInv
  BY InitShape, ShapeStep, PTL DEF Spec

\* The state of the disk, the database and the memory keeps its type.
THEOREM TypeCorrect == Spec => []TypeOK
  <1>1. ShapeInv => TypeOK
    BY DEF ShapeInv
  <1> QED  BY <1>1, ShapeCorrect, PTL

-----------------------------------------------------------------------------
(***************************************************************************)
(* Copies of a row in memory                                                *)
(***************************************************************************)

\* What no writer of a row changes.
Same(r, s) == r.key = s.key /\ r.content = s.content /\ r.manual = s.manual /\ r.old = s.old

\* A row is gone only because it expired.
Copy(row, i) ==
  IF items[i] = None THEN row.old /\ ~row.manual ELSE Same(items[i], row)

\* What the callers hold in memory against the rows in the database.
CopiesTrue ==
  /\ call # None /\ call.row # None =>
       /\ Copy(call.row, call.id)
       /\ items[call.id] # None /\ call.id \notin spent.stale =>
            items[call.id].captured = call.row.captured /\ items[call.id].ready = call.row.ready
  /\ listing # None => Copy(listing.row, listing.id)
  /\ call # None /\ call.row # None /\ listing # None /\ listing.id = call.id => Same(call.row, listing.row)
  /\ sweep # None =>
       \A i \in sweep.rows \cup ({sweep.dropped} \ {0}) : items[i] # None => items[i].old /\ ~items[i].manual

\* The state of the row under the call that holds it.
StageTrue ==
  call # None /\ call.row # None =>
    /\ call.at \notin PurgeSteps => call.row.state \in {"pending", "active"}
    /\ items[call.id] # None =>
         /\ call.at \in PurgeSteps => items[call.id].state = "discarding" \/ call.id \in spent.stale
         /\ call.at = "unpin" => items[call.id].state = "restored" \/ call.id \in spent.stale
         /\ call.at = "unpin" => items[call.id].state \in {"restored", "active"}
         /\ call.at \notin PurgeSteps \cup {"unpin"} => items[call.id].state \in {"pending", "active"}

RowInv == CopiesTrue /\ StageTrue

LEMMA InitRow == Init => RowInv
  BY DEF Init, RowInv, CopiesTrue, StageTrue

\* What is known of a call that holds a row.
LEMMA RowFacts ==
  ASSUME ShapeInv, RowInv, call # None, call.row # None
  PROVE  /\ call.id \in DOMAIN items /\ call.row \in Item /\ items[call.id] \in Item \cup {None}
         /\ Copy(call.row, call.id)
         /\ items[call.id] # None /\ call.id \notin spent.stale =>
              items[call.id].captured = call.row.captured /\ items[call.id].ready = call.row.ready
         /\ listing # None /\ listing.id = call.id => Same(call.row, listing.row)
  BY CallFacts, RowIds DEF ShapeInv, RowInv, CopiesTrue

\* A call that moves on with the row it holds.
LEMMA KeepCopies ==
  ASSUME ShapeInv, RowInv, UNCHANGED <<items, listing, sweep>>, spent'.stale = spent.stale,
         call' # None /\ call'.row # None =>
           /\ call # None /\ call.row # None /\ call'.id = call.id /\ Same(call'.row, call.row)
           /\ call'.row.captured = call.row.captured /\ call'.row.ready = call.row.ready
  PROVE  CopiesTrue'
  BY DEF RowInv, CopiesTrue, Copy, Same

\* A call that writes its row.
LEMMA PutCopies ==
  ASSUME ShapeInv, RowInv, call # None, call.row # None, NEW row \in Item, Same(row, call.row),
         items' = [items EXCEPT ![call.id] = row], UNCHANGED <<listing, sweep>>, spent'.stale = spent.stale,
         call' # None /\ call'.row # None =>
           /\ call'.id = call.id /\ Same(call'.row, row)
           /\ call'.row.captured = row.captured /\ call'.row.ready = row.ready
  PROVE  CopiesTrue'
  <1> DEFINE id == call.id
  <1>1. /\ id \in DOMAIN items /\ DOMAIN items' = DOMAIN items /\ row # None
        /\ \A j \in DOMAIN items : items'[j] = IF j = id THEN row ELSE items[j]
    BY RowFacts, PutRow, RowAssumption DEF ShapeInv
  <1>2. CopiesTrue /\ ListingShaped /\ SweepShaped
    BY DEF RowInv, ShapeInv
  <1>3. call' # None /\ call'.row # None =>
          /\ Copy(call.row, call.id)'
          /\ items'[call'.id].captured = call'.row.captured /\ items'[call'.id].ready = call'.row.ready
    BY <1>1 DEF Copy, Same
  <1>4. listing' # None => Copy(listing.row, listing.id)'
    BY <1>1, <1>2, RowFacts DEF ListingShaped, CopiesTrue, Copy, Same
  <1>5. call' # None /\ call'.row # None /\ listing' # None /\ listing'.id = call'.id => Same(call'.row, listing'.row)
    BY RowFacts DEF Same
  <1>6. ASSUME sweep # None, NEW i \in sweep.rows \cup ({sweep.dropped} \ {0})
        PROVE  items'[i] # None => items'[i].old /\ ~items'[i].manual
    <2>1. i \in DOMAIN items /\ (items[i] # None => items[i].old /\ ~items[i].manual)
      BY <1>2, <1>6 DEF CopiesTrue, SweepShaped
    <2>2. CASE i = id
      BY <1>1, <2>1, <2>2, RowFacts DEF Copy, Same
    <2> QED  BY <1>1, <2>1, <2>2
  <1> QED  BY <1>3, <1>4, <1>5, <1>6 DEF CopiesTrue

\* A call that writes a new row.
LEMMA AddCopies ==
  ASSUME ShapeInv, RowInv, NEW row \in Item, items' = Append(items, row), Len(items) < MaxItems,
         UNCHANGED <<listing, sweep>>, spent'.stale = spent.stale,
         call'.id = Len(items) + 1, call'.row = row
  PROVE  CopiesTrue' /\ items'[call'.id] = row
  <1>1. /\ Len(items) + 1 \notin DOMAIN items /\ items'[Len(items) + 1] = row /\ row # None
        /\ \A j \in DOMAIN items : items'[j] = items[j]
    BY AddRow, RowAssumption DEF ShapeInv
  <1>2. CopiesTrue /\ ListingShaped /\ SweepShaped
    BY DEF RowInv, ShapeInv
  <1>3. listing' # None => Copy(listing.row, listing.id)' /\ listing'.id # call'.id
    BY <1>1, <1>2 DEF ListingShaped, CopiesTrue, Copy
  <1>4. Copy(call.row, call.id)'
    BY <1>1 DEF Copy, Same
  <1>5. ASSUME sweep # None, NEW i \in sweep.rows \cup ({sweep.dropped} \ {0})
        PROVE  items'[i] # None => items'[i].old /\ ~items'[i].manual
    BY <1>1, <1>2, <1>5 DEF CopiesTrue, SweepShaped
  <1> QED  BY <1>1, <1>3, <1>4, <1>5 DEF CopiesTrue

\* A call that takes a row into memory, whose state it may change at once.
LEMMA TakeCopies ==
  ASSUME ShapeInv, RowInv, call = None, NEW i \in DOMAIN items, items[i] # None, NEW row \in Item,
         Same(row, items[i]), row.captured = items[i].captured, row.ready = items[i].ready,
         items' = [items EXCEPT ![i] = row], UNCHANGED <<listing, sweep>>, spent'.stale = spent.stale,
         call' # None => call'.id = i /\ call'.row = items[i]
  PROVE  CopiesTrue' /\ items'[i] = row
  <1>1. /\ DOMAIN items' = DOMAIN items /\ row # None
        /\ \A j \in DOMAIN items : items'[j] = IF j = i THEN row ELSE items[j]
    BY PutRow, RowAssumption DEF ShapeInv
  <1>2. CopiesTrue /\ ListingShaped /\ SweepShaped
    BY DEF RowInv, ShapeInv
  <1>3. listing' # None => Copy(listing.row, listing.id)'
    BY <1>1, <1>2 DEF ListingShaped, CopiesTrue, Copy, Same
  <1>4. call' # None => Copy(call.row, call.id)'
    BY <1>1 DEF Copy, Same
  <1>5. call' # None /\ listing' # None /\ listing'.id = call'.id => Same(call'.row, listing'.row)
    BY <1>2 DEF CopiesTrue, Copy, Same
  <1>6. ASSUME sweep # None, NEW j \in sweep.rows \cup ({sweep.dropped} \ {0})
        PROVE  items'[j] # None => items'[j].old /\ ~items'[j].manual
    BY <1>1, <1>2, <1>6 DEF CopiesTrue, SweepShaped, Same
  <1> QED  BY <1>1, <1>3, <1>4, <1>5, <1>6 DEF CopiesTrue

\* What the steps write into the history leaves the stale rows alone.
LEMMA StaleKept ==
  ASSUME SpentType
  PROVE  /\ \A kind : Accept(kind) => spent'.stale = spent.stale
         /\ \A B : Waived(B).stale = spent.stale /\ [Waived(B) EXCEPT !.calls = @ + 1].stale = spent.stale
         /\ \A B, C : [Taken(B) EXCEPT !.undone = @ \cup C].stale = spent.stale
         /\ \A B : [spent EXCEPT !.taken = @ \ B].stale = spent.stale
         /\ \A B, C : [spent EXCEPT !.taken = @ \ B, !.back = @ \cup C].stale = spent.stale
         /\ \A B : [spent EXCEPT !.undone = @ \cup B].stale = spent.stale
         /\ [spent EXCEPT !.events = @ + 1].stale = spent.stale
  <1>1. \A kind : Accept(kind) => spent'.stale = spent.stale
    BY DEF SpentType, Accept
  <1>2. \A B : Waived(B).stale = spent.stale /\ [Waived(B) EXCEPT !.calls = @ + 1].stale = spent.stale
    BY DEF SpentType, Waived
  <1>3. \A B, C : [Taken(B) EXCEPT !.undone = @ \cup C].stale = spent.stale
    BY DEF SpentType, Taken
  <1>4. /\ \A B : [spent EXCEPT !.taken = @ \ B].stale = spent.stale
        /\ \A B, C : [spent EXCEPT !.taken = @ \ B, !.back = @ \cup C].stale = spent.stale
        /\ \A B : [spent EXCEPT !.undone = @ \cup B].stale = spent.stale
        /\ [spent EXCEPT !.events = @ + 1].stale = spent.stale
    BY DEF SpentType
  <1> QED  BY <1>1, <1>2, <1>3, <1>4

\* A step that goes on to another one of the same kind, or ends its call.
LEMMA WalkRow ==
  ASSUME ShapeInv, RowInv, call # None, UNCHANGED <<items, listing, sweep>>, spent'.stale = spent.stale,
         NEW step \in Steps, Goto(step) \/ Return,
         call.row # None => (step \in PurgeSteps <=> call.at \in PurgeSteps) /\ (step = "unpin" <=> call.at = "unpin")
  PROVE  RowInv'
  <1>1. CASE Return
    <2>1. call' = None
      BY <1>1 DEF Return
    <2> QED  BY <2>1, KeepCopies DEF RowInv, StageTrue
  <1>2. CASE Goto(step)
    <2>1. call'.at = step /\ call'.row = call.row /\ call'.id = call.id
      BY <1>2, CallFacts DEF Goto, Call
    <2>2. CopiesTrue'
      BY <2>1, KeepCopies DEF Same
    <2>3. StageTrue'
      BY <2>1 DEF RowInv, StageTrue
    <2> QED  BY <2>2, <2>3 DEF RowInv
  <1> QED  BY <1>1, <1>2

\* The steps that go on without writing a row.
LEMMA WalkingRow ==
  ASSUME ShapeInv, RowInv
  PROVE  Retain \/ Capture \/ Bare \/ Place \/ Index \/ Move \/ Replace \/ Blob \/ Blobs \/ Unpin \/ PurgeFails => RowInv'
  <1> USE DEF PurgeSteps
  <1>0. SpentType
    BY DEF ShapeInv
  <1>00. Steps = {"retain", "record", "mark", "capture", "finish", "bare", "place", "index", "pin", "look", "move",
                  "replace", "blob", "settle", "unpin", "purge", "dereference", "blobs", "forget"}
    BY DEF Steps
  <1>1. CASE Retain
    <2>1. call # None /\ call.at = "retain" /\ UNCHANGED <<items, listing, sweep, spent>>
      BY <1>1 DEF Retain, At
    <2>2. PICK step \in {"bare", "place", "mark", "record"} : Goto(step) \/ Return
      BY <1>1 DEF Retain
    <2> QED  BY <2>1, <2>2, <1>00, WalkRow
  <1>2. CASE Capture
    <2>1. call # None /\ call.at = "capture" /\ UNCHANGED <<items, listing, sweep>> /\ (Goto("finish") \/ Return)
      BY <1>2 DEF Capture, At
    <2>2. spent'.stale = spent.stale
      <3>1. spent' = spent \/ \E B, C : spent' = [Taken(B) EXCEPT !.undone = @ \cup C]
        BY <1>2 DEF Capture
      <3> QED  BY <1>0, <3>1, StaleKept
    <2> QED  BY <2>1, <2>2, <1>00, WalkRow
  <1>3. CASE Bare
    <2>1. call # None /\ call.at = "bare" /\ UNCHANGED <<items, listing, sweep>> /\ Return
      BY <1>3 DEF Bare, At
    <2>2. spent'.stale = spent.stale
      BY <1>0, <1>3, StaleKept DEF Bare
    <2> QED  BY <2>1, <2>2, <1>00, WalkRow
  <1>4. CASE Place
    <2>1. call # None /\ call.at = "place" /\ UNCHANGED <<items, listing, sweep>>
      BY <1>4 DEF Place, At
    <2>2. spent'.stale = spent.stale
      BY <1>0, <1>4, StaleKept DEF Place
    <2>3. PICK step \in {"index", "move"} : Goto(step) \/ Return
      BY <1>4 DEF Place
    <2> QED  BY <2>1, <2>2, <2>3, <1>00, WalkRow
  <1>5. CASE Index
    <2>1. call # None /\ call.at = "index" /\ UNCHANGED <<items, listing, sweep, spent>> /\ Return
      BY <1>5 DEF Index, At
    <2> QED  BY <2>1, <1>00, WalkRow
  <1>6. CASE Move
    <2>1. call # None /\ call.at = "move" /\ UNCHANGED <<items, listing, sweep>> /\ (Goto("settle") \/ Return)
      BY <1>6 DEF Move, At
    <2>2. spent'.stale = spent.stale
      BY <1>0, <1>6 DEF Move, SpentType
    <2> QED  BY <2>1, <2>2, <1>00, WalkRow
  <1>7. ASSUME NEW bytes, Rewrite("replace", bytes) \/ Rewrite("blob", bytes) PROVE RowInv'
    <2>1. call # None /\ call.at \in {"replace", "blob"} /\ UNCHANGED <<items, listing, sweep>> /\ (Goto("settle") \/ Return)
      BY <1>7 DEF Rewrite, At
    <2>2. spent'.stale = spent.stale
      BY <1>0, <1>7, StaleKept DEF Rewrite
    <2> QED  BY <2>1, <2>2, <1>00, WalkRow
  <1>8. CASE Replace \/ Blob
    BY <1>7, <1>8 DEF Replace, Blob
  <1>9. CASE Blobs
    <2>1. call # None /\ call.at = "blobs" /\ UNCHANGED <<items, listing, sweep, spent>> /\ Goto("forget")
      BY <1>9 DEF Blobs, At
    <2> QED  BY <2>1, <1>00, WalkRow
  <1>10. CASE Unpin
    <2>1. call # None /\ call.at = "unpin" /\ UNCHANGED <<items, listing, sweep, spent>> /\ Return
      BY <1>10 DEF Unpin, At
    <2> QED  BY <2>1, <1>00, WalkRow
  <1>11. CASE PurgeFails
    <2>1. call # None /\ call.at \in Steps /\ UNCHANGED <<items, listing, sweep>> /\ Return
      BY <1>11, CallFacts DEF PurgeFails, At
    <2>2. spent'.stale = spent.stale
      BY <1>0, <1>11, StaleKept DEF PurgeFails
    <2> QED  BY <2>1, <2>2, WalkRow
  <1> QED  BY <1>1, <1>2, <1>3, <1>4, <1>5, <1>6, <1>8, <1>9, <1>10, <1>11

\* A step that writes the row of its call in another state.
LEMMA WriteRow ==
  ASSUME ShapeInv, RowInv, call # None, call.row # None, NEW row \in Item, Same(row, call.row),
         items' = [items EXCEPT ![call.id] = row], UNCHANGED <<listing, sweep>>, spent'.stale = spent.stale,
         \/ call' = None
         \/ /\ call' # None /\ call'.id = call.id /\ Same(call'.row, row)
            /\ call'.row.captured = row.captured /\ call'.row.ready = row.ready
            /\ call'.at \notin PurgeSteps /\ call'.row.state \in {"pending", "active"}
            /\ IF call'.at = "unpin" THEN row.state = "restored" ELSE row.state \in {"pending", "active"}
  PROVE  RowInv'
  <1>1. CopiesTrue'
    BY PutCopies
  <1>2. items'[call.id] = row
    BY PutRow, RowFacts DEF ShapeInv
  <1>3. StageTrue'
    BY <1>2 DEF StageTrue
  <1> QED  BY <1>1, <1>3 DEF RowInv

\* The steps that write a row.
LEMMA WritingRow ==
  ASSUME ShapeInv, RowInv
  PROVE  RecordRetained \/ Mark \/ Finish \/ Pin \/ Look \/ Settle \/ Purge \/ Dereference \/ Forget => RowInv'
  <1>0. SpentType
    BY DEF ShapeInv
  <1>00. Steps = {"retain", "record", "mark", "capture", "finish", "bare", "place", "index", "pin", "look", "move",
                  "replace", "blob", "settle", "unpin", "purge", "dereference", "blobs", "forget"}
    BY DEF Steps
  <1>1. CASE RecordRetained
    <2>1. call # None /\ call.at = "record" /\ call \in Call /\ UNCHANGED <<listing, sweep, spent>>
          /\ call.key \in Keys /\ call.found \in Contents
      BY <1>1, CallFacts DEF RecordRetained, At, KeySteps, ShapeInv, CallShaped
    <2>2. CASE call.kind = "propagate"
      <3>1. Goto("mark") /\ UNCHANGED items
        BY <1>1, <2>2 DEF RecordRetained
      <3> QED  BY <2>1, <3>1, <1>00, WalkRow DEF PurgeSteps
    <2>3. CASE call.kind # "propagate"
      <3> DEFINE row == Row(call.key, call.found, IF call.kind = "remove" THEN "delete" ELSE "overwrite")
      <3>1. items' = Append(items, row) /\ call' = [call EXCEPT !.at = "mark", !.id = Len(items) + 1, !.row = row]
        BY <1>1, <2>3 DEF RecordRetained
      <3>2. row \in Item /\ row.state = "pending"
        BY <2>1, RowMade DEF Row
      <3>3. Len(items) < MaxItems
        BY <2>1, <2>3 DEF ShapeInv, CallShaped
      <3> HIDE DEF row
      <3>4. call'.at = "mark" /\ call'.row = row /\ call'.id = Len(items) + 1
        BY <2>1, <3>1 DEF Call
      <3>5. CopiesTrue' /\ items'[call'.id] = row
        BY <2>1, <3>1, <3>2, <3>3, <3>4, AddCopies
      <3>6. StageTrue'
        BY <3>2, <3>4, <3>5 DEF StageTrue, PurgeSteps
      <3> QED  BY <3>5, <3>6 DEF RowInv
    <2> QED  BY <2>2, <2>3
  <1>2. CASE Mark
    <2> DEFINE row == [call.row EXCEPT !.captured = TRUE]
    <2>1. call # None /\ call.row # None /\ call.row \in Item /\ call \in Call /\ call.at = "mark"
      BY <1>2, CallFacts DEF Mark, At, RowSteps
    <2>2. row \in Item /\ Same(row, call.row) /\ row.state = call.row.state
      BY <2>1 DEF Same, Item
    <2>3. /\ items' = [items EXCEPT ![call.id] = row] /\ call' = [call EXCEPT !.at = "capture", !.row = row]
          /\ UNCHANGED <<listing, sweep, spent>>
      BY <1>2 DEF Mark, Put
    <2> HIDE DEF row
    <2>4. call'.at = "capture" /\ call'.row = row /\ call'.id = call.id
      BY <2>1, <2>3 DEF Call
    <2>5. row.state \in {"pending", "active"}
      BY <2>1, <2>2 DEF RowInv, StageTrue, PurgeSteps
    <2> QED  BY <2>1, <2>2, <2>3, <2>4, <2>5, WriteRow DEF PurgeSteps, Same
  <1>3. CASE Finish
    <2> DEFINE row == [call.row EXCEPT !.state = "active"]
    <2>1. call # None /\ call.row # None /\ call.row \in Item /\ call \in Call /\ call.at = "finish"
      BY <1>3, CallFacts DEF Finish, At, RowSteps
    <2>2. /\ row \in Item /\ Same(row, call.row) /\ row.state = "active"
          /\ row.captured = call.row.captured /\ row.ready = call.row.ready
      BY <2>1 DEF Same, Item
    <2>3. items' = [items EXCEPT ![call.id] = row] /\ UNCHANGED <<listing, sweep, spent>>
      BY <1>3 DEF Finish, Put
    <2> HIDE DEF row
    <2>4. PICK step \in {"replace", "move", "place"} : Goto(step) \/ Return
      BY <1>3 DEF Finish
    <2>5. call' = None \/ (call'.at = step /\ call'.row = call.row /\ call'.id = call.id)
      BY <2>1, <2>4 DEF Goto, Return, Call
    <2>6. call.row.state \in {"pending", "active"}
      BY <2>1 DEF RowInv, StageTrue, PurgeSteps
    <2> QED  BY <2>1, <2>2, <2>3, <2>5, <2>6, WriteRow DEF PurgeSteps, Same
  <1>4. CASE Pin
    <2> DEFINE row == [call.row EXCEPT !.ready = TRUE]
    <2>1. call # None /\ call.row # None /\ call.row \in Item /\ call \in Call /\ call.at = "pin"
      BY <1>4, CallFacts DEF Pin, At, RowSteps
    <2>2. row \in Item /\ Same(row, call.row) /\ row.state = call.row.state
      BY <2>1 DEF Same, Item
    <2>3. UNCHANGED <<listing, sweep, spent>>
      BY <1>4 DEF Pin
    <2>4. CASE Return /\ UNCHANGED items
      BY <2>1, <2>3, <2>4, <1>00, WalkRow DEF PurgeSteps
    <2>5. CASE ~(Return /\ UNCHANGED items)
      <3>1. /\ items' = [items EXCEPT ![call.id] = row]
            /\ call' = [call EXCEPT !.at = "retain", !.row = row] \/ call' = None
        BY <1>4, <2>5 DEF Pin, Put, Return
      <3> HIDE DEF row
      <3>2. call' = None \/ (call'.at = "retain" /\ call'.row = row /\ call'.id = call.id)
        BY <2>1, <3>1 DEF Call
      <3>3. row.state \in {"pending", "active"}
        BY <2>1, <2>2 DEF RowInv, StageTrue, PurgeSteps
      <3> QED  BY <2>1, <2>2, <2>3, <3>1, <3>2, <3>3, WriteRow DEF PurgeSteps, Same
    <2> QED  BY <2>4, <2>5
  <1>5. CASE Look
    <2> DEFINE row == [call.row EXCEPT !.state = "active"]
               at == IF row.manual THEN "replace" ELSE IF row.captured THEN "move" ELSE "blob"
    <2>1. call # None /\ call.row # None /\ call.row \in Item /\ call \in Call /\ call.at = "look"
      BY <1>5, CallFacts DEF Look, At, RowSteps
    <2>2. /\ row \in Item /\ Same(row, call.row) /\ row.state = "active"
          /\ row.captured = call.row.captured /\ row.ready = call.row.ready
      BY <2>1 DEF Same, Item
    <2>3. UNCHANGED <<listing, sweep, spent>>
      BY <1>5 DEF Look
    <2>4. CASE Return /\ UNCHANGED items
      BY <2>1, <2>3, <2>4, <1>00, WalkRow DEF PurgeSteps
    <2>5. CASE ~(Return /\ UNCHANGED items)
      <3>1. /\ items' = [items EXCEPT ![call.id] = row] \/ UNCHANGED items
            /\ call' = [call EXCEPT !.at = at, !.row = row]
        BY <1>5, <2>5 DEF Look, Put
      <3>2. at \in {"replace", "move", "blob"}
        OBVIOUS
      <3> HIDE DEF row, at
      <3>3. call'.at = at /\ call'.row = row /\ call'.id = call.id
        BY <2>1, <3>1 DEF Call
      <3>4. CASE items' = [items EXCEPT ![call.id] = row]
        BY <2>1, <2>2, <2>3, <3>1, <3>2, <3>3, <3>4, WriteRow DEF PurgeSteps, Same
      <3>5. CASE UNCHANGED items
        <4>1. CopiesTrue'
          BY <2>1, <2>2, <2>3, <3>3, <3>5, KeepCopies
        <4>2. items[call.id] # None => items[call.id].state \in {"pending", "active"}
          BY <2>1 DEF RowInv, StageTrue, PurgeSteps
        <4>3. StageTrue'
          BY <2>2, <3>2, <3>3, <3>5, <4>2 DEF StageTrue, PurgeSteps
        <4> QED  BY <4>1, <4>3 DEF RowInv
      <3> QED  BY <3>1, <3>4, <3>5
    <2> QED  BY <2>4, <2>5
  <1>6. CASE Settle
    <2> DEFINE row == [call.row EXCEPT !.state = "restored"]
    <2>1. call # None /\ call.row # None /\ call.row \in Item /\ call \in Call /\ call.at = "settle"
      BY <1>6, CallFacts DEF Settle, At, RowSteps
    <2>2. /\ row \in Item /\ Same(row, call.row) /\ row.state = "restored"
          /\ row.captured = call.row.captured /\ row.ready = call.row.ready
      BY <2>1 DEF Same, Item
    <2>3. items' = [items EXCEPT ![call.id] = row] /\ UNCHANGED <<listing, sweep>> /\ (Goto("unpin") \/ Return)
      BY <1>6 DEF Settle, Put
    <2>4. spent'.stale = spent.stale
      BY <1>0, <1>6, StaleKept DEF Settle
    <2> HIDE DEF row
    <2>5. call' = None \/ (call'.at = "unpin" /\ call'.row = call.row /\ call'.id = call.id)
      BY <2>1, <2>3 DEF Goto, Return, Call
    <2>6. call.row.state \in {"pending", "active"}
      BY <2>1 DEF RowInv, StageTrue, PurgeSteps
    <2> QED  BY <2>1, <2>2, <2>3, <2>4, <2>5, <2>6, WriteRow DEF PurgeSteps, Same
  <1>7. ASSUME call # None, call.at \in PurgeSteps, Discarded, Return, UNCHANGED <<listing, sweep, spent>> PROVE RowInv'
    <2> DEFINE row == [call.row EXCEPT !.state = "discarded"]
    <2>1. call.row # None /\ call.row \in Item
      BY <1>7, CallFacts DEF RowSteps
    <2>2. row \in Item /\ Same(row, call.row)
      BY <2>1 DEF Same, Item
    <2>3. items' = [items EXCEPT ![call.id] = row] /\ call' = None
      BY <1>7 DEF Discarded, Put, Return
    <2> HIDE DEF row
    <2> QED  BY <1>7, <2>1, <2>2, <2>3, WriteRow
  <1>8. CASE Purge
    <2>1. call # None /\ call.at = "purge" /\ UNCHANGED <<listing, sweep, spent>>
      BY <1>8 DEF Purge, At
    <2>2. (Discarded /\ Return) \/ (Goto("dereference") /\ UNCHANGED items)
      BY <1>8 DEF Purge
    <2> QED  BY <2>1, <2>2, <1>7, <1>00, WalkRow DEF PurgeSteps
  <1>9. CASE Dereference
    <2>1. call # None /\ call.at = "dereference" /\ UNCHANGED <<listing, sweep, spent>>
      BY <1>9 DEF Dereference, At
    <2>2. (Discarded /\ Return) \/ (Goto("blobs") /\ UNCHANGED items)
      BY <1>9 DEF Dereference
    <2> QED  BY <2>1, <2>2, <1>7, <1>00, WalkRow DEF PurgeSteps
  <1>10. CASE Forget
    BY <1>7, <1>10 DEF Forget, At, PurgeSteps
  <1> QED  BY <1>1, <1>2, <1>3, <1>4, <1>5, <1>6, <1>8, <1>9, <1>10

\* A call that starts without a row.
LEMMA AskRow ==
  ASSUME ShapeInv, RowInv, UNCHANGED <<items, listing, sweep>>, spent'.stale = spent.stale, call'.row = None
  PROVE  RowInv'
  BY KeepCopies DEF RowInv, StageTrue

\* The calls that users and replicas make.
LEMMA AcceptedRow ==
  ASSUME ShapeInv, RowInv
  PROVE  /\ \A k \in Keys : Remove(k) \/ Propagate(k) => RowInv'
         /\ \A k \in Keys, c \in Contents, create \in BOOLEAN : Write(k, c, create) => RowInv'
         /\ TrashFolder => RowInv'
         /\ \A i \in DOMAIN items : Again(i) \/ Restore(i) \/ Discard(i) => RowInv'
  <1>0. SpentType
    BY DEF ShapeInv
  <1>1. ASSUME NEW k \in Keys, Remove(k) PROVE RowInv'
    <2>1. UNCHANGED <<items, listing, sweep>> /\ call'.row = None
      BY <1>1 DEF Remove, Ask
    <2>2. spent'.stale = spent.stale
      BY <1>0, <1>1, StaleKept DEF Remove
    <2> QED  BY <2>1, <2>2, AskRow
  <1>2. ASSUME NEW k \in Keys, NEW c \in Contents, NEW create \in BOOLEAN, Write(k, c, create) PROVE RowInv'
    <2>1. UNCHANGED <<items, listing, sweep>> /\ call'.row = None
      BY <1>2 DEF Write, Ask
    <2>2. spent'.stale = spent.stale
      BY <1>0, <1>2, StaleKept DEF Write
    <2> QED  BY <2>1, <2>2, AskRow
  <1>3. ASSUME NEW k \in Keys, Propagate(k) PROVE RowInv'
    <2> DEFINE row == [Row(k, index[k], "delete") EXCEPT !.manual = TRUE]
    <2>1. row \in Item /\ row.state = "pending"
      <3>1. index[k] \in Contents
        BY <1>3 DEF Propagate, ShapeInv, TypeOK, Bytes
      <3> QED  BY <3>1, RowMade DEF Row
    <2>2. items' = Append(items, row) /\ Len(items) < MaxItems /\ UNCHANGED <<listing, sweep>>
      BY <1>3 DEF Propagate
    <2>3. call'.at = "pin" /\ call'.row = row /\ call'.id = Len(items) + 1
      BY <1>3 DEF Propagate, Ask
    <2>4. spent'.stale = spent.stale
      BY <1>0, <1>3, StaleKept DEF Propagate
    <2> HIDE DEF row
    <2>5. CopiesTrue' /\ items'[call'.id] = row
      BY <2>1, <2>2, <2>3, <2>4, AddCopies
    <2>6. StageTrue'
      BY <2>1, <2>3, <2>5 DEF StageTrue, PurgeSteps
    <2> QED  BY <2>5, <2>6 DEF RowInv
  <1>4. CASE TrashFolder
    <2> DEFINE row == Row(Dir, Absent, "delete")
    <2>1. row \in Item /\ row.state = "pending"
      BY RowMade DEF Row
    <2>2. items' = Append(items, row) /\ Len(items) < MaxItems /\ UNCHANGED <<listing, sweep>>
      BY <1>4 DEF TrashFolder
    <2>3. call'.at = "capture" /\ call'.row = row /\ call'.id = Len(items) + 1
      BY <1>4 DEF TrashFolder, Ask
    <2>4. spent'.stale = spent.stale
      BY <1>0, <1>4, StaleKept DEF TrashFolder
    <2> HIDE DEF row
    <2>5. CopiesTrue' /\ items'[call'.id] = row
      BY <2>1, <2>2, <2>3, <2>4, AddCopies
    <2>6. StageTrue'
      BY <2>1, <2>3, <2>5 DEF StageTrue, PurgeSteps
    <2> QED  BY <2>5, <2>6 DEF RowInv
  <1>5. ASSUME NEW i \in DOMAIN items, items[i] # None
        PROVE  items[i] \in Item /\ items = [items EXCEPT ![i] = items[i]]
    <2>1. items \in Seq(Item \cup {None}) /\ items[i] \in Item
      BY <1>5, RowIds DEF ShapeInv, TypeOK
    <2> QED  BY <2>1
  <1>6. ASSUME NEW i \in DOMAIN items, Again(i) PROVE RowInv'
    <2> DEFINE active == [items[i] EXCEPT !.state = "active"]
    <2>1. /\ call = None /\ items[i] # None /\ items[i].state = "pending" /\ UNCHANGED <<listing, sweep>>
      BY <1>6 DEF Again, Accept
    <2>2. spent'.stale = spent.stale
      BY <1>0, <1>6, StaleKept DEF Again
    <2>3. items[i] \in Item
      BY <1>5, <2>1
    <2>4. active \in Item /\ Same(active, items[i]) /\ active.captured = items[i].captured /\ active.ready = items[i].ready
      BY <2>3 DEF Same, Item
    <2>5. CASE items' = [items EXCEPT ![i].state = "active"] /\ UNCHANGED call
      <3>1. items' = [items EXCEPT ![i] = active] /\ call' = None
        BY <2>1, <2>5
      <3> HIDE DEF active
      <3>2. CopiesTrue'
        BY <2>1, <2>2, <2>4, <3>1, TakeCopies
      <3> QED  BY <3>1, <3>2 DEF RowInv, StageTrue
    <2>6. CASE ~(items' = [items EXCEPT ![i].state = "active"] /\ UNCHANGED call)
      <3>1. UNCHANGED items /\ call'.at \in {"retain", "pin"} /\ call'.id = i /\ call'.row = items[i]
        BY <1>6, <2>6 DEF Again, Ask
      <3>2. CopiesTrue'
        BY <1>5, <2>1, <2>2, <2>3, <3>1, TakeCopies DEF Same
      <3>3. StageTrue'
        BY <2>1, <3>1 DEF StageTrue, PurgeSteps
      <3> QED  BY <3>2, <3>3 DEF RowInv
    <2> QED  BY <2>5, <2>6
  <1>7. ASSUME NEW i \in DOMAIN items, Restore(i) PROVE RowInv'
    <2>1. /\ call = None /\ items[i] # None /\ ~Ended(items[i]) /\ items[i].state # "discarding"
          /\ UNCHANGED <<items, listing, sweep>>
      BY <1>7 DEF Restore, Accept, Offered
    <2>2. spent'.stale = spent.stale
      BY <1>0, <1>7, StaleKept DEF Restore
    <2>3. call'.at = "look" /\ call'.id = i /\ call'.row = items[i]
      BY <1>7 DEF Restore, Ask
    <2>4. items[i].state \in {"pending", "active"}
      BY <1>5, <2>1 DEF Item, Ended
    <2>5. CopiesTrue'
      BY <1>5, <2>1, <2>2, <2>3, TakeCopies DEF Same
    <2>6. StageTrue'
      BY <2>1, <2>3, <2>4 DEF StageTrue, PurgeSteps
    <2> QED  BY <2>5, <2>6 DEF RowInv
  <1>8. ASSUME NEW i \in DOMAIN items, Discard(i) PROVE RowInv'
    <2> DEFINE row == [items[i] EXCEPT !.state = "discarding"]
    <2>1. call = None /\ items[i] # None /\ UNCHANGED <<listing, sweep>>
      BY <1>8 DEF Discard
    <2>2. spent'.stale = spent.stale
      BY <1>0, <1>8, StaleKept DEF Discard
    <2>3. call'.at = "purge" /\ call'.id = i /\ call'.row = items[i]
      BY <1>8 DEF Discard, Ask
    <2>4. /\ row \in Item /\ Same(row, items[i]) /\ row.captured = items[i].captured /\ row.ready = items[i].ready
          /\ row.state = "discarding"
      BY <1>5, <2>1 DEF Same, Item
    <2>5. items' = [items EXCEPT ![i] = row]
      BY <1>8 DEF Discard
    <2> HIDE DEF row
    <2>6. CopiesTrue' /\ items'[i] = row
      BY <2>1, <2>2, <2>3, <2>4, <2>5, TakeCopies
    <2>7. StageTrue'
      BY <2>3, <2>4, <2>6 DEF StageTrue, PurgeSteps
    <2> QED  BY <2>6, <2>7 DEF RowInv
  <1> QED  BY <1>1, <1>2, <1>3, <1>4, <1>6, <1>7, <1>8

\* The sweep takes rows that are old and not propagated ones.
LEMMA SweepingRow ==
  ASSUME ShapeInv, RowInv, Sweeping
  PROVE  RowInv'
  <1>0. CopiesTrue /\ StageTrue /\ SpentType /\ SweepShaped /\ ListingShaped
    BY DEF RowInv, ShapeInv
  <1>1. ASSUME UNCHANGED <<items, call, listing>>, spent'.stale = spent.stale,
               sweep' # None => \A i \in sweep'.rows \cup ({sweep'.dropped} \ {0}) :
                                  items[i] # None => items[i].old /\ ~items[i].manual
        PROVE  RowInv'
    BY <1>0, <1>1 DEF RowInv, CopiesTrue, StageTrue, Copy, Same
  <1>2. CASE StartSweep
    <2>1. /\ sweep'.rows = {i \in DOMAIN items : Expired(i)} /\ sweep'.dropped = 0
          /\ UNCHANGED <<items, call, listing, spent>>
      BY <1>2 DEF StartSweep
    <2> QED  BY <1>1, <2>1 DEF Expired
  <1>3. CASE SweepTrashed
    <2>1. PICK i \in sweep.rows :
            sweep' = [sweep EXCEPT !.dropped = i] /\ (spent' = Waived(Files(trashed[i])) \/ UNCHANGED spent)
      BY <1>3 DEF SweepTrashed
    <2>2. sweep # None /\ sweep \in Sweep /\ UNCHANGED <<items, call, listing>>
      BY <1>3 DEF SweepTrashed, ShapeInv, TypeOK
    <2>3. sweep'.rows = sweep.rows /\ sweep'.dropped \in sweep.rows
      BY <2>1, <2>2 DEF Sweep
    <2>4. spent'.stale = spent.stale
      BY <1>0, <2>1, StaleKept
    <2> QED  BY <1>0, <1>1, <2>2, <2>3, <2>4 DEF CopiesTrue
  <1>4. CASE SweepRow
    <2> DEFINE d == sweep.dropped
    <2>1. /\ sweep # None /\ d # 0 /\ items' = [items EXCEPT ![d] = None]
          /\ sweep' = [sweep EXCEPT !.rows = @ \ {d}, !.dropped = 0]
          /\ UNCHANGED <<call, listing, spent>> /\ sweep \in Sweep
      BY <1>4 DEF SweepRow, ShapeInv, TypeOK
    <2>2. sweep'.rows = sweep.rows \ {d} /\ sweep'.dropped = 0
      BY <2>1 DEF Sweep
    <2>3. d \in DOMAIN items /\ sweep.rows \subseteq DOMAIN items /\ (items[d] # None => items[d].old /\ ~items[d].manual)
      BY <1>0, <2>1 DEF SweepShaped, CopiesTrue
    <2>4. \A j \in DOMAIN items : items'[j] = IF j = d THEN None ELSE items[j]
      BY <2>1, <2>3, PutRow DEF ShapeInv
    <2>5. call # None /\ call.row # None => Copy(call.row, call.id)'
      BY <2>1, <2>3, <2>4, RowFacts DEF Copy, Same
    <2>6. listing # None => Copy(listing.row, listing.id)'
      BY <1>0, <2>1, <2>3, <2>4 DEF ListingShaped, CopiesTrue, Copy, Same
    <2>7. CopiesTrue'
      BY <1>0, <2>1, <2>2, <2>3, <2>4, <2>5, <2>6, RowFacts DEF CopiesTrue
    <2>8. StageTrue'
      BY <1>0, <2>1, <2>4, RowFacts DEF StageTrue
    <2> QED  BY <2>7, <2>8 DEF RowInv
  <1>5. CASE SweepDigest
    <2>1. PICK c : \/ sweep' = [sweep EXCEPT !.digest = c] /\ spent' = Waived({c})
                   \/ sweep' = [sweep EXCEPT !.digests = @ \ {c}] /\ UNCHANGED spent
      BY <1>5 DEF SweepDigest
    <2>2. sweep # None /\ sweep \in Sweep /\ UNCHANGED <<items, call, listing>>
      BY <1>5 DEF SweepDigest, ShapeInv, TypeOK
    <2>3. sweep'.rows = sweep.rows /\ sweep'.dropped = sweep.dropped
      BY <2>1, <2>2 DEF Sweep
    <2>4. spent'.stale = spent.stale
      BY <1>0, <2>1, StaleKept
    <2> QED  BY <1>0, <1>1, <2>2, <2>3, <2>4 DEF CopiesTrue
  <1>6. CASE SweepRecord
    <2>1. /\ sweep # None /\ sweep' = [sweep EXCEPT !.digests = @ \ {sweep.digest}, !.digest = None] /\ sweep \in Sweep
          /\ UNCHANGED <<items, call, listing, spent>>
      BY <1>6 DEF SweepRecord, ShapeInv, TypeOK
    <2>2. sweep'.rows = sweep.rows /\ sweep'.dropped = sweep.dropped
      BY <2>1 DEF Sweep
    <2> QED  BY <1>0, <1>1, <2>1, <2>2 DEF CopiesTrue
  <1>7. CASE EndSweep
    BY <1>1, <1>7 DEF EndSweep
  <1> QED  BY <1>2, <1>3, <1>4, <1>5, <1>6, <1>7 DEF Sweeping

\* Listings, and what happens outside Stored.
LEMMA OtherRow ==
  ASSUME ShapeInv, RowInv
  PROVE  /\ \A i \in DOMAIN items : List(i) => RowInv'
         /\ ListLook \/ ListFinish \/ Age \/ Crash => RowInv'
         /\ \A k \in Keys : Watch(k) => RowInv'
         /\ \A k \in Keys, b \in Bytes : Foreign(k, b) => RowInv'
  <1> USE DEF memory
  <1>0. CopiesTrue /\ StageTrue /\ SpentType /\ SweepShaped /\ ListingShaped
    BY DEF RowInv, ShapeInv
  <1>1. ASSUME UNCHANGED <<items, call, sweep>>, spent'.stale = spent.stale,
               listing' # None => Copy(listing'.row, listing'.id),
               listing' # None /\ call # None /\ call.row # None /\ listing'.id = call.id => Same(call.row, listing'.row)
        PROVE  RowInv'
    BY <1>0, <1>1 DEF RowInv, CopiesTrue, StageTrue, Copy
  <1>2. ASSUME NEW i \in DOMAIN items, List(i) PROVE RowInv'
    <2>1. /\ listing' = [id |-> i, row |-> items[i], found |-> FALSE] /\ items[i] # None
          /\ UNCHANGED <<items, call, sweep>> /\ spent' = [spent EXCEPT !.events = @ + 1]
      BY <1>2 DEF List, Offered
    <2>2. Copy(listing'.row, listing'.id)
      BY <2>1 DEF Copy, Same
    <2>3. call # None /\ call.row # None /\ listing'.id = call.id => Same(call.row, listing'.row)
      BY <1>0, <2>1 DEF CopiesTrue, Copy, Same
    <2> QED  BY <1>0, <1>1, <2>1, <2>2, <2>3, StaleKept
  <1>3. CASE ListLook
    <2>1. /\ listing # None /\ UNCHANGED <<items, call, sweep, spent>> /\ listing \in Listing
          /\ listing' = [listing EXCEPT !.found = TRUE] \/ listing' = None
      BY <1>3 DEF ListLook, ShapeInv, TypeOK
    <2>2. listing' # None => listing'.id = listing.id /\ listing'.row = listing.row
      BY <2>1 DEF Listing
    <2> QED  BY <1>0, <1>1, <2>1, <2>2 DEF CopiesTrue
  <1>4. CASE ListFinish
    <2> DEFINE row == [listing.row EXCEPT !.state = "active"]
               i == listing.id
    <2>1. /\ listing # None /\ items' = [items EXCEPT ![i] = row] /\ listing' = None
          /\ spent' = IF items[i] = listing.row THEN spent ELSE [spent EXCEPT !.stale = @ \cup {i}]
          /\ UNCHANGED <<call, sweep>>
      BY <1>4 DEF ListFinish
    <2>2. /\ i \in DOMAIN items /\ listing.row \in Item /\ listing.row.state = "pending"
          /\ Copy(listing.row, i)
      BY <1>0, <2>1 DEF ListingShaped, CopiesTrue, ShapeInv, TypeOK, Listing
    <2>3. /\ row \in Item /\ row # None /\ Same(row, listing.row) /\ row.state = "active"
          /\ row.captured = listing.row.captured /\ row.ready = listing.row.ready
      BY <2>2, RowAssumption DEF Same, Item
    <2>4. spent'.stale = spent.stale \cup (IF items[i] = listing.row THEN {} ELSE {i})
      BY <1>0, <2>1 DEF SpentType
    <2> HIDE DEF row
    <2>5. \A j \in DOMAIN items : items'[j] = IF j = i THEN row ELSE items[j]
      BY <2>1, <2>2, <2>3, PutRow DEF ShapeInv
    <2>6. ASSUME call # None, call.row # None
          PROVE  /\ Copy(call.row, call.id)'
                 /\ items'[call.id] # None /\ call.id \notin spent'.stale =>
                      items'[call.id].captured = call.row.captured /\ items'[call.id].ready = call.row.ready
      <3>1. CASE call.id = i
        <4>1. Same(call.row, listing.row)
          BY <2>1, <2>6, <3>1, RowFacts
        <4>2. Copy(call.row, call.id)'
          BY <2>1, <2>2, <2>3, <2>5, <3>1, <4>1 DEF Copy, Same
        <4> QED  BY <2>1, <2>2, <2>3, <2>4, <2>5, <2>6, <3>1, <4>2, RowFacts, RowAssumption
      <3>2. CASE call.id # i
        BY <2>1, <2>4, <2>5, <2>6, <3>2, RowFacts DEF Copy
      <3> QED  BY <3>1, <3>2
    <2>7. ASSUME sweep # None, NEW j \in sweep.rows \cup ({sweep.dropped} \ {0})
          PROVE  items'[j] # None => items'[j].old /\ ~items'[j].manual
      <3>1. j \in DOMAIN items /\ (items[j] # None => items[j].old /\ ~items[j].manual)
        BY <1>0, <2>7 DEF CopiesTrue, SweepShaped
      <3> QED  BY <2>2, <2>3, <2>5, <3>1 DEF Copy, Same
    <2>8. CopiesTrue'
      BY <2>1, <2>6, <2>7 DEF CopiesTrue
    <2>9. StageTrue'
      <3>1. ASSUME call # None, call.row # None, call.id = i
            PROVE  call.at \in PurgeSteps \cup {"unpin"} => i \in spent'.stale
        <4>1. call.at \in PurgeSteps \cup {"unpin"} => i \in spent.stale \/ items[i] # listing.row
          BY <1>0, <2>2, <3>1, RowAssumption DEF StageTrue
        <4> QED  BY <2>4, <4>1
      <3>2. ASSUME call # None, call.row # None PROVE call.id \in DOMAIN items /\ spent.stale \subseteq spent'.stale
        BY <2>4, <3>2, RowFacts
      <3> QED  BY <1>0, <2>1, <2>3, <2>5, <3>1, <3>2 DEF StageTrue
    <2> QED  BY <2>8, <2>9 DEF RowInv
  <1>5. CASE Age
    BY <1>5 DEF Age, RowInv, CopiesTrue, StageTrue
  <1>6. CASE Crash
    BY <1>6 DEF Crash, RowInv, CopiesTrue, StageTrue
  <1>7. ASSUME NEW k \in Keys, Watch(k) PROVE RowInv'
    BY <1>0, <1>1, <1>7 DEF Watch, CopiesTrue
  <1>8. ASSUME NEW k \in Keys, NEW b \in Bytes, Foreign(k, b) PROVE RowInv'
    <2>1. spent'.stale = spent.stale
      BY <1>0, <1>8, StaleKept DEF Foreign
    <2> QED  BY <1>0, <1>1, <1>8, <2>1 DEF Foreign, CopiesTrue
  <1> QED  BY <1>2, <1>3, <1>4, <1>5, <1>6, <1>7, <1>8

LEMMA RowStep == ShapeInv /\ RowInv /\ [Next]_vars => RowInv'
  <1> SUFFICES ASSUME ShapeInv, RowInv, [Next]_vars PROVE RowInv'
    OBVIOUS
  <1>1. CASE Calls
    BY <1>1, AcceptedRow DEF Calls
  <1>2. CASE Step
    BY <1>2, WalkingRow, WritingRow DEF Step
  <1>3. CASE Sweeping
    BY <1>3, SweepingRow
  <1>4. CASE ListLook \/ ListFinish
    BY <1>4, OtherRow
  <1>5. CASE Environment
    BY <1>5, OtherRow, WalkingRow DEF Environment
  <1>6. CASE UNCHANGED vars
    BY <1>6 DEF vars, memory, RowInv, CopiesTrue, StageTrue, Copy, Same
  <1> QED  BY <1>1, <1>2, <1>3, <1>4, <1>5, <1>6 DEF Next

\* A copy of a row in memory is never about another key or content than the row in
\* the database, and a row that is gone had expired: the writers that read a row,
\* wait and write it do not revive or replace one of another deletion.
THEOREM RowsCorrect == Spec => []RowInv
  BY ShapeCorrect, InitRow, RowStep, PTL DEF Spec

(***************************************************************************)
(* A recorded purge is final                                                *)
(***************************************************************************)

Over(row) == row.state \in {"discarding", "discarded"}

StaysOver == \A i \in DOMAIN items : items[i] # None /\ Over(items[i]) =>
               items'[i] = None \/ Over(items'[i]) \/ Relisted(i)

\* A row written over one that is not over, or by one that is.
LEMMA PutOver ==
  ASSUME ShapeInv, NEW i \in DOMAIN items, NEW row \in Item \cup {None}, items' = [items EXCEPT ![i] = row],
         items[i] # None /\ Over(items[i]) => row = None \/ Over(row) \/ Relisted(i)
  PROVE  StaysOver
  BY PutRow DEF ShapeInv, StaysOver

LEMMA OverStep == ShapeInv /\ RowInv /\ [Next]_vars => StaysOver
  <1> SUFFICES ASSUME ShapeInv, RowInv, [Next]_vars PROVE StaysOver
    OBVIOUS
  <1>1. CASE UNCHANGED items
    BY <1>1 DEF StaysOver
  <1>2. ASSUME NEW row \in Item, items' = Append(items, row), Len(items) < MaxItems PROVE StaysOver
    BY <1>2, AddRow DEF ShapeInv, StaysOver
  <1>3. ASSUME call # None, call.at \notin PurgeSteps, call.at # "unpin", call.row # None,
               NEW row \in Item, items' = [items EXCEPT ![call.id] = row]
        PROVE  StaysOver
    BY <1>3, RowFacts, PutOver DEF RowInv, StageTrue, Over
  <1>4. ASSUME call # None, call.row # None, Discarded PROVE StaysOver
    <2>1. call.id \in DOMAIN items /\ call.row \in Item
      BY <1>4, RowFacts
    <2> DEFINE row == [call.row EXCEPT !.state = "discarded"]
    <2>2. row \in Item /\ row.state = "discarded" /\ items' = [items EXCEPT ![call.id] = row]
      BY <1>4, <2>1 DEF Item, Discarded, Put
    <2> HIDE DEF row
    <2> QED  BY <2>1, <2>2, PutOver DEF Over
  <1>5. CASE Calls
    <2>1. ASSUME NEW k \in Keys, Propagate(k) PROVE StaysOver
      <3>1. index[k] \in Contents
        BY <2>1 DEF Propagate, ShapeInv, TypeOK, Bytes
      <3> QED  BY <2>1, <3>1, <1>2, RowMade DEF Propagate
    <2>2. CASE TrashFolder
      BY <2>2, <1>2, RowMade DEF TrashFolder
    <2>3. ASSUME NEW i \in DOMAIN items, Again(i) PROVE StaysOver
      <3>1. items[i] \in Item /\ items[i].state = "pending"
        BY <2>3, RowIds DEF Again, ShapeInv
      <3>2. [items[i] EXCEPT !.state = "active"] \in Item
        BY <3>1, RowMoves
      <3>3. UNCHANGED items \/ items' = [items EXCEPT ![i] = [items[i] EXCEPT !.state = "active"]]
        BY <2>3 DEF Again
      <3> QED  BY <1>1, <3>1, <3>2, <3>3, PutOver DEF Over
    <2>4. ASSUME NEW i \in DOMAIN items, Discard(i) PROVE StaysOver
      <3> DEFINE row == [items[i] EXCEPT !.state = "discarding"]
      <3>1. items[i] \in Item
        BY <2>4, RowIds DEF Discard, ShapeInv
      <3>2. row \in Item /\ row.state = "discarding"
        BY <3>1 DEF Item
      <3>3. items' = [items EXCEPT ![i] = row]
        BY <2>4 DEF Discard
      <3> HIDE DEF row
      <3> QED  BY <3>2, <3>3, PutOver DEF Over
    <2> QED  BY <1>1, <1>5, <2>1, <2>2, <2>3, <2>4 DEF Calls, Remove, Write, Restore
  <1>6. CASE Step
    <2>1. CASE Retain \/ Capture \/ Bare \/ Place \/ Index \/ Move \/ Replace \/ Blob \/ Unpin \/ Blobs
      BY <1>1, <2>1 DEF Retain, Capture, Bare, Place, Index, Move, Replace, Blob, Rewrite, Unpin, Blobs
    <2>2. CASE RecordRetained
      <3>1. call # None /\ call.at = "record" /\ call.key \in Keys /\ call.found \in Contents
        BY <2>2, CallFacts DEF RecordRetained, At, KeySteps, ShapeInv, CallShaped
      <3>2. CASE call.kind # "propagate"
        <4> DEFINE row == Row(call.key, call.found, IF call.kind = "remove" THEN "delete" ELSE "overwrite")
        <4>1. row \in Item
          BY <3>1, RowMade
        <4>2. Len(items) < MaxItems
          BY <3>1, <3>2 DEF ShapeInv, CallShaped
        <4>3. items' = Append(items, row)
          BY <2>2, <3>2 DEF RecordRetained
        <4> HIDE DEF row
        <4> QED  BY <4>1, <4>2, <4>3, <1>2
      <3>3. CASE call.kind = "propagate"
        BY <1>1, <2>2, <3>3 DEF RecordRetained
      <3> QED  BY <3>2, <3>3
    <2>3. ASSUME Mark \/ Finish \/ Pin \/ Look \/ Settle PROVE StaysOver
      <3>1. /\ call # None /\ call.row # None /\ call.row \in Item
            /\ call.at \notin PurgeSteps /\ call.at # "unpin"
        BY <2>3, CallFacts DEF Mark, Finish, Pin, Look, Settle, At, RowSteps, PurgeSteps
      <3>2. /\ \A st \in {"active", "restored"} : [call.row EXCEPT !.state = st] \in Item
            /\ [call.row EXCEPT !.captured = TRUE] \in Item /\ [call.row EXCEPT !.ready = TRUE] \in Item
        BY <3>1, RowMoves
      <3>3. UNCHANGED items \/ \E row \in Item : items' = [items EXCEPT ![call.id] = row]
        BY <2>3, <3>2 DEF Mark, Finish, Pin, Look, Settle, Put
      <3> QED  BY <1>1, <1>3, <3>1, <3>3
    <2>4. ASSUME Purge \/ Dereference \/ Forget PROVE StaysOver
      <3>1. call # None /\ call.row # None
        BY <2>4, CallFacts DEF Purge, Dereference, Forget, At, RowSteps, PurgeSteps
      <3>2. UNCHANGED items \/ Discarded
        BY <2>4 DEF Purge, Dereference, Forget
      <3> QED  BY <1>1, <1>4, <3>1, <3>2
    <2> QED  BY <1>6, <2>1, <2>2, <2>3, <2>4 DEF Step
  <1>7. CASE Sweeping
    <2>1. CASE SweepRow
      <3>1. sweep.dropped \in DOMAIN items /\ items' = [items EXCEPT ![sweep.dropped] = None]
        BY <2>1 DEF SweepRow, ShapeInv, SweepShaped
      <3> QED  BY <3>1, PutOver
    <2> QED  BY <1>1, <1>7, <2>1 DEF Sweeping, StartSweep, SweepTrashed, SweepDigest, SweepRecord, EndSweep
  <1>8. CASE ListFinish
    <2> DEFINE row == [listing.row EXCEPT !.state = "active"]
               i == listing.id
    <2>1. /\ i \in DOMAIN items /\ listing.row \in Item /\ listing.row.state = "pending"
          /\ items' = [items EXCEPT ![i] = row]
      BY <1>8 DEF ListFinish, ShapeInv, ListingShaped, TypeOK, Listing
    <2>2. row \in Item
      BY <2>1, RowMoves
    <2>3. Relisted(i)
      BY <1>8 DEF Relisted
    <2> HIDE DEF row
    <2> QED  BY <2>1, <2>2, <2>3, PutOver
  <1>9. CASE Age
    BY <1>9, AgedRows DEF StaysOver, Over
  <1>10. CASE ListLook \/ (Environment /\ ~Age)
    BY <1>1, <1>10 DEF ListLook, Environment, Watch, Foreign, List, Crash, PurgeFails
  <1>11. CASE UNCHANGED vars
    BY <1>1, <1>11 DEF vars
  <1> QED  BY <1>5, <1>6, <1>7, <1>8, <1>9, <1>10, <1>11 DEF Next

\* Once the purge of an item is recorded no call, sweep, failure or crash makes the
\* item active again: only a listing does that had read the row while it was pending
\* and writes it back (Relisted).
THEOREM PurgeIsFinal == Spec => PurgeFinal
  <1>1. ShapeInv /\ RowInv /\ [Next]_vars =>
          [\A i \in DOMAIN items :
             items[i] # None /\ items[i].state \in {"discarding", "discarded"} =>
               \/ items'[i] = None \/ items'[i].state \in {"discarding", "discarded"}
               \/ Relisted(i)]_vars
    BY OverStep DEF StaysOver, Over
  <1> QED  BY <1>1, ShapeCorrect, RowsCorrect, PTL DEF Spec, PurgeFinal

-----------------------------------------------------------------------------
(***************************************************************************)
(* The shared blobs                                                         *)
(***************************************************************************)

\* Who holds the lock of a digest, and that the holders are different.
LocksHeld ==
  /\ call # None /\ call.at = "record" => call.found \in locked /\ call.found \in kept
  /\ call # None /\ call.at \in {"blobs", "forget"} => call.row.content \in locked
  /\ sweep # None /\ sweep.digest # None =>
       /\ sweep.digest \in locked
       /\ call # None /\ call.at = "record" => call.found # sweep.digest
       /\ call # None /\ call.at \in {"blobs", "forget"} => call.row.content # sweep.digest
       /\ retained[sweep.digest] # None /\ retained[sweep.digest].old

VersionsAreKeys == \A c \in Contents : retained[c] # None => retained[c].versions \subseteq retained[c].keys

Unneeded(c) == \A i \in DOMAIN items \ spent.stale : ~Needs(i, c)

ReleasedIsUnneeded ==
  call # None /\ call.at \in {"blobs", "forget"} =>
    /\ retained[call.row.content] # None /\ retained[call.row.content].versions = {}
    /\ Unneeded(call.row.content)

VersionsBacked ==
  \A c \in Contents : retained[c] # None /\ ~retained[c].old /\ retained[c].versions # {} => c \in kept

NeedsBacked ==
  \A c \in Contents : \A i \in DOMAIN items \ spent.stale :
    Needs(i, c) => retained[c] # None /\ ~retained[c].old /\ c \in kept

PoolInv == LocksHeld /\ VersionsAreKeys /\ ReleasedIsUnneeded /\ VersionsBacked /\ NeedsBacked

\* No row starts to need its content.
NoNewNeeds ==
  \A c \in Contents : \A i \in DOMAIN items' \ spent'.stale :
    Needs(i, c)' => i \in DOMAIN items \ spent.stale /\ Needs(i, c)

\* Marks are never taken off.
LEMMA StaleGrows == ShapeInv /\ [Next]_vars => spent.stale \subseteq spent'.stale
  <1> SUFFICES ASSUME ShapeInv, [Next]_vars PROVE spent.stale \subseteq spent'.stale
    OBVIOUS
  <1>0. SpentType
    BY DEF ShapeInv
  <1>1. CASE Calls
    BY <1>0, <1>1, StaleKept DEF Calls, Remove, Propagate, Write, TrashFolder, Again, Restore, Discard
  <1>2. CASE Step
    <2>1. CASE Capture
      <3>1. UNCHANGED spent \/ \E B, C : spent' = [Taken(B) EXCEPT !.undone = @ \cup C]
        BY <2>1 DEF Capture
      <3> QED  BY <1>0, <3>1, StaleKept
    <2>2. CASE Move
      BY <1>0, <2>2 DEF Move, SpentType
    <2>3. CASE Bare \/ Place \/ Settle
      BY <1>0, <2>3, StaleKept DEF Bare, Place, Settle
    <2>4. ASSUME NEW bytes, Rewrite("replace", bytes) \/ Rewrite("blob", bytes) PROVE spent.stale \subseteq spent'.stale
      BY <1>0, <2>4, StaleKept DEF Rewrite
    <2>5. CASE Replace \/ Blob
      BY <2>4, <2>5 DEF Replace, Blob
    <2>6. CASE Retain \/ RecordRetained \/ Mark \/ Finish \/ Index \/ Pin \/ Look \/ Unpin \/ Purge \/ Dereference \/ Blobs \/ Forget
      BY <2>6 DEF Retain, RecordRetained, Mark, Finish, Index, Pin, Look, Unpin, Purge, Dereference, Blobs, Forget
    <2> QED  BY <1>2, <2>1, <2>2, <2>3, <2>5, <2>6 DEF Step
  <1>3. CASE Sweeping
    <2>1. CASE SweepTrashed
      <3>1. UNCHANGED spent \/ \E B : spent' = Waived(B)
        BY <2>1 DEF SweepTrashed
      <3> QED  BY <1>0, <3>1, StaleKept
    <2>2. CASE SweepDigest
      <3>1. UNCHANGED spent \/ \E B : spent' = Waived(B)
        BY <2>2 DEF SweepDigest
      <3> QED  BY <1>0, <3>1, StaleKept
    <2>3. CASE StartSweep \/ SweepRow \/ SweepRecord \/ EndSweep
      BY <2>3 DEF StartSweep, SweepRow, SweepRecord, EndSweep
    <2> QED  BY <1>3, <2>1, <2>2, <2>3 DEF Sweeping
  <1>4. CASE ListLook \/ ListFinish
    BY <1>0, <1>4 DEF ListLook, ListFinish, SpentType
  <1>5. CASE Environment
    BY <1>0, <1>5, StaleKept DEF Environment, List, Watch, Foreign, Age, Crash, PurgeFails
  <1> QED  BY <1>1, <1>2, <1>3, <1>4, <1>5 DEF Next, vars

LEMMA SameNeeds ==
  ASSUME ShapeInv, UNCHANGED items, spent.stale \subseteq spent'.stale
  PROVE  NoNewNeeds
  BY DEF NoNewNeeds, Needs

LEMMA PutNeeds ==
  ASSUME ShapeInv, spent.stale \subseteq spent'.stale,
         NEW i \in DOMAIN items, NEW row \in Item \cup {None}, items' = [items EXCEPT ![i] = row],
         row # None /\ row.state \in {"pending", "active"} /\ ~row.manual /\ ~row.old /\ i \notin spent'.stale =>
           items[i] # None /\ Same(row, items[i]) /\ items[i].state \in {"pending", "active"}
  PROVE  NoNewNeeds
  <1>1. DOMAIN items' = DOMAIN items /\ \A j \in DOMAIN items : items'[j] = IF j = i THEN row ELSE items[j]
    BY PutRow DEF ShapeInv
  <1> QED  BY <1>1 DEF NoNewNeeds, Needs, Same

LEMMA AddNeeds ==
  ASSUME ShapeInv, spent.stale \subseteq spent'.stale,
         NEW row \in Item, items' = Append(items, row), Len(items) < MaxItems
  PROVE  /\ row.manual \/ row.content \notin Contents => NoNewNeeds
         /\ \A c \in Contents : \A i \in DOMAIN items' \ spent'.stale :
              Needs(i, c)' => (i \in DOMAIN items \ spent.stale /\ Needs(i, c)) \/ c = row.content
  <1>1. DOMAIN items' = DOMAIN items \cup {Len(items) + 1} /\ items'[Len(items) + 1] = row
        /\ \A j \in DOMAIN items : items'[j] = items[j]
    BY AddRow DEF ShapeInv
  <1> QED  BY <1>1 DEF NoNewNeeds, Needs

LEMMA NeedsStep == ShapeInv /\ RowInv /\ [Next]_vars => RecordRetained \/ NoNewNeeds
  <1> SUFFICES ASSUME ShapeInv, RowInv, [Next]_vars, ~RecordRetained PROVE NoNewNeeds
    OBVIOUS
  <1>0. spent.stale \subseteq spent'.stale
    BY StaleGrows
  <1>1. CASE UNCHANGED items
    BY <1>0, <1>1, SameNeeds
  <1>3. ASSUME call # None, call.at \notin PurgeSteps, call.at # "unpin", call.row # None,
               NEW row \in Item, Same(row, call.row), items' = [items EXCEPT ![call.id] = row]
        PROVE  NoNewNeeds
    <2>1. items[call.id] # None => Same(row, items[call.id]) /\ items[call.id].state \in {"pending", "active"}
      BY <1>3, RowFacts DEF RowInv, StageTrue, Copy, Same
    <2>2. items[call.id] = None => row.old
      BY <1>3, RowFacts DEF Copy, Same
    <2> QED  BY <1>0, <1>3, <2>1, <2>2, RowFacts, PutNeeds
  <1>4. ASSUME call # None, call.row # None, Discarded PROVE NoNewNeeds
    <2>1. call.id \in DOMAIN items /\ call.row \in Item
      BY <1>4, RowFacts
    <2> DEFINE row == [call.row EXCEPT !.state = "discarded"]
    <2>2. row \in Item /\ row.state = "discarded" /\ items' = [items EXCEPT ![call.id] = row]
      BY <1>4, <2>1 DEF Item, Discarded, Put
    <2> HIDE DEF row
    <2> QED  BY <1>0, <2>1, <2>2, PutNeeds
  <1>5. CASE Calls
    <2>1. ASSUME NEW k \in Keys, Propagate(k) PROVE NoNewNeeds
      <3> DEFINE row == [Row(k, index[k], "delete") EXCEPT !.manual = TRUE]
      <3>1. index[k] \in Contents
        BY <2>1 DEF Propagate, ShapeInv, TypeOK, Bytes
      <3>2. row \in Item /\ row.manual
        BY <3>1, RowMade DEF Row
      <3>3. items' = Append(items, row) /\ Len(items) < MaxItems
        BY <2>1 DEF Propagate
      <3> HIDE DEF row
      <3> QED  BY <1>0, <3>2, <3>3, AddNeeds
    <2>2. CASE TrashFolder
      <3> DEFINE row == Row(Dir, Absent, "delete")
      <3>1. row \in Item /\ row.content \notin Contents
        BY RowMade, NoneAssumption DEF Row
      <3>2. items' = Append(items, row) /\ Len(items) < MaxItems
        BY <2>2 DEF TrashFolder
      <3> HIDE DEF row
      <3> QED  BY <1>0, <3>1, <3>2, AddNeeds
    <2>3. ASSUME NEW i \in DOMAIN items, Again(i) PROVE NoNewNeeds
      <3>1. items[i] \in Item /\ items[i].state = "pending" /\ items[i] # None
        BY <2>3, RowIds DEF Again, ShapeInv
      <3> DEFINE row == [items[i] EXCEPT !.state = "active"]
      <3>2. row \in Item /\ Same(row, items[i])
        BY <3>1 DEF Item, Same
      <3>3. UNCHANGED items \/ items' = [items EXCEPT ![i] = row]
        BY <2>3 DEF Again
      <3> HIDE DEF row
      <3> QED  BY <1>0, <1>1, <3>1, <3>2, <3>3, PutNeeds
    <2>4. ASSUME NEW i \in DOMAIN items, Discard(i) PROVE NoNewNeeds
      <3> DEFINE row == [items[i] EXCEPT !.state = "discarding"]
      <3>1. items[i] \in Item
        BY <2>4, RowIds DEF Discard, ShapeInv
      <3>2. row \in Item /\ row.state = "discarding"
        BY <3>1 DEF Item
      <3>3. items' = [items EXCEPT ![i] = row]
        BY <2>4 DEF Discard
      <3> HIDE DEF row
      <3> QED  BY <1>0, <3>2, <3>3, PutNeeds
    <2> QED  BY <1>1, <1>5, <2>1, <2>2, <2>3, <2>4 DEF Calls, Remove, Write, Restore
  <1>6. CASE Step
    <2>1. CASE Retain \/ Capture \/ Bare \/ Place \/ Index \/ Move \/ Replace \/ Blob \/ Unpin \/ Blobs
      BY <1>1, <2>1 DEF Retain, Capture, Bare, Place, Index, Move, Replace, Blob, Rewrite, Unpin, Blobs
    <2>2. ASSUME Mark \/ Finish \/ Pin \/ Look \/ Settle PROVE NoNewNeeds
      <3>1. /\ call # None /\ call.row # None /\ call.row \in Item
            /\ call.at \notin PurgeSteps /\ call.at # "unpin"
        BY <2>2, CallFacts DEF Mark, Finish, Pin, Look, Settle, At, RowSteps, PurgeSteps
      <3>2. \A st \in {"active", "restored"} : LET row == [call.row EXCEPT !.state = st] IN row \in Item /\ Same(row, call.row)
        BY <3>1 DEF Item, Same
      <3>3. /\ [call.row EXCEPT !.captured = TRUE] \in Item /\ Same([call.row EXCEPT !.captured = TRUE], call.row)
            /\ [call.row EXCEPT !.ready = TRUE] \in Item /\ Same([call.row EXCEPT !.ready = TRUE], call.row)
        BY <3>1 DEF Item, Same
      <3>4. UNCHANGED items \/ \E row \in Item : Same(row, call.row) /\ items' = [items EXCEPT ![call.id] = row]
        BY <2>2, <3>2, <3>3 DEF Mark, Finish, Pin, Look, Settle, Put
      <3> QED  BY <1>1, <1>3, <3>1, <3>4
    <2>3. ASSUME Purge \/ Dereference \/ Forget PROVE NoNewNeeds
      <3>1. call # None /\ call.row # None
        BY <2>3, CallFacts DEF Purge, Dereference, Forget, At, RowSteps, PurgeSteps
      <3>2. UNCHANGED items \/ Discarded
        BY <2>3 DEF Purge, Dereference, Forget
      <3> QED  BY <1>1, <1>4, <3>1, <3>2
    <2> QED  BY <1>6, <2>1, <2>2, <2>3 DEF Step
  <1>7. CASE Sweeping
    <2>1. CASE SweepRow
      <3>1. sweep.dropped \in DOMAIN items /\ items' = [items EXCEPT ![sweep.dropped] = None]
        BY <2>1 DEF SweepRow, ShapeInv, SweepShaped
      <3> QED  BY <1>0, <3>1, PutNeeds
    <2> QED  BY <1>1, <1>7, <2>1 DEF Sweeping, StartSweep, SweepTrashed, SweepDigest, SweepRecord, EndSweep
  <1>8. CASE ListFinish
    <2> DEFINE row == [listing.row EXCEPT !.state = "active"]
               i == listing.id
    <2>1. /\ i \in DOMAIN items /\ listing.row \in Item /\ listing.row.state = "pending"
          /\ items' = [items EXCEPT ![i] = row]
          /\ spent' = IF items[i] = listing.row THEN spent ELSE [spent EXCEPT !.stale = @ \cup {i}]
      BY <1>8 DEF ListFinish, ShapeInv, ListingShaped, TypeOK, Listing
    <2>2. row \in Item /\ Same(row, listing.row)
      BY <2>1 DEF Item, Same
    <2>3. items[i] = listing.row \/ i \in spent'.stale
      BY <2>1 DEF ShapeInv, SpentType
    <2> HIDE DEF row
    <2> QED  BY <1>0, <2>1, <2>2, <2>3, RowAssumption, PutNeeds
  <1>9. CASE Age
    BY <1>9, AgedRows DEF NoNewNeeds, Needs
  <1>10. CASE ListLook \/ (Environment /\ ~Age)
    BY <1>1, <1>10 DEF ListLook, Environment, Watch, Foreign, List, Crash, PurgeFails
  <1>11. CASE UNCHANGED vars
    BY <1>1, <1>11 DEF vars
  <1> QED  BY <1>5, <1>6, <1>7, <1>8, <1>9, <1>10, <1>11 DEF Next

LEMMA InitPool == Init => PoolInv
  BY EmptySeq, LenProperties
     DEF Init, PoolInv, LocksHeld, VersionsAreKeys, ReleasedIsUnneeded, VersionsBacked, NeedsBacked

\* A call that moves on without the lock of a digest.
LEMMA CallPool ==
  ASSUME PoolInv, NoNewNeeds, UNCHANGED <<retained, kept, locked, sweep>>,
         call' # None => call'.at \notin {"record", "blobs", "forget"}
  PROVE  PoolInv'
  <1>1. LocksHeld' /\ VersionsAreKeys' /\ ReleasedIsUnneeded' /\ VersionsBacked'
    BY DEF PoolInv, LocksHeld, VersionsAreKeys, ReleasedIsUnneeded, VersionsBacked
  <1>2. NeedsBacked'
    BY DEF PoolInv, NeedsBacked, NoNewNeeds
  <1> QED  BY <1>1, <1>2 DEF PoolInv

\* What runs beside the call and leaves the pool alone.
LEMMA BesidePool ==
  ASSUME ShapeInv, PoolInv, NoNewNeeds, UNCHANGED <<retained, kept, locked, call>>,
         sweep' # None /\ sweep'.digest # None => sweep # None /\ sweep'.digest = sweep.digest
  PROVE  PoolInv'
  <1>1. LocksHeld' /\ VersionsAreKeys' /\ VersionsBacked'
    BY DEF PoolInv, LocksHeld, VersionsAreKeys, VersionsBacked
  <1>2. NeedsBacked'
    BY DEF PoolInv, NeedsBacked, NoNewNeeds
  <1>3. ReleasedIsUnneeded'
    <2> SUFFICES ASSUME call # None, call.at \in {"blobs", "forget"} PROVE Unneeded(call.row.content)'
      BY DEF PoolInv, ReleasedIsUnneeded
    <2>1. Unneeded(call.row.content) /\ call.row.content \in Contents
      BY CallFacts DEF PoolInv, ReleasedIsUnneeded, RowSteps, KeySteps, PurgeSteps
    <2> QED  BY <2>1 DEF Unneeded, NoNewNeeds
  <1> QED  BY <1>1, <1>2, <1>3 DEF PoolInv

\* Which steps use the pool.
LEMMA AcceptedPool ==
  ASSUME ShapeInv, PoolInv, NoNewNeeds, Calls
  PROVE  PoolInv'
  <1>1. ASSUME NEW k \in Keys, Remove(k) \/ Propagate(k) PROVE PoolInv'
    BY <1>1, CallPool DEF Remove, Propagate, Ask
  <1>2. ASSUME NEW k \in Keys, NEW c \in Contents, NEW create \in BOOLEAN, Write(k, c, create) PROVE PoolInv'
    BY <1>2, CallPool DEF Write, Ask
  <1>3. CASE TrashFolder
    BY <1>3, CallPool DEF TrashFolder, Ask
  <1>4. ASSUME NEW i \in DOMAIN items, Again(i) \/ Restore(i) \/ Discard(i) PROVE PoolInv'
    BY <1>4, CallPool DEF Again, Restore, Discard, Ask, Accept
  <1> QED  BY <1>1, <1>2, <1>3, <1>4 DEF Calls

LEMMA FreePool ==
  ASSUME ShapeInv, PoolInv, NoNewNeeds,
         Mark \/ Capture \/ Finish \/ Bare \/ Place \/ Index \/ Pin \/ Look \/ Move \/ Replace \/ Blob \/ Settle \/ Unpin \/ Purge
  PROVE  PoolInv'
  <1>1. call # None /\ call \in Call
    BY CallFacts DEF Mark, Capture, Finish, Bare, Place, Index, Pin, Look, Move, Replace, Blob, Rewrite, Settle, Unpin, Purge, At
  <1>2. UNCHANGED <<retained, kept, locked, sweep>>
    BY DEF Mark, Capture, Finish, Bare, Place, Index, Pin, Look, Move, Replace, Blob, Rewrite, Settle, Unpin, Purge
  <1>3. ASSUME NEW step, Goto(step), step \notin {"record", "blobs", "forget"}
        PROVE  call'.at \notin {"record", "blobs", "forget"}
    BY <1>1, <1>3 DEF Goto, Call
  <1>4. CASE Capture \/ Finish \/ Bare \/ Place \/ Index \/ Move \/ Settle \/ Unpin \/ Purge
    <2>1. Return \/ \E step : Goto(step) /\ step \notin {"record", "blobs", "forget"}
      BY <1>4 DEF Capture, Finish, Bare, Place, Index, Move, Settle, Unpin, Purge
    <2> QED  BY <1>2, <1>3, <2>1, CallPool DEF Return
  <1>5. CASE Replace \/ Blob
    <2>1. Return \/ Goto("settle")
      BY <1>5 DEF Replace, Blob, Rewrite
    <2> QED  BY <1>2, <1>3, <2>1, CallPool DEF Return
  <1>6. CASE Mark \/ Pin \/ Look
    <2>1. Mark => call'.at = "capture"
      BY <1>1 DEF Mark, Call
    <2>2. Pin => call' = None \/ call'.at = "retain"
      BY <1>1 DEF Pin, Return, Call
    <2>3. Look => call' = None \/ call'.at \in {"replace", "move", "blob"}
      <3> DEFINE row == [call.row EXCEPT !.state = "active"]
                 step == IF row.manual THEN "replace" ELSE IF row.captured THEN "move" ELSE "blob"
      <3>1. Look => call' = None \/ call' = [call EXCEPT !.row = row, !.at = step]
        BY DEF Look, Return
      <3>2. step \in {"replace", "move", "blob"}
        OBVIOUS
      <3> HIDE DEF row, step
      <3> QED  BY <1>1, <3>1, <3>2 DEF Call
    <2> QED  BY <1>2, <1>6, <2>1, <2>2, <2>3, CallPool
  <1> QED  BY <1>4, <1>5, <1>6

\* The steps that take or give up the lock of a digest.
LEMMA RetainPool ==
  ASSUME ShapeInv, PoolInv, NoNewNeeds, Retain
  PROVE  PoolInv'
  <1> DEFINE c == call.found
  <1>1. call # None /\ call \in Call /\ UNCHANGED <<items, retained, sweep, spent>>
    BY CallFacts DEF Retain, At
  <1>2. CASE UNCHANGED <<kept, locked>> /\ Return
    BY <1>1, <1>2, CallPool DEF Return
  <1>3. CASE /\ UNCHANGED <<kept, locked>>
             /\ Goto(CASE call.kind = "remove" -> "bare" [] call.kind = "write" -> "place" [] OTHER -> "mark")
    <2>1. call'.at \in {"bare", "place", "mark"}
      BY <1>1, <1>3 DEF Goto, Call
    <2> QED  BY <1>1, <1>3, <2>1, CallPool
  <1>4. CASE c \notin locked /\ kept' = kept \cup {c} /\ locked' = locked \cup {c} /\ Goto("record")
    <2>1. call'.at = "record" /\ call'.found = c
      BY <1>1, <1>4 DEF Goto, Call
    <2>2. LocksHeld'
      BY <1>1, <1>4, <2>1 DEF PoolInv, LocksHeld
    <2>3. VersionsAreKeys' /\ VersionsBacked' /\ ReleasedIsUnneeded'
      BY <1>1, <1>4, <2>1 DEF PoolInv, VersionsAreKeys, VersionsBacked, ReleasedIsUnneeded
    <2>4. NeedsBacked'
      BY <1>1, <1>4 DEF PoolInv, NeedsBacked, NoNewNeeds
    <2> QED  BY <2>2, <2>3, <2>4 DEF PoolInv
  <1> QED  BY <1>2, <1>3, <1>4 DEF Retain

LEMMA RecordPool ==
  ASSUME ShapeInv, RowInv, PoolInv, RecordRetained, spent.stale \subseteq spent'.stale
  PROVE  PoolInv'
  <1> DEFINE c == call.found
             k == call.key
             new == Noted(retained[c], k, call.kind # "remove")
  <1>1. /\ call # None /\ call.at = "record" /\ call \in Call /\ k \in Keys /\ c \in Contents
        /\ retained \in [Contents -> Record \cup {None}]
        /\ UNCHANGED <<kept, sweep, spent>> /\ locked' = locked \ {c} /\ retained' = [retained EXCEPT ![c] = new]
    BY CallFacts DEF RecordRetained, At, KeySteps, ShapeInv, CallShaped, TypeOK
  <1>2. c \in kept /\ (sweep # None /\ sweep.digest # None => sweep.digest # c)
    BY <1>1 DEF PoolInv, LocksHeld
  <1>3. call'.at = "mark"
    BY <1>1 DEF RecordRetained, Goto, Call
  <1>4. retained[c] \in Record \cup {None} /\ (retained[c] # None => retained[c].versions \subseteq retained[c].keys)
    BY <1>1 DEF PoolInv, VersionsAreKeys
  <1>5. new.old = FALSE /\ new.versions \subseteq new.keys /\ new \in Record
    BY <1>1, <1>4 DEF Noted, Record
  <1> HIDE DEF new
  <1>6. ASSUME sweep # None, sweep.digest # None
        PROVE  sweep.digest \in locked' /\ retained'[sweep.digest] # None /\ retained'[sweep.digest].old
    <2>1. sweep.digest \in locked /\ retained[sweep.digest] # None /\ retained[sweep.digest].old /\ sweep.digest # c
      BY <1>2, <1>6 DEF PoolInv, LocksHeld
    <2>2. sweep.digest \in Contents
      BY <2>1 DEF ShapeInv, TypeOK
    <2> QED  BY <1>1, <2>1, <2>2
  <1>7. LocksHeld'
    BY <1>1, <1>3, <1>6 DEF LocksHeld
  <1>8. VersionsAreKeys' /\ VersionsBacked' /\ ReleasedIsUnneeded'
    BY <1>1, <1>2, <1>3, <1>5 DEF PoolInv, VersionsAreKeys, VersionsBacked, ReleasedIsUnneeded
  <1>9. NeedsBacked'
    <2>1. \A d \in Contents : \A i \in DOMAIN items' \ spent'.stale :
            Needs(i, d)' => (i \in DOMAIN items \ spent.stale /\ Needs(i, d)) \/ d = c
      <3>1. CASE UNCHANGED items
        BY <1>1, <3>1 DEF Needs
      <3>2. CASE ~UNCHANGED items
        <4> DEFINE row == Row(k, c, IF call.kind = "remove" THEN "delete" ELSE "overwrite")
        <4>1. call.kind # "propagate" /\ items' = Append(items, row)
          BY <3>2 DEF RecordRetained
        <4>2. row \in Item /\ row.content = c
          BY <1>1, RowMade DEF Row
        <4>3. Len(items) < MaxItems
          BY <1>1, <4>1 DEF ShapeInv, CallShaped
        <4> HIDE DEF row
        <4> QED  BY <1>1, <4>1, <4>2, <4>3, AddNeeds
      <3> QED  BY <3>1, <3>2
    <2>2. retained'[c] # None /\ ~retained'[c].old /\ c \in kept'
      <3>1. new # None
        BY <1>5, RecordAssumption
      <3> QED  BY <1>1, <1>2, <1>5, <3>1
    <2>3. \A d \in Contents : d # c => retained'[d] = retained[d]
      BY <1>1
    <2> QED  BY <1>1, <2>1, <2>2, <2>3 DEF PoolInv, NeedsBacked
  <1> QED  BY <1>7, <1>8, <1>9 DEF PoolInv

LEMMA PurgingPool ==
  ASSUME ShapeInv, RowInv, PoolInv, NoNewNeeds, Dereference \/ Blobs \/ Forget \/ PurgeFails
  PROVE  PoolInv'
  <1> DEFINE c == call.row.content
  <1>0. call # None /\ call \in Call /\ UNCHANGED sweep /\ retained \in [Contents -> Record \cup {None}]
    BY CallFacts DEF Dereference, Blobs, Forget, PurgeFails, At, ShapeInv, TypeOK
  <1>1. call.at \in {"dereference", "blobs", "forget"} => call.row # None /\ call.row \in Item /\ c \in Contents /\ call.id \in DOMAIN items
    BY <1>0, CallFacts DEF RowSteps, KeySteps, PurgeSteps
  <1>2. CASE Dereference
    <2>1. call.at = "dereference" /\ c \notin locked /\ c \in Contents /\ UNCHANGED kept
      BY <1>1, <1>2 DEF Dereference, At
    <2>2. sweep # None /\ sweep.digest # None => sweep.digest # c
      BY <2>1 DEF PoolInv, LocksHeld
    <2>3. CASE Return /\ UNCHANGED <<retained, locked>>
      BY <1>0, <2>1, <2>3, CallPool DEF Return
    <2>4. CASE /\ retained[c] # None /\ retained' = [retained EXCEPT ![c].keys = StillNeeded(call.id, call.row)]
               /\ Return /\ UNCHANGED locked
      <3> DEFINE new == [retained[c] EXCEPT !.keys = StillNeeded(call.id, call.row)]
      <3>1. retained[c] \in Record /\ retained[c].versions \subseteq retained[c].keys
        BY <1>0, <2>1, <2>4 DEF PoolInv, VersionsAreKeys
      <3>2. retained[c].versions \subseteq StillNeeded(call.id, call.row)
        BY <3>1 DEF StillNeeded
      <3>3. StillNeeded(call.id, call.row) \subseteq Keys
        BY <3>1 DEF StillNeeded, Record
      <3>4. /\ new \in Record /\ new.versions = retained[c].versions /\ new.old = retained[c].old
            /\ new.keys = StillNeeded(call.id, call.row)
        BY <3>1, <3>3 DEF Record
      <3>5. retained' = [retained EXCEPT ![c] = new] /\ call' = None
        BY <2>4 DEF Return
      <3> HIDE DEF new
      <3>6. new # None
        BY <3>4, RecordAssumption
      <3>7. LocksHeld'
        <4>1. sweep # None /\ sweep.digest # None => sweep.digest \in Contents
          BY DEF PoolInv, LocksHeld, ShapeInv, TypeOK
        <4> QED  BY <1>0, <2>2, <2>4, <3>5, <4>1 DEF PoolInv, LocksHeld
      <3>8. VersionsAreKeys' /\ VersionsBacked' /\ ReleasedIsUnneeded'
        BY <1>0, <2>1, <2>4, <3>2, <3>4, <3>5 DEF PoolInv, VersionsAreKeys, VersionsBacked, ReleasedIsUnneeded
      <3>9. NeedsBacked'
        BY <1>0, <2>1, <3>4, <3>5, <3>6 DEF PoolInv, NeedsBacked, NoNewNeeds
      <3> QED  BY <3>7, <3>8, <3>9 DEF PoolInv
    <2>5. CASE /\ retained[c] # None /\ StillNeeded(call.id, call.row) = {} /\ ~Refers(c, call.id, None)
               /\ locked' = locked \cup {c} /\ Goto("blobs") /\ UNCHANGED <<items, retained>>
      <3>1. call'.at = "blobs" /\ call'.row = call.row
        BY <1>0, <2>5 DEF Goto, Call
      <3>2. UNCHANGED spent
        BY <1>2 DEF Dereference
      <3>3. retained[c].versions = {}
        <4>1. retained[c] \in Record /\ retained[c].versions \subseteq retained[c].keys
          BY <1>0, <2>1, <2>5 DEF PoolInv, VersionsAreKeys
        <4> QED  BY <2>5, <4>1 DEF StillNeeded
      <3>4. Unneeded(c)
        <4> SUFFICES ASSUME NEW i \in DOMAIN items \ spent.stale, Needs(i, c) PROVE FALSE
          BY DEF Unneeded
        <4>1. CASE i = call.id
          BY <1>0, <1>1, <2>1, <4>1 DEF RowInv, StageTrue, Needs, PurgeSteps
        <4>2. CASE i # call.id
          BY <2>5, <4>2 DEF Refers, Needs, Ended
        <4> QED  BY <4>1, <4>2
      <3>5. LocksHeld'
        BY <1>0, <2>1, <2>2, <2>5, <3>1 DEF PoolInv, LocksHeld
      <3>6. VersionsAreKeys' /\ VersionsBacked'
        BY <2>1, <2>5 DEF PoolInv, VersionsAreKeys, VersionsBacked
      <3>7. ReleasedIsUnneeded'
        BY <2>5, <3>1, <3>2, <3>3, <3>4 DEF ReleasedIsUnneeded, Unneeded, Needs
      <3>8. NeedsBacked'
        BY <2>1, <2>5 DEF PoolInv, NeedsBacked, NoNewNeeds
      <3> QED  BY <3>5, <3>6, <3>7, <3>8 DEF PoolInv
    <2> QED  BY <1>2, <2>3, <2>4, <2>5 DEF Dereference
  <1>3. CASE Blobs
    <2>1. /\ call.at = "blobs" /\ c \in Contents /\ kept' = kept \ {c} /\ Goto("forget")
          /\ UNCHANGED <<items, retained, locked, spent>>
      BY <1>1, <1>3 DEF Blobs, At
    <2>2. call'.at = "forget" /\ call'.row = call.row
      BY <1>0, <2>1 DEF Goto, Call
    <2>3. retained[c].versions = {} /\ Unneeded(c)
      BY <1>0, <2>1 DEF PoolInv, ReleasedIsUnneeded
    <2>4. LocksHeld'
      BY <1>0, <2>1, <2>2 DEF PoolInv, LocksHeld
    <2>5. VersionsAreKeys' /\ VersionsBacked'
      BY <2>1, <2>3 DEF PoolInv, VersionsAreKeys, VersionsBacked
    <2>6. ReleasedIsUnneeded'
      BY <1>0, <2>1, <2>2 DEF PoolInv, ReleasedIsUnneeded, Unneeded, Needs
    <2>7. NeedsBacked'
      BY <2>1, <2>3 DEF PoolInv, NeedsBacked, NoNewNeeds, Unneeded
    <2> QED  BY <2>4, <2>5, <2>6, <2>7 DEF PoolInv
  <1>4. CASE Forget
    <2>1. /\ call.at = "forget" /\ c \in Contents /\ retained' = [retained EXCEPT ![c] = None]
          /\ locked' = locked \ {c} /\ call' = None /\ UNCHANGED kept
      BY <1>1, <1>4 DEF Forget, At, Return
    <2>2. Unneeded(c) /\ (sweep # None /\ sweep.digest # None => sweep.digest # c /\ sweep.digest \in Contents)
      BY <1>0, <2>1 DEF PoolInv, ReleasedIsUnneeded, LocksHeld, ShapeInv, TypeOK
    <2>3. LocksHeld'
      BY <1>0, <2>1, <2>2 DEF PoolInv, LocksHeld
    <2>4. VersionsAreKeys' /\ VersionsBacked' /\ ReleasedIsUnneeded'
      BY <1>0, <2>1 DEF PoolInv, VersionsAreKeys, VersionsBacked, ReleasedIsUnneeded
    <2>5. NeedsBacked'
      BY <1>0, <2>1, <2>2 DEF PoolInv, NeedsBacked, NoNewNeeds, Unneeded
    <2> QED  BY <2>3, <2>4, <2>5 DEF PoolInv
  <1>5. CASE PurgeFails
    <2>1. /\ call.at \in {"purge", "blobs"} /\ call' = None /\ UNCHANGED <<kept, retained>>
          /\ locked' = IF call.at = "blobs" THEN locked \ {c} ELSE locked
      BY <1>5 DEF PurgeFails, At, Return
    <2>2. LocksHeld'
      BY <1>0, <2>1 DEF PoolInv, LocksHeld
    <2>3. VersionsAreKeys' /\ VersionsBacked' /\ ReleasedIsUnneeded'
      BY <2>1 DEF PoolInv, VersionsAreKeys, VersionsBacked, ReleasedIsUnneeded
    <2>4. NeedsBacked'
      BY <2>1 DEF PoolInv, NeedsBacked, NoNewNeeds
    <2> QED  BY <2>2, <2>3, <2>4 DEF PoolInv
  <1> QED  BY <1>2, <1>3, <1>4, <1>5

\* The sweep drops a blob under the lock of its digest, and only an old one.
LEMMA SweepingPool ==
  ASSUME ShapeInv, RowInv, PoolInv, NoNewNeeds, Sweeping
  PROVE  PoolInv'
  <1>0. retained \in [Contents -> Record \cup {None}] /\ (sweep # None => sweep \in Sweep)
    BY DEF ShapeInv, TypeOK
  <1>1. CASE StartSweep \/ SweepTrashed \/ SweepRow \/ EndSweep
    <2>1. UNCHANGED <<retained, kept, locked, call>>
      BY <1>1 DEF StartSweep, SweepTrashed, SweepRow, EndSweep
    <2>2. sweep' # None => sweep'.digest = None \/ (sweep # None /\ sweep'.digest = sweep.digest)
      <3>1. StartSweep => sweep'.digest = None
        BY DEF StartSweep
      <3>2. EndSweep => sweep' = None
        BY DEF EndSweep
      <3>3. SweepTrashed \/ SweepRow => sweep # None /\ sweep \in Sweep
        BY <1>0 DEF SweepTrashed, SweepRow
      <3>4. SweepRow => sweep'.digest = sweep.digest
        BY <3>3 DEF SweepRow, Sweep
      <3>5. SweepTrashed => sweep'.digest = sweep.digest
        BY <3>3 DEF SweepTrashed, Sweep
      <3> QED  BY <1>1, <3>1, <3>2, <3>3, <3>4, <3>5
    <2> QED  BY <2>1, <2>2, BesidePool
  <1>2. ASSUME SweepDigest, NEW c \in sweep.digests \ locked, ~Stale(c),
               sweep' = [sweep EXCEPT !.digests = @ \ {c}], UNCHANGED <<locked, kept, spent>>
        PROVE  PoolInv'
    <2>1. sweep'.digest = sweep.digest /\ sweep # None /\ UNCHANGED <<retained, call>>
      BY <1>0, <1>2 DEF SweepDigest, Sweep
    <2> QED  BY <1>2, <2>1, BesidePool
  <1>3. ASSUME SweepDigest, NEW c \in sweep.digests \ locked, Stale(c),
               locked' = locked \cup {c}, kept' = kept \ {c}, sweep' = [sweep EXCEPT !.digest = c]
        PROVE  PoolInv'
    <2>1. /\ c \in Contents /\ c \notin locked /\ sweep'.digest = c /\ UNCHANGED <<items, retained, call>>
          /\ retained[c] # None /\ retained[c].old
      BY <1>0, <1>3 DEF SweepDigest, Sweep, Stale
    <2>2. LocksHeld'
      BY <1>3, <2>1 DEF PoolInv, LocksHeld
    <2>3. VersionsAreKeys' /\ VersionsBacked'
      BY <1>3, <2>1 DEF PoolInv, VersionsAreKeys, VersionsBacked
    <2>4. ReleasedIsUnneeded'
      <3> SUFFICES ASSUME call # None, call.at \in {"blobs", "forget"} PROVE Unneeded(call.row.content)'
        BY <2>1 DEF PoolInv, ReleasedIsUnneeded
      <3>1. Unneeded(call.row.content) /\ call.row.content \in Contents
        BY CallFacts DEF PoolInv, ReleasedIsUnneeded, RowSteps, KeySteps, PurgeSteps
      <3> QED  BY <2>1, <3>1 DEF Unneeded, NoNewNeeds
    <2>5. NeedsBacked'
      BY <1>3, <2>1 DEF PoolInv, NeedsBacked, NoNewNeeds
    <2> QED  BY <2>2, <2>3, <2>4, <2>5 DEF PoolInv
  <1>4. CASE SweepDigest
    BY <1>2, <1>3, <1>4 DEF SweepDigest
  <1>5. CASE SweepRecord
    <2> DEFINE c == sweep.digest
    <2>1. /\ c # None /\ sweep # None /\ retained' = [retained EXCEPT ![c] = None] /\ locked' = locked \ {c}
          /\ sweep'.digest = None /\ UNCHANGED <<items, kept, call, spent>>
      BY <1>0, <1>5 DEF SweepRecord, Sweep
    <2>2. c \in Contents /\ retained[c].old
          /\ (call # None /\ call.at = "record" => call.found # c)
          /\ (call # None /\ call.at \in {"blobs", "forget"} => call.row.content # c)
      BY <1>0, <2>1 DEF PoolInv, LocksHeld, Sweep
    <2>3. LocksHeld'
      BY <2>1, <2>2 DEF PoolInv, LocksHeld
    <2>4. VersionsAreKeys' /\ VersionsBacked'
      BY <1>0, <2>1, <2>2 DEF PoolInv, VersionsAreKeys, VersionsBacked
    <2>5. ReleasedIsUnneeded'
      <3> SUFFICES ASSUME call # None, call.at \in {"blobs", "forget"}
                   PROVE  /\ retained'[call.row.content] = retained[call.row.content]
                          /\ Unneeded(call.row.content)'
        BY <2>1 DEF PoolInv, ReleasedIsUnneeded
      <3>1. Unneeded(call.row.content) /\ call.row.content \in Contents
        BY CallFacts DEF PoolInv, ReleasedIsUnneeded, RowSteps, KeySteps, PurgeSteps
      <3> QED  BY <1>0, <2>1, <2>2, <3>1 DEF Unneeded, NoNewNeeds
    <2>6. NeedsBacked'
      BY <1>0, <2>1, <2>2 DEF PoolInv, NeedsBacked, NoNewNeeds
    <2> QED  BY <2>3, <2>4, <2>5, <2>6 DEF PoolInv
  <1> QED  BY <1>1, <1>4, <1>5 DEF Sweeping

\* The window passes for the records and the rows together.
LEMMA AgedPool ==
  ASSUME ShapeInv, PoolInv, Age
  PROVE  PoolInv'
  <1>1. /\ call' = None /\ sweep' = None
        /\ retained' = [c \in Contents |-> IF retained[c] = None THEN None ELSE [retained[c] EXCEPT !.old = TRUE]]
    BY DEF Age, memory
  <1>2. \A c \in Contents : retained[c] # None =>
          /\ retained'[c] = [retained[c] EXCEPT !.old = TRUE] /\ retained[c] \in Record
    BY <1>1 DEF ShapeInv, TypeOK
  <1>3. \A c \in Contents : retained'[c] # None => retained[c] # None
    BY <1>1
  <1>4. \A c \in Contents : retained'[c] # None =>
          retained'[c].old /\ retained'[c].keys = retained[c].keys /\ retained'[c].versions = retained[c].versions
    <2>1. \A r \in Record : LET s == [r EXCEPT !.old = TRUE] IN s.old /\ s.keys = r.keys /\ s.versions = r.versions
      BY DEF Record
    <2> QED  BY <1>2, <1>3, <2>1
  <1>5. LocksHeld' /\ ReleasedIsUnneeded'
    BY <1>1 DEF LocksHeld, ReleasedIsUnneeded
  <1>6. VersionsAreKeys' /\ VersionsBacked'
    BY <1>3, <1>4 DEF PoolInv, VersionsAreKeys, VersionsBacked
  <1>7. \A i \in DOMAIN items' : items'[i] # None => items'[i].old
    BY AgedRows
  <1>8. NeedsBacked'
    BY <1>7 DEF NeedsBacked, Needs
  <1> QED  BY <1>5, <1>6, <1>8 DEF PoolInv

LEMMA PoolStep == ShapeInv /\ RowInv /\ PoolInv /\ [Next]_vars => PoolInv'
  <1> SUFFICES ASSUME ShapeInv, RowInv, PoolInv, [Next]_vars PROVE PoolInv'
    OBVIOUS
  <1>0. spent.stale \subseteq spent'.stale
    BY StaleGrows
  <1>1. CASE RecordRetained
    BY <1>0, <1>1, RecordPool
  <1>2. CASE NoNewNeeds
    <2>1. CASE Calls
      BY <1>2, <2>1, AcceptedPool
    <2>2. CASE Step
      BY <1>1, <1>2, <2>2, FreePool, RetainPool, PurgingPool DEF Step
    <2>3. CASE Sweeping
      BY <1>2, <2>3, SweepingPool
    <2>4. CASE ListLook \/ ListFinish \/ \E k \in Keys : Watch(k) \/ \E b \in Bytes : Foreign(k, b)
      BY <1>2, <2>4, BesidePool DEF ListLook, ListFinish, Watch, Foreign, memory
    <2>5. CASE \E i \in DOMAIN items : List(i)
      BY <1>2, <2>5, BesidePool DEF List
    <2>6. CASE Age
      BY <2>6, AgedPool
    <2>7. CASE Crash
      <3>1. call' = None /\ sweep' = None /\ UNCHANGED <<retained, kept>>
        BY <2>7 DEF Crash
      <3> QED  BY <1>2, <3>1 DEF PoolInv, LocksHeld, VersionsAreKeys, ReleasedIsUnneeded, VersionsBacked,
                                 NeedsBacked, NoNewNeeds
    <2>8. CASE PurgeFails
      BY <1>2, <2>8, PurgingPool
    <2>9. CASE UNCHANGED vars
      BY <1>2, <2>9, BesidePool DEF vars, memory
    <2> QED  BY <2>1, <2>2, <2>3, <2>4, <2>5, <2>6, <2>7, <2>8, <2>9 DEF Next, Environment
  <1> QED  BY <1>1, <1>2, NeedsStep

THEOREM PoolCorrect == Spec => []PoolInv
  <1>1. Init => PoolInv
    BY InitPool
  <1>2. ShapeInv /\ RowInv /\ PoolInv /\ [Next]_vars => PoolInv'
    BY PoolStep
  <1> QED  BY <1>1, <1>2, ShapeCorrect, RowsCorrect, PTL DEF Spec

\* Whatever purges, sweeps and removals of equal content do to each other, the record
\* of a digest has its bytes while a version or a deletion inside the window needs them.
THEOREM PoolBackedCorrect == Spec => []PoolBacked
  <1>1. PoolInv => PoolBacked
    BY DEF PoolInv, PoolBacked, VersionsBacked, NeedsBacked
  <1> QED  BY <1>1, PoolCorrect, PTL

-----------------------------------------------------------------------------
(***************************************************************************)
(* What a call knows of its row                                             *)
(***************************************************************************)
TakeSteps == {"retain", "record", "mark", "capture", "finish"}

\* A call takes a version off its key only with a pending row, whose own pin is in
\* place if it has one; what it does next follows from how the row is kept.
CallTrue ==
  call # None /\ call.row # None =>
    /\ call.kind = "propagate" => call.row.manual
    /\ call.at \in TakeSteps \cup {"pin"} => call.row.state = "pending"
    /\ call.at = "pin" => call.row.manual /\ ~call.row.ready /\ call.found = call.row.content
    /\ call.at \in TakeSteps /\ call.row.manual => call.row.ready
    /\ call.at = "look" /\ call.row.manual /\ call.row.state = "pending" => call.row.ready
    /\ call.at = "mark" /\ ~call.row.manual => ~call.row.captured
    /\ call.at \in {"capture", "finish", "place", "move"} => call.row.captured
    /\ call.at \in {"replace", "unpin"} => call.row.manual
    /\ call.at = "blob" => ~call.row.manual /\ ~call.row.captured
    /\ call.kind = "write" => ~call.row.manual
    /\ call.at = "place" => call.kind = "write"
    /\ call.at = "move" => ~call.row.manual
    /\ call.at \in TakeSteps \cup {"pin"} => ~call.row.old \/ call.row.manual

LEMMA AcceptedTrue ==
  ASSUME ShapeInv, Calls
  PROVE  CallTrue'
  <1>1. ASSUME NEW k \in Keys, Remove(k) PROVE CallTrue'
    BY <1>1 DEF Remove, Ask, CallTrue
  <1>2. ASSUME NEW k \in Keys, NEW c \in Contents, NEW create \in BOOLEAN, Write(k, c, create) PROVE CallTrue'
    BY <1>2 DEF Write, Ask, CallTrue
  <1>3. CASE TrashFolder
    <2>1. /\ call'.at = "capture" /\ call'.kind = "folder" /\ call'.row.captured /\ ~call'.row.manual
          /\ call'.row.state = "pending" /\ ~call'.row.old
      BY <1>3 DEF TrashFolder, Ask, Row
    <2> QED  BY <2>1 DEF CallTrue, TakeSteps
  <1>4. ASSUME NEW k \in Keys, Propagate(k) PROVE CallTrue'
    <2> DEFINE row == [Row(k, index[k], "delete") EXCEPT !.manual = TRUE]
    <2>1. row.manual /\ ~row.ready /\ row.content = index[k] /\ row.state = "pending"
      BY DEF Row
    <2>2. call' = [Ask("propagate", "pin", k) EXCEPT !.id = Len(items) + 1, !.row = row, !.found = index[k]]
      BY <1>4 DEF Propagate
    <2> HIDE DEF row
    <2>3. call'.at = "pin" /\ call'.kind = "propagate" /\ call'.row = row /\ call'.found = index[k]
      BY <2>2 DEF Ask
    <2> QED  BY <2>1, <2>3 DEF CallTrue, TakeSteps
  <1>5. ASSUME NEW i \in DOMAIN items, Again(i) PROVE CallTrue'
    <2>1. items[i].manual /\ items[i].state = "pending" /\ call = None
      BY <1>5 DEF Again, Accept
    <2>2. \/ UNCHANGED call
          \/ call' = [Ask("propagate", IF items[i].ready THEN "retain" ELSE "pin", items[i].key)
                        EXCEPT !.id = i, !.row = items[i], !.found = items[i].content]
      BY <1>5 DEF Again
    <2>3. UNCHANGED call \/ (/\ call'.at = (IF items[i].ready THEN "retain" ELSE "pin")
                             /\ call'.kind = "propagate" /\ call'.row = items[i] /\ call'.found = items[i].content)
      BY <2>2 DEF Ask
    <2> QED  BY <2>1, <2>3 DEF CallTrue, TakeSteps
  <1>6. ASSUME NEW i \in DOMAIN items, Restore(i) PROVE CallTrue'
    <2>1. items[i].state = "pending" /\ items[i].manual => items[i].ready
      BY <1>6 DEF Restore, Offered
    <2>2. call'.at = "look" /\ call'.row = items[i] /\ call'.kind = "restore"
      BY <1>6 DEF Restore, Ask
    <2> QED  BY <2>1, <2>2 DEF CallTrue, TakeSteps
  <1>7. ASSUME NEW i \in DOMAIN items, Discard(i) PROVE CallTrue'
    <2>1. call'.at = "purge" /\ call'.kind = "discard"
      BY <1>7 DEF Discard, Ask
    <2> QED  BY <2>1 DEF CallTrue, TakeSteps
  <1> QED  BY <1>1, <1>2, <1>3, <1>4, <1>5, <1>6, <1>7 DEF Calls

\* The next step of a call with the row it holds.
LEMMA GotoTrue ==
  ASSUME ShapeInv, CallTrue, call # None, NEW step \in Steps, Goto(step),
         call.row # None =>
           /\ step \in TakeSteps => call.at \in TakeSteps
           /\ step = "mark" => call.row.manual
           /\ step \in {"capture", "finish", "place", "move"} => call.row.captured
           /\ step \in {"replace", "unpin"} => call.row.manual
           /\ step = "place" => call.kind = "write"
           /\ step = "move" => ~call.row.manual
           /\ step \notin {"pin", "look", "blob"}
  PROVE  CallTrue'
  <1>1. call'.at = step /\ call'.row = call.row /\ call'.kind = call.kind
    BY CallFacts DEF Goto, Call
  <1> QED  BY <1>1 DEF CallTrue

LEMMA SteppedTrue ==
  ASSUME ShapeInv, CallTrue, Step
  PROVE  CallTrue'
  <1>00. Steps = {"retain", "record", "mark", "capture", "finish", "bare", "place", "index", "pin", "look", "move",
                  "replace", "blob", "settle", "unpin", "purge", "dereference", "blobs", "forget"}
    BY DEF Steps
  <1>0. Return => CallTrue'
    BY DEF Return, CallTrue
  <1>1. CASE Retain
    <2>1. call # None /\ call.at = "retain"
      BY <1>1 DEF Retain, At
    <2>2. call.row # None => call.kind = "propagate" /\ call.row.manual
      BY <2>1 DEF ShapeInv, CallShaped, CallTrue
    <2>3. Return \/ Goto("record")
          \/ Goto(CASE call.kind = "remove" -> "bare" [] call.kind = "write" -> "place" [] OTHER -> "mark")
      BY <1>1 DEF Retain
    <2>4. PICK step \in {"record", "bare", "place", "mark"} :
            (Return \/ Goto(step)) /\ (step \in {"bare", "place"} => call.kind # "propagate")
      BY <2>3
    <2> QED  BY <1>00, <1>0, <2>1, <2>2, <2>4, GotoTrue DEF TakeSteps
  <1>2. CASE RecordRetained
    <2>1. call # None /\ call.at = "record" /\ call \in Call /\ call.key \in Keys
      BY <1>2, CallFacts DEF RecordRetained, At, KeySteps
    <2>2. CASE call.kind = "propagate"
      <3>1. Goto("mark")
        BY <1>2, <2>2 DEF RecordRetained
      <3>2. call.row # None => call.row.manual
        BY <2>1, <2>2 DEF CallTrue
      <3> QED  BY <1>00, <2>1, <3>1, <3>2, GotoTrue DEF TakeSteps
    <2>3. CASE call.kind # "propagate"
      <3> DEFINE row == Row(call.key, call.found, IF call.kind = "remove" THEN "delete" ELSE "overwrite")
      <3>1. call' = [call EXCEPT !.at = "mark", !.id = Len(items) + 1, !.row = row]
        BY <1>2, <2>3 DEF RecordRetained
      <3>2. row.state = "pending" /\ ~row.manual /\ ~row.captured /\ ~row.old
        BY <2>1, DirAssumption DEF Row
      <3> HIDE DEF row
      <3>3. call'.at = "mark" /\ call'.row = row /\ call'.kind = call.kind
        BY <2>1, <3>1 DEF Call
      <3> QED  BY <2>3, <3>2, <3>3 DEF CallTrue
    <2> QED  BY <2>2, <2>3
  <1>3. CASE Mark
    <2> DEFINE row == [call.row EXCEPT !.captured = TRUE]
    <2>1. call # None /\ call \in Call /\ call.at = "mark" /\ call.row # None /\ call.row \in Item
      BY <1>3, CallFacts DEF Mark, At, RowSteps
    <2>2. row.captured /\ row.manual = call.row.manual /\ row.ready = call.row.ready /\ row.state = call.row.state
          /\ row.old = call.row.old
      BY <2>1 DEF Item
    <2>3. call' = [call EXCEPT !.at = "capture", !.row = row]
      BY <1>3 DEF Mark
    <2> HIDE DEF row
    <2>4. call'.at = "capture" /\ call'.row = row /\ call'.kind = call.kind
      BY <2>1, <2>3 DEF Call
    <2> QED  BY <2>1, <2>2, <2>4 DEF CallTrue, TakeSteps
  <1>4. CASE Capture
    <2>1. call # None /\ call.at = "capture" /\ (Return \/ Goto("finish"))
      BY <1>4 DEF Capture, At
    <2>2. call.row # None => call.row.captured
      BY <2>1 DEF CallTrue
    <2> QED  BY <1>00, <1>0, <2>1, <2>2, GotoTrue DEF TakeSteps
  <1>5. CASE Finish
    <2>1. call # None /\ call.at = "finish"
      BY <1>5 DEF Finish, At
    <2>2. call.row # None => call.row.captured
      BY <2>1 DEF CallTrue
    <2>3. Return \/ (Goto("place") /\ call.kind = "write") \/ Goto(IF call.row.manual THEN "replace" ELSE "move")
      BY <1>5 DEF Finish
    <2>4. PICK step \in {"place", "replace", "move"} :
            /\ Return \/ Goto(step)
            /\ step = "place" => Return \/ call.kind = "write"
            /\ step = "replace" => call.row.manual
            /\ step = "move" => ~call.row.manual
      BY <2>3
    <2> QED  BY <1>00, <1>0, <2>1, <2>2, <2>4, GotoTrue DEF TakeSteps
  <1>6. CASE Place
    <2>1. call # None /\ call.at = "place"
      BY <1>6 DEF Place, At
    <2>2. call.row # None => call.row.captured /\ ~call.row.manual
      BY <2>1 DEF CallTrue
    <2>3. PICK step \in {"index", "move"} : Return \/ Goto(step)
      BY <1>6 DEF Place
    <2> QED  BY <1>00, <1>0, <2>1, <2>2, <2>3, GotoTrue DEF TakeSteps
  <1>7. CASE Pin
    <2> DEFINE row == [call.row EXCEPT !.ready = TRUE]
    <2>1. call # None /\ call \in Call /\ call.at = "pin" /\ call.row # None /\ call.row \in Item
      BY <1>7, CallFacts DEF Pin, At, RowSteps
    <2>2. row.manual = call.row.manual /\ row.ready /\ row.state = call.row.state /\ row.old = call.row.old
      BY <2>1 DEF Item
    <2>3. Return \/ call' = [call EXCEPT !.at = "retain", !.row = row]
      BY <1>7 DEF Pin
    <2> HIDE DEF row
    <2>4. Return \/ (call'.at = "retain" /\ call'.row = row /\ call'.kind = call.kind)
      BY <2>1, <2>3 DEF Call
    <2> QED  BY <1>0, <2>1, <2>2, <2>4 DEF CallTrue, TakeSteps
  <1>8. CASE Look
    <2> DEFINE row == [call.row EXCEPT !.state = "active"]
               step == IF row.manual THEN "replace" ELSE IF row.captured THEN "move" ELSE "blob"
    <2>1. call # None /\ call \in Call /\ call.at = "look" /\ call.row # None /\ call.row \in Item
      BY <1>8, CallFacts DEF Look, At, RowSteps
    <2>2. row.manual = call.row.manual /\ row.captured = call.row.captured /\ row.state = "active"
      BY <2>1 DEF Item
    <2>3. Return \/ call' = [call EXCEPT !.row = row, !.at = step]
      BY <1>8 DEF Look
    <2>4. /\ step \in {"replace", "move", "blob"} /\ (step = "replace" => row.manual)
          /\ (step = "move" => row.captured /\ ~row.manual) /\ (step = "blob" => ~row.manual /\ ~row.captured)
      OBVIOUS
    <2> HIDE DEF row, step
    <2>5. Return \/ (call'.at = step /\ call'.row = row /\ call'.kind = call.kind)
      BY <2>1, <2>3 DEF Call
    <2> QED  BY <1>0, <2>1, <2>2, <2>4, <2>5 DEF CallTrue, TakeSteps
  <1>9. CASE Move \/ Replace \/ Blob
    <2>1. call # None /\ (Return \/ Goto("settle"))
      BY <1>9 DEF Move, Replace, Blob, Rewrite, At
    <2> QED  BY <1>00, <1>0, <2>1, GotoTrue DEF TakeSteps
  <1>10. CASE Settle
    <2>1. call # None /\ (Return \/ (Goto("unpin") /\ call.row.manual))
      BY <1>10 DEF Settle, At
    <2> QED  BY <1>00, <1>0, <2>1, GotoTrue DEF TakeSteps
  <1>11. CASE Bare \/ Index \/ Unpin \/ Forget
    BY <1>0, <1>11 DEF Bare, Index, Unpin, Forget
  <1>12. CASE Purge \/ Dereference \/ Blobs
    <2>1. call # None /\ \E step \in {"dereference", "blobs", "forget"} : Return \/ Goto(step)
      BY <1>12 DEF Purge, Dereference, Blobs, At
    <2> QED  BY <1>00, <1>0, <2>1, GotoTrue DEF TakeSteps
  <1> QED  BY <1>1, <1>2, <1>3, <1>4, <1>5, <1>6, <1>7, <1>8, <1>9, <1>10, <1>11, <1>12 DEF Step

LEMMA CallStep == ShapeInv /\ CallTrue /\ [Next]_vars => CallTrue'
  <1> SUFFICES ASSUME ShapeInv, CallTrue, [Next]_vars PROVE CallTrue'
    OBVIOUS
  <1>1. UNCHANGED call \/ call' = None => CallTrue'
    BY DEF CallTrue
  <1>2. Sweeping => UNCHANGED call
    BY DEF Sweeping, StartSweep, SweepTrashed, SweepRow, SweepDigest, SweepRecord, EndSweep
  <1>3. ListLook \/ ListFinish \/ Environment => UNCHANGED call \/ call' = None
    BY DEF ListLook, ListFinish, Environment, Watch, Foreign, List, Age, Crash, PurgeFails, Return, memory
  <1> QED  BY <1>1, <1>2, <1>3, AcceptedTrue, SteppedTrue DEF Next, vars, memory

THEOREM CallsCorrect == Spec => []CallTrue
  <1>1. Init => CallTrue
    BY DEF Init, CallTrue
  <1>2. ShapeInv /\ CallTrue /\ [Next]_vars => CallTrue'
    BY CallStep
  <1> QED  BY <1>1, <1>2, ShapeCorrect, PTL DEF Spec

\* Before a call renames a file away nobody has a captured copy of its row, and the
\* row of a purge is not pending any more.
FreshInv ==
  /\ call # None /\ call.at = "mark" /\ ~call.row.manual =>
       /\ items[call.id] # None => ~items[call.id].captured
       /\ listing # None /\ listing.id = call.id => ~listing.row.captured
  /\ call # None /\ call.at \in PurgeSteps /\ items[call.id] # None => items[call.id].state # "pending"

LEMMA SteppedFresh ==
  ASSUME ShapeInv, CallTrue, FreshInv, Step
  PROVE  FreshInv'
  <1>1. ASSUME call' # None => call'.at \notin PurgeSteps \cup {"mark"} PROVE FreshInv'
    BY <1>1 DEF FreshInv
  <1>2. ASSUME call # None, NEW step, Return \/ Goto(step), step \notin PurgeSteps \cup {"mark"} PROVE FreshInv'
    <2>1. call' = None \/ call'.at = step
      BY <1>2, CallFacts DEF Return, Goto, Call
    <2> QED  BY <1>1, <1>2, <2>1
  <1>3. CASE Retain
    <2>1. call # None /\ call.at = "retain" /\ call \in Call
      BY <1>3, CallFacts DEF Retain, At
    <2>2. Return \/ Goto("record")
          \/ Goto(CASE call.kind = "remove" -> "bare" [] call.kind = "write" -> "place" [] OTHER -> "mark")
      BY <1>3 DEF Retain
    <2>3. call.kind \notin {"remove", "write"} => call.row # None /\ call.row.manual
      BY <2>1 DEF ShapeInv, CallShaped, CallTrue
    <2>4. CASE Return \/ Goto("record") \/ Goto("bare") \/ Goto("place")
      BY <1>2, <2>1, <2>4 DEF PurgeSteps
    <2>5. CASE Goto("mark") /\ call.row.manual
      <3>1. call'.at = "mark" /\ call'.row = call.row
        BY <2>1, <2>5 DEF Goto, Call
      <3> QED  BY <2>5, <3>1 DEF FreshInv, PurgeSteps
    <2> QED  BY <2>2, <2>3, <2>4, <2>5
  <1>4. CASE RecordRetained
    <2>1. call # None /\ call.at = "record" /\ call \in Call /\ call.key \in Keys /\ call.found \in Contents
          /\ UNCHANGED listing
      BY <1>4, CallFacts DEF RecordRetained, At, KeySteps, ShapeInv, CallShaped
    <2>2. CASE call.kind = "propagate"
      <3>1. Goto("mark") /\ call.row # None /\ call.row.manual
        BY <1>4, <2>1, <2>2 DEF RecordRetained, ShapeInv, CallShaped, CallTrue
      <3>2. call'.at = "mark" /\ call'.row = call.row
        BY <2>1, <3>1 DEF Goto, Call
      <3> QED  BY <3>1, <3>2 DEF FreshInv, PurgeSteps
    <2>3. CASE call.kind # "propagate"
      <3> DEFINE row == Row(call.key, call.found, IF call.kind = "remove" THEN "delete" ELSE "overwrite")
      <3>1. call' = [call EXCEPT !.at = "mark", !.id = Len(items) + 1, !.row = row] /\ items' = Append(items, row)
        BY <1>4, <2>3 DEF RecordRetained
      <3>2. row \in Item /\ ~row.captured /\ Len(items) < MaxItems
        BY <2>1, <2>3, RowMade, DirAssumption DEF Row, ShapeInv, CallShaped
      <3> HIDE DEF row
      <3>3. call'.at = "mark" /\ call'.id = Len(items) + 1
        BY <2>1, <3>1 DEF Call
      <3>4. items'[call'.id] = row /\ call'.id \notin DOMAIN items
        BY <3>1, <3>2, <3>3, AddRow DEF ShapeInv
      <3>5. listing # None => listing.id \in DOMAIN items
        BY DEF ShapeInv, ListingShaped
      <3> QED  BY <2>1, <3>2, <3>3, <3>4, <3>5 DEF FreshInv, PurgeSteps
    <2> QED  BY <2>2, <2>3
  <1>5. CASE Capture \/ Finish \/ Bare \/ Place \/ Index \/ Move \/ Replace \/ Blob \/ Settle \/ Unpin \/ Forget
    <2>1. call # None
      BY <1>5 DEF Capture, Finish, Bare, Place, Index, Move, Replace, Blob, Rewrite, Settle, Unpin, Forget, At
    <2>2. \E step \in {"finish", "replace", "move", "place", "index", "settle", "unpin"} : Return \/ Goto(step)
      BY <1>5 DEF Capture, Finish, Bare, Place, Index, Move, Replace, Blob, Rewrite, Settle, Unpin, Forget
    <2> QED  BY <1>2, <2>1, <2>2 DEF PurgeSteps
  <1>6. CASE Mark
    <2>1. call' = [call EXCEPT !.at = "capture", !.row = [call.row EXCEPT !.captured = TRUE]] /\ call # None
      BY <1>6 DEF Mark, At
    <2>2. call'.at = "capture"
      BY <2>1, CallFacts DEF Call
    <2> QED  BY <1>1, <2>2 DEF PurgeSteps
  <1>7. CASE Pin
    <2>1. call # None /\ (Return \/ call' = [call EXCEPT !.at = "retain", !.row = [call.row EXCEPT !.ready = TRUE]])
      BY <1>7 DEF Pin, At
    <2>2. call' = None \/ call'.at = "retain"
      BY <2>1, CallFacts DEF Call, Return
    <2> QED  BY <1>1, <2>2 DEF PurgeSteps
  <1>8. CASE Look
    <2> DEFINE row == [call.row EXCEPT !.state = "active"]
               step == IF row.manual THEN "replace" ELSE IF row.captured THEN "move" ELSE "blob"
    <2>1. call # None /\ (Return \/ call' = [call EXCEPT !.row = row, !.at = step])
      BY <1>8 DEF Look, At
    <2>2. step \in {"replace", "move", "blob"}
      OBVIOUS
    <2> HIDE DEF row, step
    <2>3. call' = None \/ call'.at = step
      BY <2>1, CallFacts DEF Call, Return
    <2> QED  BY <1>1, <2>2, <2>3 DEF PurgeSteps
  <1>9. CASE Purge \/ Dereference \/ Blobs
    <2>1. call # None /\ call.at \in PurgeSteps
      BY <1>9 DEF Purge, Dereference, Blobs, At, PurgeSteps
    <2>2. Return \/ (UNCHANGED items /\ \E step \in {"dereference", "blobs", "forget"} : Goto(step))
      BY <1>9 DEF Purge, Dereference, Blobs
    <2>3. call' = None \/ (UNCHANGED items /\ call'.at \in {"dereference", "blobs", "forget"} /\ call'.id = call.id)
      BY <2>1, <2>2, CallFacts DEF Return, Goto, Call
    <2> QED  BY <2>1, <2>3 DEF FreshInv, PurgeSteps
  <1> QED  BY <1>3, <1>4, <1>5, <1>6, <1>7, <1>8, <1>9 DEF Step

LEMMA FreshStep == ShapeInv /\ RowInv /\ CallTrue /\ FreshInv /\ [Next]_vars => FreshInv'
  <1> SUFFICES ASSUME ShapeInv, RowInv, CallTrue, FreshInv, [Next]_vars PROVE FreshInv'
    OBVIOUS
  <1>1. ASSUME call' # None => call'.at \notin PurgeSteps \cup {"mark"} PROVE FreshInv'
    BY <1>1 DEF FreshInv
  <1>2. ASSUME UNCHANGED <<items, call, listing>> PROVE FreshInv'
    BY <1>2 DEF FreshInv
  <1>3. call # None /\ call.at \in PurgeSteps \cup {"mark"} => call.row # None /\ call.id \in DOMAIN items
    BY CallFacts DEF RowSteps
  <1>4. CASE Calls
    <2>1. ASSUME NEW k \in Keys, Remove(k) \/ Propagate(k) PROVE FreshInv'
      <3>1. call'.at \in {"retain", "pin"}
        BY <2>1 DEF Remove, Propagate, Ask
      <3> QED  BY <1>1, <3>1 DEF PurgeSteps
    <2>2. ASSUME NEW k \in Keys, NEW c \in Contents, NEW create \in BOOLEAN, Write(k, c, create) PROVE FreshInv'
      <3>1. call'.at \in {"retain", "place"}
        BY <2>2 DEF Write, Ask
      <3> QED  BY <1>1, <3>1 DEF PurgeSteps
    <2>3. CASE TrashFolder
      <3>1. call'.at = "capture"
        BY <2>3 DEF TrashFolder, Ask
      <3> QED  BY <1>1, <3>1 DEF PurgeSteps
    <2>4. ASSUME NEW i \in DOMAIN items, Again(i) \/ Restore(i) PROVE FreshInv'
      <3>1. call' = None \/ call'.at \in {"retain", "pin", "look"}
        BY <2>4 DEF Again, Restore, Ask, Accept
      <3> QED  BY <1>1, <3>1 DEF PurgeSteps
    <2>5. ASSUME NEW i \in DOMAIN items, Discard(i) PROVE FreshInv'
      <3> DEFINE row == [items[i] EXCEPT !.state = "discarding"]
      <3>1. items[i] \in Item
        BY <2>5, RowIds DEF Discard, ShapeInv
      <3>2. row \in Item /\ row.state = "discarding" /\ items' = [items EXCEPT ![i] = row]
        BY <2>5, <3>1 DEF Discard, Item
      <3> HIDE DEF row
      <3>3. items'[i] = row
        BY <3>2, PutRow DEF ShapeInv
      <3>4. call'.at = "purge" /\ call'.id = i
        BY <2>5 DEF Discard, Ask
      <3> QED  BY <3>2, <3>3, <3>4 DEF FreshInv
    <2> QED  BY <1>4, <2>1, <2>2, <2>3, <2>4, <2>5 DEF Calls
  <1>5. CASE Step
    BY <1>5, SteppedFresh
  <1>6. CASE SweepRow
    <2>1. sweep.dropped \in DOMAIN items /\ items' = [items EXCEPT ![sweep.dropped] = None] /\ UNCHANGED <<call, listing>>
      BY <1>6 DEF SweepRow, ShapeInv, SweepShaped
    <2>2. \A j \in DOMAIN items : items'[j] = IF j = sweep.dropped THEN None ELSE items[j]
      BY <2>1, PutRow DEF ShapeInv
    <2> QED  BY <1>3, <2>1, <2>2 DEF FreshInv
  <1>7. CASE Sweeping /\ ~SweepRow
    BY <1>2, <1>7 DEF Sweeping, StartSweep, SweepTrashed, SweepDigest, SweepRecord, EndSweep
  <1>8. CASE ListLook
    <2>1. UNCHANGED <<items, call>> /\ listing # None /\ listing \in Listing
          /\ (listing' = None \/ listing' = [listing EXCEPT !.found = TRUE])
      BY <1>8 DEF ListLook, ShapeInv, TypeOK
    <2>2. listing' # None => listing'.id = listing.id /\ listing'.row = listing.row
      BY <2>1 DEF Listing
    <2> QED  BY <2>1, <2>2 DEF FreshInv
  <1>9. CASE ListFinish
    <2> DEFINE row == [listing.row EXCEPT !.state = "active"]
               i == listing.id
    <2>1. /\ i \in DOMAIN items /\ listing.row \in Item /\ listing # None /\ listing' = None /\ UNCHANGED call
          /\ items' = [items EXCEPT ![i] = row]
      BY <1>9 DEF ListFinish, ShapeInv, ListingShaped, TypeOK, Listing
    <2>2. row \in Item /\ row.state = "active" /\ row.captured = listing.row.captured
      BY <2>1 DEF Item
    <2> HIDE DEF row
    <2>3. \A j \in DOMAIN items : items'[j] = IF j = i THEN row ELSE items[j]
      BY <2>1, <2>2, PutRow DEF ShapeInv
    <2> QED  BY <1>3, <2>1, <2>2, <2>3 DEF FreshInv
  <1>10. ASSUME NEW i \in DOMAIN items, List(i) PROVE FreshInv'
    <2>1. UNCHANGED <<items, call>> /\ items[i] # None /\ listing'.id = i /\ listing'.row = items[i]
      BY <1>10 DEF List, Offered
    <2> QED  BY <2>1 DEF FreshInv
  <1>11. CASE Age \/ Crash \/ PurgeFails
    <2>1. call' = None
      BY <1>11 DEF Age, Crash, PurgeFails, Return, memory
    <2> QED  BY <1>1, <2>1
  <1>12. CASE UNCHANGED vars \/ \E k \in Keys : Watch(k) \/ \E b \in Bytes : Foreign(k, b)
    BY <1>2, <1>12 DEF vars, memory, Watch, Foreign
  <1> QED  BY <1>4, <1>5, <1>6, <1>7, <1>8, <1>9, <1>10, <1>11, <1>12 DEF Next, Environment

THEOREM FreshCorrect == Spec => []FreshInv
  <1>1. Init => FreshInv
    BY DEF Init, FreshInv
  <1>2. ShapeInv /\ RowInv /\ CallTrue /\ FreshInv /\ [Next]_vars => FreshInv'
    BY FreshStep
  <1> QED  BY <1>1, <1>2, ShapeCorrect, RowsCorrect, CallsCorrect, PTL DEF Spec

-----------------------------------------------------------------------------
(***************************************************************************)
(* Pins and captured files                                                  *)
(***************************************************************************)
PinTrue(i) ==
  items[i] # None /\ items[i].state \in {"pending", "active"} /\ items[i].manual =>
    /\ items[i].ready => pins[i] = items[i].content
    /\ items[i].state = "active" => items[i].ready

There(i) == Captured(i) \/ i \in spent.back

CaptureTrue(i) ==
  items[i] # None /\ items[i].state = "active" /\ items[i].captured /\ ~items[i].manual /\ ~items[i].old => There(i)

RowsTrue == \A i \in DOMAIN items \ spent.stale : PinTrue(i) /\ CaptureTrue(i)

FinishTrue == call # None /\ call.at = "finish" /\ ~call.row.old => There(call.id)

ListingTrue ==
  /\ listing # None /\ listing.found /\ items[listing.id] = listing.row
  /\ listing.row.captured /\ ~listing.row.manual /\ ~listing.row.old
  => There(listing.id)

RestoreInv == RowsTrue /\ FinishTrue /\ ListingTrue

\* What was moved back stays recorded.
LEMMA BackKept ==
  ASSUME SpentType
  PROVE  /\ \A kind : Accept(kind) => spent'.back = spent.back
         /\ \A B : Waived(B).back = spent.back /\ [Waived(B) EXCEPT !.calls = @ + 1].back = spent.back
         /\ \A B, C : [Taken(B) EXCEPT !.undone = @ \cup C].back = spent.back
         /\ \A B : [spent EXCEPT !.taken = @ \ B].back = spent.back
         /\ \A B : [spent EXCEPT !.undone = @ \cup B].back = spent.back
         /\ [spent EXCEPT !.events = @ + 1].back = spent.back
  <1>1. \A kind : Accept(kind) => spent'.back = spent.back
    BY DEF SpentType, Accept
  <1>2. \A B : Waived(B).back = spent.back /\ [Waived(B) EXCEPT !.calls = @ + 1].back = spent.back
    BY DEF SpentType, Waived
  <1>3. \A B, C : [Taken(B) EXCEPT !.undone = @ \cup C].back = spent.back
    BY DEF SpentType, Taken
  <1>4. /\ \A B : [spent EXCEPT !.taken = @ \ B].back = spent.back
        /\ \A B : [spent EXCEPT !.undone = @ \cup B].back = spent.back
        /\ [spent EXCEPT !.events = @ + 1].back = spent.back
    BY DEF SpentType
  <1> QED  BY <1>1, <1>2, <1>3, <1>4

LEMMA BackGrows == ShapeInv /\ [Next]_vars => spent.back \subseteq spent'.back
  <1> SUFFICES ASSUME ShapeInv, [Next]_vars PROVE spent.back \subseteq spent'.back
    OBVIOUS
  <1>0. SpentType
    BY DEF ShapeInv
  <1>1. CASE Calls
    BY <1>0, <1>1, BackKept DEF Calls, Remove, Propagate, Write, TrashFolder, Again, Restore, Discard
  <1>2. CASE Step
    <2>1. CASE Capture
      <3>1. UNCHANGED spent \/ \E B, C : spent' = [Taken(B) EXCEPT !.undone = @ \cup C]
        BY <2>1 DEF Capture
      <3> QED  BY <1>0, <3>1, BackKept
    <2>2. CASE Move
      BY <1>0, <2>2 DEF Move, SpentType
    <2>3. CASE Bare \/ Place \/ Settle
      BY <1>0, <2>3, BackKept DEF Bare, Place, Settle
    <2>4. ASSUME NEW bytes, Rewrite("replace", bytes) \/ Rewrite("blob", bytes) PROVE spent.back \subseteq spent'.back
      BY <1>0, <2>4, BackKept DEF Rewrite
    <2>5. CASE Replace \/ Blob
      BY <2>4, <2>5 DEF Replace, Blob
    <2>6. CASE Retain \/ RecordRetained \/ Mark \/ Finish \/ Index \/ Pin \/ Look \/ Unpin \/ Purge \/ Dereference \/ Blobs \/ Forget
      BY <2>6 DEF Retain, RecordRetained, Mark, Finish, Index, Pin, Look, Unpin, Purge, Dereference, Blobs, Forget
    <2> QED  BY <1>2, <2>1, <2>2, <2>3, <2>5, <2>6 DEF Step
  <1>3. CASE Sweeping
    <2>1. CASE SweepTrashed
      <3>1. UNCHANGED spent \/ \E B : spent' = Waived(B)
        BY <2>1 DEF SweepTrashed
      <3> QED  BY <1>0, <3>1, BackKept
    <2>2. CASE SweepDigest
      <3>1. UNCHANGED spent \/ \E B : spent' = Waived(B)
        BY <2>2 DEF SweepDigest
      <3> QED  BY <1>0, <3>1, BackKept
    <2>3. CASE StartSweep \/ SweepRow \/ SweepRecord \/ EndSweep
      BY <2>3 DEF StartSweep, SweepRow, SweepRecord, EndSweep
    <2> QED  BY <1>3, <2>1, <2>2, <2>3 DEF Sweeping
  <1>4. CASE ListLook \/ ListFinish
    BY <1>0, <1>4 DEF ListLook, ListFinish, SpentType
  <1>5. CASE Environment
    BY <1>0, <1>5, BackKept DEF Environment, List, Watch, Foreign, Age, Crash, PurgeFails
  <1> QED  BY <1>1, <1>2, <1>3, <1>4, <1>5 DEF Next, vars

\* Who may remove what was captured for a row: a sweep when the row is old, and the
\* call that ends the row.
LEMMA ThereKept ==
  ASSUME ShapeInv, RowInv, [Next]_vars, NEW i \in DOMAIN items, There(i)
  PROVE  \/ There(i)'
         \/ items[i] # None /\ items[i].old /\ ~items[i].manual
         \/ call # None /\ call.id = i /\ call.at \in {"unpin", "purge"}
  <1>0. i \in Ids /\ trashed \in [Ids -> [Keys -> Bytes]] /\ spent.back \subseteq spent'.back
    BY RowIds, BackGrows DEF ShapeInv, TypeOK
  <1>1. CASE trashed'[i] = trashed[i]
    BY <1>0, <1>1 DEF There, Captured
  <1>2. CASE Step
    <2>1. CASE Capture
      <3> DEFINE tree == [k \in Keys |-> IF k \in Under(call.key) THEN disk[k] ELSE Absent]
      <3>1. UNCHANGED trashed \/ (tree # Nothing /\ trashed' = [trashed EXCEPT ![call.id] = tree])
        BY <2>1 DEF Capture
      <3> HIDE DEF tree
      <3> QED  BY <1>0, <1>1, <3>1 DEF There, Captured
    <2>2. CASE Move
      <3>1. UNCHANGED trashed \/ (trashed' = [trashed EXCEPT ![call.id] = Nothing] /\ call.id \in spent'.back)
        BY <2>2 DEF Move, ShapeInv, SpentType
      <3> QED  BY <1>0, <1>1, <3>1 DEF There
    <2>3. CASE Unpin \/ Purge
      <3>1. call # None /\ call.at \in {"unpin", "purge"}
            /\ (UNCHANGED trashed \/ trashed' = [trashed EXCEPT ![call.id] = Nothing])
        BY <2>3 DEF Unpin, Purge, At
      <3> QED  BY <1>0, <1>1, <3>1
    <2>4. CASE \/ Retain \/ RecordRetained \/ Mark \/ Finish \/ Bare \/ Place \/ Index \/ Pin \/ Look
               \/ Replace \/ Blob \/ Settle \/ Dereference \/ Blobs \/ Forget
      BY <1>1, <2>4 DEF Retain, RecordRetained, Mark, Finish, Bare, Place, Index, Pin, Look, Replace, Blob, Rewrite,
                        Settle, Dereference, Blobs, Forget
    <2> QED  BY <1>2, <2>1, <2>2, <2>3, <2>4 DEF Step
  <1>3. CASE SweepTrashed
    <2>1. PICK j \in sweep.rows : UNCHANGED trashed \/ (items[j] # None /\ trashed' = [trashed EXCEPT ![j] = Nothing])
      BY <1>3 DEF SweepTrashed
    <2>2. items[j] # None => items[j].old /\ ~items[j].manual
      BY <1>3 DEF RowInv, CopiesTrue, SweepTrashed
    <2> QED  BY <1>0, <1>1, <2>1, <2>2
  <1>4. CASE Calls
    BY <1>1, <1>4 DEF Calls, Remove, Propagate, Write, TrashFolder, Again, Restore, Discard
  <1>5. CASE Sweeping /\ ~SweepTrashed
    BY <1>1, <1>5 DEF Sweeping, StartSweep, SweepRow, SweepDigest, SweepRecord, EndSweep
  <1>6. CASE ListLook \/ ListFinish \/ Environment \/ UNCHANGED vars
    BY <1>1, <1>6 DEF ListLook, ListFinish, Environment, List, Watch, Foreign, Age, Crash, PurgeFails, vars
  <1> QED  BY <1>2, <1>3, <1>4, <1>5, <1>6 DEF Next

\* Who changes a pin.
LEMMA PinsMove ==
  ASSUME [Next]_vars
  PROVE  UNCHANGED pins \/ Pin \/ Unpin \/ Purge
  <1>1. CASE Step
    BY <1>1 DEF Step, Retain, RecordRetained, Mark, Capture, Finish, Bare, Place, Index, Look, Move, Replace, Blob,
                Rewrite, Settle, Dereference, Blobs, Forget
  <1>2. CASE Calls
    BY <1>2 DEF Calls, Remove, Propagate, Write, TrashFolder, Again, Restore, Discard
  <1>3. CASE Sweeping
    BY <1>3 DEF Sweeping, StartSweep, SweepTrashed, SweepRow, SweepDigest, SweepRecord, EndSweep
  <1>4. CASE ListLook \/ ListFinish \/ Environment \/ UNCHANGED vars
    BY <1>4 DEF ListLook, ListFinish, Environment, List, Watch, Foreign, Age, Crash, PurgeFails, vars
  <1> QED  BY <1>1, <1>2, <1>3, <1>4 DEF Next

\* Only the call of a row changes its pin.
LEMMA PinsKept ==
  ASSUME ShapeInv, [Next]_vars, NEW i \in DOMAIN items
  PROVE  pins'[i] = pins[i] \/ (call # None /\ call.id = i /\ call.at \in {"pin", "unpin", "purge"})
  <1>0. i \in Ids /\ pins \in [Ids -> Bytes]
    BY RowIds DEF ShapeInv, TypeOK
  <1>1. ASSUME Pin \/ Unpin \/ Purge
        PROVE  /\ call # None /\ call.at \in {"pin", "unpin", "purge"}
               /\ UNCHANGED pins \/ \E b : pins' = [pins EXCEPT ![call.id] = b]
    BY <1>1 DEF Pin, Unpin, Purge, At
  <1> QED  BY <1>0, <1>1, PinsMove

\* A call that holds a captured file until it finishes its row.
LEMMA FinishStep == ShapeInv /\ RowInv /\ RestoreInv /\ [Next]_vars => FinishTrue'
  <1> SUFFICES ASSUME ShapeInv, RowInv, RestoreInv, [Next]_vars, call' # None, call'.at = "finish", ~call'.row.old
               PROVE  There(call.id)'
    BY DEF FinishTrue
  <1>1. CASE Capture
    <2> DEFINE tree == [k \in Keys |-> IF k \in Under(call.key) THEN disk[k] ELSE Absent]
    <2>1. call # None /\ call.id \in Ids /\ call.id = call'.id
      BY <1>1, CallFacts DEF Capture, At, RowSteps, Goto, Return, Call
    <2>2. tree # Nothing /\ trashed' = [trashed EXCEPT ![call.id] = tree]
      BY <1>1 DEF Capture, Return
    <2> HIDE DEF tree
    <2> QED  BY <2>1, <2>2 DEF There, Captured, ShapeInv, TypeOK
  <1>2. CASE UNCHANGED call
    <2>1. There(call.id) /\ call # None /\ call.row # None /\ call.at = "finish" /\ ~call.row.old
      BY <1>2, CallFacts DEF RestoreInv, FinishTrue, RowSteps
    <2>2. call.id \in DOMAIN items /\ (items[call.id] # None => items[call.id].old = call.row.old)
      BY <2>1, RowFacts DEF Copy, Same
    <2> QED  BY <1>2, <2>1, <2>2, ThereKept
  <1>3. ASSUME call # None, NEW step, Goto(step) PROVE step = "finish"
    BY <1>3, CallFacts DEF Goto, Call
  <1>4. CASE Calls
    <2>1. ASSUME NEW k \in Keys, Remove(k) \/ Propagate(k) PROVE FALSE
      BY <2>1 DEF Remove, Propagate, Ask
    <2>2. ASSUME NEW k \in Keys, NEW c \in Contents, NEW create \in BOOLEAN, Write(k, c, create) PROVE FALSE
      BY <2>2 DEF Write, Ask
    <2>3. ~TrashFolder
      BY DEF TrashFolder, Ask
    <2>4. ASSUME NEW i \in DOMAIN items, Again(i) \/ Restore(i) \/ Discard(i) PROVE UNCHANGED call
      BY <2>4 DEF Again, Restore, Discard, Ask
    <2> QED  BY <1>2, <1>4, <2>1, <2>2, <2>3, <2>4 DEF Calls
  <1>5. CASE Step /\ ~Capture
    <2>1. ~Return
      BY DEF Return
    <2>2. CASE Retain \/ Finish \/ Bare \/ Place \/ Index \/ Move \/ Replace \/ Blob \/ Settle \/ Unpin \/ Purge
               \/ Dereference \/ Blobs \/ Forget
      <3>1. call # None
        BY <2>2 DEF Retain, Finish, Bare, Place, Index, Move, Replace, Blob, Rewrite, Settle, Unpin, Purge,
                    Dereference, Blobs, Forget, At
      <3>2. \E step \in {"bare", "place", "mark", "record", "replace", "move", "index", "settle", "unpin",
                         "dereference", "blobs", "forget"} : Goto(step)
        BY <2>1, <2>2 DEF Retain, Finish, Bare, Place, Index, Move, Replace, Blob, Rewrite, Settle, Unpin, Purge,
                    Dereference, Blobs, Forget
      <3> QED  BY <1>3, <3>1, <3>2
    <2>3. CASE RecordRetained
      <3>1. call # None
        BY <2>3 DEF RecordRetained, At
      <3>2. Goto("mark") \/ \E id, row : call' = [call EXCEPT !.at = "mark", !.id = id, !.row = row]
        BY <2>3 DEF RecordRetained
      <3>3. call'.at = "mark"
        BY <3>1, <3>2, CallFacts DEF Goto, Call
      <3> QED  BY <3>3
    <2>4. CASE Mark \/ Pin \/ Look
      <3> DEFINE step == IF call.row.manual THEN "replace" ELSE IF call.row.captured THEN "move" ELSE "blob"
      <3>1. call # None /\ call.row # None /\ call.row \in Item
        BY <2>4, CallFacts DEF Mark, Pin, Look, At, RowSteps
      <3>2. LET row == [call.row EXCEPT !.state = "active"]
            IN  row.manual = call.row.manual /\ row.captured = call.row.captured
        BY <3>1 DEF Item
      <3>3. \E at \in {"capture", "retain", step} : \E row : call' = [call EXCEPT !.at = at, !.row = row]
        <4>1. Mark => \E row : call' = [call EXCEPT !.at = "capture", !.row = row]
          BY DEF Mark
        <4>2. Pin => \E row : call' = [call EXCEPT !.at = "retain", !.row = row]
          BY <2>1 DEF Pin
        <4>3. Look => \E row : call' = [call EXCEPT !.at = step, !.row = row]
          BY <2>1, <3>1, <3>2, CallFacts DEF Look, Call
        <4> QED  BY <2>4, <4>1, <4>2, <4>3
      <3>4. step # "finish"
        OBVIOUS
      <3> HIDE DEF step
      <3> QED  BY <3>1, <3>3, <3>4, CallFacts DEF Call
    <2> QED  BY <1>5, <2>2, <2>3, <2>4 DEF Step
  <1>6. CASE Sweeping \/ ListLook \/ ListFinish \/ Environment \/ UNCHANGED vars
    <2>1. UNCHANGED call \/ call' = None
      BY <1>6 DEF Sweeping, StartSweep, SweepTrashed, SweepRow, SweepDigest, SweepRecord, EndSweep,
                  ListLook, ListFinish, Environment, Watch, Foreign, List, Age, Crash, PurgeFails, Return, memory, vars
    <2> QED  BY <1>2, <2>1
  <1> QED  BY <1>1, <1>4, <1>5, <1>6 DEF Next

\* A listing finishes only the row it read: nobody writes that row again in between.
LEMMA RowNotRewritten ==
  ASSUME ShapeInv, RowInv, CallTrue, FreshInv, [Next]_vars, UNCHANGED listing,
         listing # None, items'[listing.id] = listing.row, listing.row.captured, ~listing.row.manual, ~listing.row.old
  PROVE  items[listing.id] = listing.row
  <1> DEFINE i == listing.id
  <1>0. i \in DOMAIN items /\ listing.row.state = "pending" /\ listing.row \in Item /\ listing.row # None
    BY RowAssumption DEF ShapeInv, ListingShaped, TypeOK, Listing
  <1>1. CASE UNCHANGED items
    BY <1>1
  <1>2. ASSUME NEW j \in DOMAIN items, NEW row \in Item \cup {None}, items' = [items EXCEPT ![j] = row],
               row # None => row.state # "pending" \/ row.manual
        PROVE  items[i] = listing.row
    <2>1. items'[i] = IF i = j THEN row ELSE items[i]
      BY <1>0, <1>2, PutRow DEF ShapeInv
    <2> QED  BY <1>0, <1>2, <2>1
  <1>3. ASSUME NEW row \in Item, items' = Append(items, row), Len(items) < MaxItems PROVE items[i] = listing.row
    BY <1>0, <1>3, AddRow DEF ShapeInv
  <1>4. ASSUME call # None, call.row # None, Discarded PROVE items[i] = listing.row
    <2>1. call.id \in DOMAIN items /\ call.row \in Item
      BY <1>4, RowFacts
    <2> DEFINE row == [call.row EXCEPT !.state = "discarded"]
    <2>2. row \in Item /\ row.state = "discarded" /\ items' = [items EXCEPT ![call.id] = row]
      BY <1>4, <2>1 DEF Item, Discarded, Put
    <2> HIDE DEF row
    <2> QED  BY <1>2, <2>1, <2>2
  <1>5. CASE Calls
    <2>1. ASSUME NEW k \in Keys, Propagate(k) PROVE items[i] = listing.row
      <3> DEFINE row == [Row(k, index[k], "delete") EXCEPT !.manual = TRUE]
      <3>1. index[k] \in Contents
        BY <2>1 DEF Propagate, ShapeInv, TypeOK, Bytes
      <3>2. row \in Item
        BY <3>1, RowMade DEF Row
      <3>3. items' = Append(items, row) /\ Len(items) < MaxItems
        BY <2>1 DEF Propagate
      <3> HIDE DEF row
      <3> QED  BY <1>3, <3>2, <3>3
    <2>2. CASE TrashFolder
      <3>1. Row(Dir, Absent, "delete") \in Item
        BY RowMade
      <3> QED  BY <1>3, <2>2, <3>1 DEF TrashFolder
    <2>3. ASSUME NEW j \in DOMAIN items, Again(j) \/ Discard(j) PROVE items[i] = listing.row
      <3>1. items[j] \in Item
        BY <2>3, RowIds DEF Again, Discard, ShapeInv
      <3>2. UNCHANGED items \/ \E st \in {"active", "discarding"} : items' = [items EXCEPT ![j] = [items[j] EXCEPT !.state = st]]
        BY <2>3 DEF Again, Discard
      <3>3. \A st \in {"active", "discarding"} : [items[j] EXCEPT !.state = st] \in Item /\ [items[j] EXCEPT !.state = st].state = st
        BY <3>1 DEF Item
      <3> QED  BY <1>1, <1>2, <3>2, <3>3
    <2> QED  BY <1>1, <1>5, <2>1, <2>2, <2>3 DEF Calls, Remove, Write, Restore
  <1>6. CASE Step
    <2>1. CASE Retain \/ Capture \/ Bare \/ Place \/ Index \/ Move \/ Replace \/ Blob \/ Unpin \/ Blobs
      BY <1>1, <2>1 DEF Retain, Capture, Bare, Place, Index, Move, Replace, Blob, Rewrite, Unpin, Blobs
    <2>2. CASE RecordRetained
      <3>1. call # None /\ call.at = "record" /\ call.key \in Keys /\ call.found \in Contents
        BY <2>2, CallFacts DEF RecordRetained, At, KeySteps, ShapeInv, CallShaped
      <3>2. CASE call.kind # "propagate"
        <4> DEFINE row == Row(call.key, call.found, IF call.kind = "remove" THEN "delete" ELSE "overwrite")
        <4>1. row \in Item /\ Len(items) < MaxItems
          BY <3>1, <3>2, RowMade DEF ShapeInv, CallShaped
        <4>2. items' = Append(items, row)
          BY <2>2, <3>2 DEF RecordRetained
        <4> HIDE DEF row
        <4> QED  BY <1>3, <4>1, <4>2
      <3>3. CASE call.kind = "propagate"
        BY <1>1, <2>2, <3>3 DEF RecordRetained
      <3> QED  BY <3>2, <3>3
    <2>3. CASE Mark
      <3> DEFINE row == [call.row EXCEPT !.captured = TRUE]
      <3>1. call # None /\ call.row # None /\ call.at = "mark" /\ call.row \in Item /\ call.id \in DOMAIN items
        BY <2>3, CallFacts DEF Mark, At, RowSteps
      <3>2. row \in Item /\ row.manual = call.row.manual /\ items' = [items EXCEPT ![call.id] = row]
        BY <2>3, <3>1 DEF Item, Mark, Put
      <3> HIDE DEF row
      <3>3. items'[i] = IF i = call.id THEN row ELSE items[i]
        BY <1>0, <3>1, <3>2, PutRow DEF ShapeInv
      <3>4. i # call.id
        BY <3>1, <3>2, <3>3 DEF FreshInv
      <3> QED  BY <3>3, <3>4
    <2>4. CASE Finish \/ Pin \/ Look \/ Settle
      <3>1. call # None /\ call.row # None /\ call.row \in Item /\ call.id \in DOMAIN items /\ (call.at = "pin" => call.row.manual)
        BY <2>4, CallFacts DEF Finish, Pin, Look, Settle, At, RowSteps, CallTrue
      <3>2. \A st \in {"active", "restored"} : [call.row EXCEPT !.state = st] \in Item /\ [call.row EXCEPT !.state = st].state = st
        BY <3>1 DEF Item
      <3>3. [call.row EXCEPT !.ready = TRUE] \in Item /\ [call.row EXCEPT !.ready = TRUE].manual = call.row.manual
        BY <3>1 DEF Item
      <3>4. \/ UNCHANGED items
            \/ \E st \in {"active", "restored"} : items' = [items EXCEPT ![call.id] = [call.row EXCEPT !.state = st]]
            \/ call.at = "pin" /\ items' = [items EXCEPT ![call.id] = [call.row EXCEPT !.ready = TRUE]]
        BY <2>4 DEF Finish, Pin, Look, Settle, Put, At
      <3> QED  BY <1>1, <1>2, <3>1, <3>2, <3>3, <3>4
    <2>5. CASE Purge \/ Dereference \/ Forget
      <3>1. call # None /\ call.row # None
        BY <2>5, CallFacts DEF Purge, Dereference, Forget, At, RowSteps, PurgeSteps
      <3>2. UNCHANGED items \/ Discarded
        BY <2>5 DEF Purge, Dereference, Forget
      <3> QED  BY <1>1, <1>4, <3>1, <3>2
    <2> QED  BY <1>6, <2>1, <2>2, <2>3, <2>4, <2>5 DEF Step
  <1>7. CASE Sweeping
    <2>1. CASE SweepRow
      <3>1. sweep.dropped \in DOMAIN items /\ items' = [items EXCEPT ![sweep.dropped] = None]
        BY <2>1 DEF SweepRow, ShapeInv, SweepShaped
      <3> QED  BY <1>2, <3>1
    <2> QED  BY <1>1, <1>7, <2>1 DEF Sweeping, StartSweep, SweepTrashed, SweepDigest, SweepRecord, EndSweep
  <1>8. ~ListFinish /\ ~Age
    BY DEF ListFinish, Age
  <1>9. CASE ListLook \/ (Environment /\ ~Age) \/ UNCHANGED vars
    BY <1>1, <1>9 DEF ListLook, Environment, Watch, Foreign, List, Crash, PurgeFails, vars
  <1> QED  BY <1>5, <1>6, <1>7, <1>8, <1>9 DEF Next

LEMMA ListingStep == ShapeInv /\ RowInv /\ CallTrue /\ FreshInv /\ RestoreInv /\ [Next]_vars => ListingTrue'
  <1> SUFFICES ASSUME ShapeInv, RowInv, CallTrue, FreshInv, RestoreInv, [Next]_vars,
                      listing' # None, listing'.found, items'[listing'.id] = listing'.row,
                      listing'.row.captured, ~listing'.row.manual, ~listing'.row.old
               PROVE  There(listing.id)'
    BY DEF ListingTrue
  <1>1. CASE UNCHANGED listing
    <2> DEFINE i == listing.id
    <2>1. items[i] = listing.row
      BY <1>1, RowNotRewritten
    <2>2. i \in DOMAIN items /\ listing.row \in Item /\ listing.row # None /\ listing.row.state = "pending"
      BY <1>1, RowAssumption DEF ShapeInv, ListingShaped, TypeOK, Listing
    <2>3. There(i)
      BY <1>1, <2>1 DEF RestoreInv, ListingTrue
    <2>4. call # None /\ call.id = i => call.at \notin {"unpin", "purge"}
      <3>1. call.row # None /\ call.id = i /\ call # None => Same(call.row, listing.row)
        BY <1>1 DEF RowInv, CopiesTrue
      <3>2. call # None /\ call.at \in {"unpin", "purge"} => call.row # None
        BY CallFacts DEF RowSteps, PurgeSteps
      <3>3. call # None /\ call.id = i => call.at # "unpin"
        BY <1>1, <3>1, <3>2 DEF CallTrue, Same
      <3>4. call # None /\ call.id = i => call.at # "purge"
        BY <2>1, <2>2 DEF FreshInv, PurgeSteps
      <3> QED  BY <3>3, <3>4
    <2> QED  BY <1>1, <2>1, <2>2, <2>3, <2>4, ThereKept
  <1>2. CASE ListLook
    <2>1. listing # None /\ listing \in Listing /\ UNCHANGED <<trashed, spent>> /\ TookPlace(listing.id, listing.row)
          /\ listing' = [listing EXCEPT !.found = TRUE]
      BY <1>2 DEF ListLook, ShapeInv, TypeOK
    <2>2. listing'.id = listing.id /\ listing'.row = listing.row
      BY <2>1 DEF Listing
    <2> QED  BY <2>1, <2>2 DEF TookPlace, There, Captured
  <1>3. ASSUME NEW i \in DOMAIN items, List(i) PROVE FALSE
    BY <1>3 DEF List
  <1>4. ~ListFinish /\ ~Crash
    BY DEF ListFinish, Crash
  <1>5. CASE Calls
    BY <1>1, <1>5 DEF Calls, Remove, Propagate, Write, TrashFolder, Again, Restore, Discard
  <1>6. CASE Step
    BY <1>1, <1>6 DEF Step, Retain, RecordRetained, Mark, Capture, Finish, Bare, Place, Index, Pin, Look, Move, Replace,
                      Blob, Rewrite, Settle, Unpin, Purge, Dereference, Blobs, Forget
  <1>7. CASE Sweeping
    BY <1>1, <1>7 DEF Sweeping, StartSweep, SweepTrashed, SweepRow, SweepDigest, SweepRecord, EndSweep
  <1>8. CASE UNCHANGED vars \/ Age \/ PurgeFails \/ \E k \in Keys : Watch(k) \/ \E b \in Bytes : Foreign(k, b)
    BY <1>1, <1>8 DEF vars, memory, Age, PurgeFails, Watch, Foreign
  <1> QED  BY <1>2, <1>3, <1>4, <1>5, <1>6, <1>7, <1>8 DEF Next, Environment

\* A row that is written as it should be leaves the others as they are.
LEMMA PutTrue ==
  ASSUME ShapeInv, RestoreInv, spent.stale \subseteq spent'.stale, spent.back \subseteq spent'.back,
         NEW i \in DOMAIN items, NEW row \in Item \cup {None}, items' = [items EXCEPT ![i] = row],
         \A j \in DOMAIN items : j # i => pins'[j] = pins[j] /\ trashed'[j] = trashed[j],
         row # None /\ i \notin spent'.stale =>
           /\ row.manual /\ row.state \in {"pending", "active"} =>
                /\ row.ready => pins'[i] = row.content
                /\ row.state = "active" => row.ready
           /\ row.state = "active" /\ row.captured /\ ~row.manual /\ ~row.old => There(i)'
  PROVE  RowsTrue'
  <1>1. DOMAIN items' = DOMAIN items /\ \A j \in DOMAIN items : items'[j] = IF j = i THEN row ELSE items[j]
    BY PutRow DEF ShapeInv
  <1>2. ASSUME NEW j \in DOMAIN items' \ spent'.stale PROVE PinTrue(j)' /\ CaptureTrue(j)'
    <2>1. j \in DOMAIN items \ spent.stale
      BY <1>1
    <2>2. CASE j = i
      <3>1. items'[j] = row /\ j = i /\ i \notin spent'.stale
        BY <1>1, <2>1, <2>2
      <3>2. PinTrue(j)'
        BY <3>1 DEF PinTrue
      <3>3. CaptureTrue(j)'
        BY <3>1 DEF CaptureTrue
      <3> QED  BY <3>2, <3>3
    <2>3. CASE j # i
      <3>1. items'[j] = items[j] /\ pins'[j] = pins[j] /\ trashed'[j] = trashed[j] /\ PinTrue(j) /\ CaptureTrue(j)
        BY <1>1, <2>1, <2>3 DEF RestoreInv, RowsTrue
      <3>2. There(j) => There(j)'
        BY <3>1 DEF There, Captured
      <3>3. PinTrue(j)'
        BY <3>1 DEF PinTrue
      <3>4. CaptureTrue(j)'
        BY <3>1, <3>2 DEF CaptureTrue
      <3> QED  BY <3>3, <3>4
    <2> QED  BY <2>2, <2>3
  <1> QED  BY <1>2 DEF RowsTrue

LEMMA AddTrue ==
  ASSUME ShapeInv, RestoreInv, spent.stale \subseteq spent'.stale, spent.back \subseteq spent'.back,
         UNCHANGED <<trashed, pins>>, NEW row \in Item, items' = Append(items, row), Len(items) < MaxItems,
         row.state = "pending", ~row.ready
  PROVE  RowsTrue'
  <1>1. DOMAIN items' = DOMAIN items \cup {Len(items) + 1} /\ items'[Len(items) + 1] = row
        /\ \A j \in DOMAIN items : items'[j] = items[j]
    BY AddRow DEF ShapeInv
  <1>2. ASSUME NEW j \in DOMAIN items' \ spent'.stale PROVE PinTrue(j)' /\ CaptureTrue(j)'
    <2>1. CASE j \in DOMAIN items
      <3>1. items'[j] = items[j] /\ PinTrue(j) /\ CaptureTrue(j)
        BY <1>1, <2>1 DEF RestoreInv, RowsTrue
      <3>2. There(j) => There(j)'
        BY DEF There, Captured
      <3>3. PinTrue(j)'
        BY <3>1 DEF PinTrue
      <3>4. CaptureTrue(j)'
        BY <3>1, <3>2 DEF CaptureTrue
      <3> QED  BY <3>3, <3>4
    <2>2. CASE j = Len(items) + 1
      BY <1>1, <2>2 DEF PinTrue, CaptureTrue
    <2> QED  BY <1>1, <2>1, <2>2
  <1> QED  BY <1>2 DEF RowsTrue

LEMMA SameTrue ==
  ASSUME ShapeInv, RowInv, CallTrue, RestoreInv, [Next]_vars, UNCHANGED items
  PROVE  RowsTrue'
  <1>1. spent.stale \subseteq spent'.stale
    BY StaleGrows
  <1>2. ASSUME NEW i \in DOMAIN items' \ spent'.stale PROVE PinTrue(i)' /\ CaptureTrue(i)'
    <2>1. i \in DOMAIN items /\ i \notin spent.stale /\ PinTrue(i) /\ CaptureTrue(i) /\ items'[i] = items[i]
      BY <1>1, <1>2 DEF RestoreInv, RowsTrue
    <2>2. call # None /\ call.id = i /\ call.at \in {"unpin", "purge"} =>
            items[i] = None \/ items[i].state \notin {"pending", "active"}
      BY <2>1, CallFacts DEF RowInv, StageTrue, RowSteps, PurgeSteps
    <2>3. call # None /\ call.id = i /\ call.at = "pin" => items[i] = None \/ ~items[i].ready
      BY <2>1, CallFacts, RowFacts DEF CallTrue, RowSteps
    <2>4. PinTrue(i)'
      <3>1. CASE pins'[i] = pins[i]
        BY <2>1, <3>1 DEF PinTrue
      <3>2. CASE call # None /\ call.id = i /\ call.at \in {"pin", "unpin", "purge"}
        BY <2>1, <2>2, <2>3, <3>2 DEF PinTrue
      <3> QED  BY <2>1, <3>1, <3>2, PinsKept
    <2>5. CaptureTrue(i)'
      BY <2>1, <2>2, ThereKept DEF CaptureTrue
    <2> QED  BY <2>4, <2>5
  <1> QED  BY <1>2 DEF RowsTrue

\* The steps of a call that write its row.
LEMMA WrittenTrue ==
  ASSUME ShapeInv, RowInv, CallTrue, RestoreInv, [Next]_vars,
         Mark \/ Finish \/ Pin \/ Look \/ Settle \/ Purge \/ Dereference \/ Forget
  PROVE  RowsTrue'
  <1>0. call # None /\ call.row # None /\ call.id \in DOMAIN items
    BY CallFacts DEF Mark, Finish, Pin, Look, Settle, Purge, Dereference, Forget, At, RowSteps, PurgeSteps
  <1> PICK i \in DOMAIN items : i = call.id
    BY <1>0
  <1>1. /\ call # None /\ call.row # None /\ call.row \in Item /\ i = call.id
        /\ items[i] \in Item \cup {None} /\ Copy(call.row, i)
        /\ items[i] # None /\ i \notin spent.stale => items[i].captured = call.row.captured /\ items[i].ready = call.row.ready
    BY <1>0, CallFacts, RowFacts
  <1>2. spent.stale \subseteq spent'.stale /\ spent.back \subseteq spent'.back
    BY StaleGrows, BackGrows
  <1>3. UNCHANGED items => RowsTrue'
    BY SameTrue
  <1>4. /\ \A st \in {"active", "restored", "discarded"} :
             LET row == [call.row EXCEPT !.state = st] IN
             /\ row \in Item /\ row.state = st /\ row.manual = call.row.manual /\ row.ready = call.row.ready
             /\ row.captured = call.row.captured /\ row.content = call.row.content /\ row.old = call.row.old
        /\ LET row == [call.row EXCEPT !.captured = TRUE] IN
             row \in Item /\ row.state = call.row.state /\ row.ready = call.row.ready /\ row.manual = call.row.manual
             /\ row.content = call.row.content
        /\ LET row == [call.row EXCEPT !.ready = TRUE] IN
             row \in Item /\ row.state = call.row.state /\ row.ready /\ row.manual = call.row.manual
             /\ row.content = call.row.content
    BY <1>1 DEF Item
  \* The pin of a row that a call still works on.
  <1>5. i \notin spent.stale /\ call.at \notin PurgeSteps \cup {"unpin"} /\ call.row.manual /\ call.row.ready =>
          pins[i] = call.row.content
    <2>1. call.row.manual => items[i] # None
      BY <1>1 DEF Copy
    <2>2. i \notin spent.stale => PinTrue(i)
      BY <1>1 DEF RestoreInv, RowsTrue
    <2> QED  BY <1>1, <2>1, <2>2 DEF PinTrue, RowInv, StageTrue, Copy, Same
  <1>6. CASE Mark
    <2> DEFINE row == [call.row EXCEPT !.captured = TRUE]
    <2>1. call.at = "mark" /\ items' = [items EXCEPT ![i] = row] /\ UNCHANGED <<pins, trashed, spent>>
      BY <1>1, <1>6 DEF Mark, At, Put
    <2>2. call.row.state = "pending"
      BY <1>1, <2>1 DEF CallTrue, TakeSteps
    <2>3. row \in Item /\ row.state = "pending" /\ row.ready = call.row.ready /\ row.manual = call.row.manual
          /\ row.content = call.row.content
      BY <1>4, <2>2
    <2> HIDE DEF row
    <2> QED  BY <1>1, <1>2, <1>5, <2>1, <2>3, PutTrue DEF PurgeSteps
  <1>7. CASE Finish \/ Look
    <2> DEFINE row == [call.row EXCEPT !.state = "active"]
    <2>1. call.at \in {"finish", "look"} /\ UNCHANGED <<pins, trashed, spent>>
      BY <1>7 DEF Finish, Look, At
    <2>2. UNCHANGED items \/ items' = [items EXCEPT ![i] = row]
      BY <1>1, <1>7 DEF Finish, Look, Put
    <2>3. CASE ~UNCHANGED items
      <3>1. items' = [items EXCEPT ![i] = row]
        BY <2>2, <2>3
      <3>2. /\ row \in Item /\ row.state = "active" /\ row.manual = call.row.manual /\ row.ready = call.row.ready
            /\ row.captured = call.row.captured /\ row.content = call.row.content /\ row.old = call.row.old
        BY <1>4
      <3>3. call.row.manual => call.row.ready
        <4>1. Look => call.row.state = "pending"
          BY <2>3 DEF Look
        <4> QED  BY <1>1, <1>7, <2>1, <4>1 DEF CallTrue, TakeSteps, Finish, At
      <3>4. call.row.captured /\ ~call.row.old => There(i)'
        <4>1. Look /\ call.row.captured => Captured(i)
          BY <1>1, <2>3 DEF Look, TookPlace
        <4>2. Finish /\ ~call.row.old => There(i)
          BY <1>1 DEF RestoreInv, FinishTrue, Finish, At
        <4>3. There(i) => There(i)'
          BY <2>1 DEF There, Captured
        <4> QED  BY <1>7, <4>1, <4>2, <4>3 DEF There
      <3> HIDE DEF row
      <3> QED  BY <1>1, <1>2, <1>5, <2>1, <3>1, <3>2, <3>3, <3>4, PutTrue DEF PurgeSteps
    <2> QED  BY <1>3, <2>3
  <1>8. CASE Pin
    <2> DEFINE row == [call.row EXCEPT !.ready = TRUE]
    <2>1. call.at = "pin" /\ UNCHANGED <<trashed, spent>> /\ call.row.content = call.found
      BY <1>1, <1>8 DEF Pin, At, CallTrue
    <2>2. UNCHANGED items \/ (items' = [items EXCEPT ![i] = row] /\ pins' = [pins EXCEPT ![i] = call.found])
      BY <1>1, <1>8 DEF Pin, Put
    <2>3. CASE ~UNCHANGED items
      <3>1. items' = [items EXCEPT ![i] = row] /\ pins' = [pins EXCEPT ![i] = call.found]
        BY <2>2, <2>3
      <3>2. row \in Item /\ row.state = "pending" /\ row.ready /\ row.content = call.found
        BY <1>1, <1>4, <2>1 DEF CallTrue
      <3>3. pins'[i] = call.found /\ \A j \in DOMAIN items : j # i => pins'[j] = pins[j]
        <4>1. DOMAIN items \subseteq Ids /\ pins \in [Ids -> Bytes]
          BY RowIds DEF ShapeInv, TypeOK
        <4> QED  BY <1>1, <3>1, <4>1
      <3> HIDE DEF row
      <3> QED  BY <1>1, <1>2, <2>1, <3>1, <3>2, <3>3, PutTrue
    <2> QED  BY <1>3, <2>3
  <1>9. CASE Settle
    <2> DEFINE row == [call.row EXCEPT !.state = "restored"]
    <2>1. items' = [items EXCEPT ![i] = row] /\ UNCHANGED <<pins, trashed>>
      BY <1>1, <1>9 DEF Settle, Put
    <2>2. row \in Item /\ row.state = "restored"
      BY <1>4
    <2> HIDE DEF row
    <2> QED  BY <1>1, <1>2, <2>1, <2>2, PutTrue
  <1>10. CASE Purge \/ Dereference \/ Forget
    <2> DEFINE row == [call.row EXCEPT !.state = "discarded"]
    <2>1. UNCHANGED items \/ items' = [items EXCEPT ![i] = row]
      BY <1>1, <1>10 DEF Purge, Dereference, Forget, Discarded, Put
    <2>2. row \in Item /\ row.state = "discarded"
      BY <1>4
    <2>3. \A j \in DOMAIN items : j # i => pins'[j] = pins[j] /\ trashed'[j] = trashed[j]
      <3>1. DOMAIN items \subseteq Ids /\ pins \in [Ids -> Bytes] /\ trashed \in [Ids -> [Keys -> Bytes]]
        BY RowIds DEF ShapeInv, TypeOK
      <3>2. UNCHANGED pins \/ pins' = [pins EXCEPT ![i] = Absent]
        BY <1>1, <1>10 DEF Purge, Dereference, Forget
      <3>3. UNCHANGED trashed \/ trashed' = [trashed EXCEPT ![i] = Nothing]
        BY <1>1, <1>10 DEF Purge, Dereference, Forget
      <3> QED  BY <3>1, <3>2, <3>3
    <2> HIDE DEF row
    <2> QED  BY <1>1, <1>2, <1>3, <2>1, <2>2, <2>3, PutTrue
  <1> QED  BY <1>6, <1>7, <1>8, <1>9, <1>10

LEMMA RowsStep == ShapeInv /\ RowInv /\ CallTrue /\ FreshInv /\ RestoreInv /\ [Next]_vars => RowsTrue'
  <1> SUFFICES ASSUME ShapeInv, RowInv, CallTrue, FreshInv, RestoreInv, [Next]_vars PROVE RowsTrue'
    OBVIOUS
  <1>1. UNCHANGED items => RowsTrue'
    BY SameTrue
  <1>2. spent.stale \subseteq spent'.stale /\ spent.back \subseteq spent'.back
    BY StaleGrows, BackGrows
  <1>3. CASE Calls
    <2>1. ASSUME NEW k \in Keys, Propagate(k) PROVE RowsTrue'
      <3> DEFINE row == [Row(k, index[k], "delete") EXCEPT !.manual = TRUE]
      <3>1. index[k] \in Contents
        BY <2>1 DEF Propagate, ShapeInv, TypeOK, Bytes
      <3>2. row \in Item /\ row.state = "pending" /\ ~row.ready
        BY <3>1, RowMade DEF Row
      <3>3. items' = Append(items, row) /\ Len(items) < MaxItems /\ UNCHANGED <<pins, trashed>>
        BY <2>1 DEF Propagate
      <3> HIDE DEF row
      <3> QED  BY <1>2, <3>2, <3>3, AddTrue
    <2>2. CASE TrashFolder
      <3> DEFINE row == Row(Dir, Absent, "delete")
      <3>1. row \in Item /\ row.state = "pending" /\ ~row.ready
        BY RowMade DEF Row
      <3>2. items' = Append(items, row) /\ Len(items) < MaxItems /\ UNCHANGED <<pins, trashed>>
        BY <2>2 DEF TrashFolder
      <3> HIDE DEF row
      <3> QED  BY <1>2, <3>1, <3>2, AddTrue
    <2>3. ASSUME NEW i \in DOMAIN items, Again(i) PROVE RowsTrue'
      <3> DEFINE row == [items[i] EXCEPT !.state = "active"]
      <3>1. items[i] \in Item /\ items[i] # None /\ items[i].state = "pending" /\ items[i].manual
            /\ UNCHANGED <<pins, trashed>>
        BY <2>3, RowIds DEF Again, ShapeInv
      <3>2. UNCHANGED items \/ (items[i].ready /\ items' = [items EXCEPT ![i] = row])
        BY <2>3 DEF Again
      <3>3. row \in Item /\ row.state = "active" /\ row.manual /\ row.ready = items[i].ready /\ row.content = items[i].content
        BY <3>1 DEF Item
      <3>4. i \notin spent'.stale => PinTrue(i)
        BY <1>2 DEF RestoreInv, RowsTrue
      <3> HIDE DEF row
      <3> QED  BY <1>1, <1>2, <3>1, <3>2, <3>3, <3>4, PutTrue DEF PinTrue
    <2>4. ASSUME NEW i \in DOMAIN items, Discard(i) PROVE RowsTrue'
      <3> DEFINE row == [items[i] EXCEPT !.state = "discarding"]
      <3>1. items[i] \in Item /\ UNCHANGED <<pins, trashed>>
        BY <2>4, RowIds DEF Discard, ShapeInv
      <3>2. row \in Item /\ row.state = "discarding" /\ items' = [items EXCEPT ![i] = row]
        BY <2>4, <3>1 DEF Discard, Item
      <3> HIDE DEF row
      <3> QED  BY <1>2, <3>1, <3>2, PutTrue
    <2> QED  BY <1>1, <1>3, <2>1, <2>2, <2>3, <2>4 DEF Calls, Remove, Write, Restore
  <1>4. CASE Step
    <2>1. CASE RecordRetained
      <3>1. call # None /\ call.at = "record" /\ call.key \in Keys /\ call.found \in Contents /\ UNCHANGED <<pins, trashed>>
        BY <2>1, CallFacts DEF RecordRetained, At, KeySteps, ShapeInv, CallShaped
      <3>2. CASE call.kind # "propagate"
        <4> DEFINE row == Row(call.key, call.found, IF call.kind = "remove" THEN "delete" ELSE "overwrite")
        <4>1. row \in Item /\ row.state = "pending" /\ ~row.ready /\ Len(items) < MaxItems
          BY <3>1, <3>2, RowMade DEF ShapeInv, CallShaped, Row
        <4>2. items' = Append(items, row)
          BY <2>1, <3>2 DEF RecordRetained
        <4> HIDE DEF row
        <4> QED  BY <1>2, <3>1, <4>1, <4>2, AddTrue
      <3>3. CASE call.kind = "propagate"
        BY <1>1, <2>1, <3>3 DEF RecordRetained
      <3> QED  BY <3>2, <3>3
    <2>2. CASE Retain \/ Capture \/ Bare \/ Place \/ Index \/ Move \/ Replace \/ Blob \/ Unpin \/ Blobs
      BY <1>1, <2>2 DEF Retain, Capture, Bare, Place, Index, Move, Replace, Blob, Rewrite, Unpin, Blobs
    <2> QED  BY <1>4, <2>1, <2>2, WrittenTrue DEF Step
  <1>5. CASE Sweeping
    <2>1. CASE SweepRow
      <3>1. sweep.dropped \in DOMAIN items /\ items' = [items EXCEPT ![sweep.dropped] = None] /\ UNCHANGED <<pins, trashed>>
        BY <2>1 DEF SweepRow, ShapeInv, SweepShaped
      <3> QED  BY <1>2, <3>1, PutTrue
    <2> QED  BY <1>1, <1>5, <2>1 DEF Sweeping, StartSweep, SweepTrashed, SweepDigest, SweepRecord, EndSweep
  <1>6. CASE ListFinish
    <2> DEFINE row == [listing.row EXCEPT !.state = "active"]
    <2> PICK i \in DOMAIN items : i = listing.id
      BY <1>6 DEF ListFinish, ShapeInv, ListingShaped
    <2>1. /\ listing.row \in Item /\ listing.row.state = "pending" /\ listing # None
          /\ (listing.row.manual => listing.row.ready) /\ listing.found
          /\ items' = [items EXCEPT ![i] = row] /\ UNCHANGED <<pins, trashed>>
          /\ spent' = IF items[i] = listing.row THEN spent ELSE [spent EXCEPT !.stale = @ \cup {i}]
      BY <1>6 DEF ListFinish, ShapeInv, ListingShaped, TypeOK, Listing
    <2>2. items[i] = listing.row \/ i \in spent'.stale
      BY <2>1 DEF ShapeInv, SpentType
    <2>3. /\ row \in Item /\ row.state = "active" /\ row.manual = listing.row.manual /\ row.ready = listing.row.ready
          /\ row.captured = listing.row.captured /\ row.old = listing.row.old /\ row.content = listing.row.content
      BY <2>1 DEF Item
    <2>4. i \notin spent'.stale => PinTrue(i) /\ items[i] = listing.row
      BY <1>2, <2>1, <2>2 DEF RestoreInv, RowsTrue
    <2>5. i \notin spent'.stale /\ row.captured /\ ~row.manual /\ ~row.old => There(i)
      BY <2>1, <2>2, <2>3 DEF RestoreInv, ListingTrue
    <2>6. There(i) => There(i)'
      BY <1>2, <2>1 DEF There, Captured
    <2>7. i \notin spent'.stale /\ row.manual => row.ready /\ pins'[i] = row.content
      BY <2>1, <2>3, <2>4, RowAssumption DEF PinTrue
    <2> HIDE DEF row
    <2> QED  BY <1>2, <2>1, <2>3, <2>5, <2>6, <2>7, PutTrue
  <1>7. CASE Age
    <2>1. /\ DOMAIN items' = DOMAIN items /\ UNCHANGED <<pins, trashed>>
          /\ \A i \in DOMAIN items : items'[i] = IF items[i] = None THEN None ELSE [items[i] EXCEPT !.old = TRUE]
      BY <1>7, AgedRows DEF Age
    <2>2. \A i \in DOMAIN items : items[i] # None =>
            /\ items'[i].old /\ items'[i].state = items[i].state /\ items'[i].manual = items[i].manual
            /\ items'[i].ready = items[i].ready /\ items'[i].content = items[i].content
      BY <2>1, RowIds DEF Item, ShapeInv
    <2>3. ASSUME NEW i \in DOMAIN items' \ spent'.stale PROVE PinTrue(i)' /\ CaptureTrue(i)'
      <3>1. i \in DOMAIN items /\ PinTrue(i)
        BY <1>2, <2>1 DEF RestoreInv, RowsTrue
      <3> QED  BY <2>1, <2>2, <3>1 DEF PinTrue, CaptureTrue
    <2> QED  BY <2>3 DEF RowsTrue
  <1>8. CASE ListLook \/ (Environment /\ ~Age) \/ UNCHANGED vars
    BY <1>1, <1>8 DEF ListLook, Environment, Watch, Foreign, List, Crash, PurgeFails, vars
  <1> QED  BY <1>3, <1>4, <1>5, <1>6, <1>7, <1>8 DEF Next

THEOREM RestoreCorrect == Spec => []RestoreInv
  <1>1. Init => RestoreInv
    BY EmptySeq, LenProperties DEF Init, RestoreInv, RowsTrue, FinishTrue, ListingTrue
  <1>2. ShapeInv /\ RowInv /\ CallTrue /\ FreshInv /\ RestoreInv /\ [Next]_vars => RestoreInv'
    BY RowsStep, FinishStep, ListingStep DEF RestoreInv
  <1> QED  BY <1>1, <1>2, ShapeCorrect, RowsCorrect, CallsCorrect, FreshCorrect, PTL DEF Spec

\* Whatever the trash offers inside the window can be given back: its blob, its pin or
\* its captured file is where its restore looks, or back on the disk already.
THEOREM RestorableCorrect == Spec => []Restorable
  <1>1. ShapeInv /\ PoolInv /\ RestoreInv => Restorable
    <2> SUFFICES ASSUME ShapeInv, PoolInv, RestoreInv, NEW i \in DOMAIN items \ spent.stale,
                        Offered(items[i]), items[i].state = "active"
                 PROVE  Available(i)
      BY DEF Restorable
    <2>1. PinTrue(i) /\ CaptureTrue(i) /\ items[i] # None /\ items[i] \in Item
      BY RowIds DEF RestoreInv, RowsTrue, Offered, ShapeInv
    <2>2. CASE items[i].manual
      BY <2>1, <2>2 DEF PinTrue, Available
    <2>3. CASE ~items[i].manual /\ items[i].captured
      BY <2>1, <2>3 DEF CaptureTrue, There, Available, Offered
    <2>4. CASE ~items[i].manual /\ ~items[i].captured
      <3>1. items[i].content \in Contents
        BY <2>1, <2>4 DEF ShapeInv, RowsShaped, Shaped, Item
      <3>2. Needs(i, items[i].content)
        BY <2>1, <2>4 DEF Needs, Offered
      <3> QED  BY <2>4, <3>1, <3>2 DEF PoolInv, NeedsBacked, Available
    <2> QED  BY <2>2, <2>3, <2>4
  <1> QED  BY <1>1, ShapeCorrect, PoolCorrect, RestoreCorrect, PTL

-----------------------------------------------------------------------------
(***************************************************************************)
(* The bytes taken off the disk                                             *)
(***************************************************************************)
Ending == Settle \/ Purge \/ Dereference \/ Forget

\* A row goes only when the sweep drops it; what it holds stays its own, and only the
\* call of the row ends it.
RowKept(i) ==
  /\ i \in DOMAIN items'
  /\ \/ SweepRow /\ i = sweep.dropped
     \/ /\ items'[i] # None /\ items'[i].content = items[i].content /\ items'[i].manual = items[i].manual
        /\ items[i].captured /\ i \notin spent'.stale => items'[i].captured
        /\ items'[i].captured /\ i \notin spent'.stale => items[i].captured \/ (Mark /\ call # None /\ call.id = i)
        /\ Ended(items'[i]) => Ended(items[i]) \/ (Ending /\ call # None /\ call.id = i)

LEMMA RowsKept == ShapeInv /\ RowInv /\ [Next]_vars => \A i \in DOMAIN items : items[i] # None => RowKept(i)
  <1> SUFFICES ASSUME ShapeInv, RowInv, [Next]_vars, NEW i \in DOMAIN items, items[i] # None PROVE RowKept(i)
    OBVIOUS
  <1>0. items[i] \in Item /\ spent.stale \subseteq spent'.stale
    BY RowIds, StaleGrows DEF ShapeInv
  <1>1. CASE UNCHANGED items
    BY <1>1 DEF RowKept
  <1>2. ASSUME NEW j \in DOMAIN items, NEW row \in Item, items' = [items EXCEPT ![j] = row],
               j = i => /\ row.content = items[i].content /\ row.manual = items[i].manual
                        /\ items[i].captured /\ i \notin spent'.stale => row.captured
                        /\ row.captured /\ i \notin spent'.stale => items[i].captured \/ (Mark /\ call # None /\ call.id = i)
                        /\ Ended(row) => Ended(items[i]) \/ (Ending /\ call # None /\ call.id = i)
        PROVE  RowKept(i)
    <2>1. DOMAIN items' = DOMAIN items /\ items'[i] = IF i = j THEN row ELSE items[i]
      BY <1>2, PutRow DEF ShapeInv
    <2>2. CASE i = j
      <3>1. items'[i] = row /\ row # None
        BY <1>2, <2>1, <2>2, RowAssumption
      <3> QED  BY <1>2, <2>1, <2>2, <3>1 DEF RowKept
    <2>3. CASE i # j
      BY <2>1, <2>3 DEF RowKept
    <2> QED  BY <2>2, <2>3
  <1>3. ASSUME NEW row \in Item, items' = Append(items, row), Len(items) < MaxItems PROVE RowKept(i)
    <2>1. i \in DOMAIN items' /\ items'[i] = items[i]
      BY <1>3, AddRow DEF ShapeInv
    <2> QED  BY <2>1 DEF RowKept
  \* The call of the row writes it.
  <1>4. ASSUME call # None, call.row # None, NEW row \in Item, items' = [items EXCEPT ![call.id] = row],
               Same(row, call.row), call.row.captured => row.captured, row.captured => call.row.captured \/ Mark,
               Ended(row) => Ending
        PROVE  RowKept(i)
    <2>1. call.id \in DOMAIN items /\ (call.id = i => Same(items[i], call.row))
      BY <1>4, RowFacts DEF Copy
    <2>2. call.id = i /\ i \notin spent'.stale => items[i].captured = call.row.captured
      BY <1>0, <1>4, RowFacts
    <2> QED  BY <1>2, <1>4, <2>1, <2>2 DEF Same
  <1>5. CASE Calls
    <2>1. ASSUME NEW k \in Keys, Propagate(k) PROVE RowKept(i)
      <3> DEFINE row == [Row(k, index[k], "delete") EXCEPT !.manual = TRUE]
      <3>1. index[k] \in Contents
        BY <2>1 DEF Propagate, ShapeInv, TypeOK, Bytes
      <3>2. row \in Item
        BY <3>1, RowMade DEF Row
      <3>3. items' = Append(items, row) /\ Len(items) < MaxItems
        BY <2>1 DEF Propagate
      <3> HIDE DEF row
      <3> QED  BY <1>3, <3>2, <3>3
    <2>2. CASE TrashFolder
      <3>1. Row(Dir, Absent, "delete") \in Item
        BY RowMade
      <3> QED  BY <1>3, <2>2, <3>1 DEF TrashFolder
    <2>3. ASSUME NEW j \in DOMAIN items, Again(j) \/ Discard(j) PROVE RowKept(i)
      <3>1. items[j] \in Item
        BY <2>3, RowIds DEF Again, Discard, ShapeInv
      <3>2. UNCHANGED items \/ \E st \in {"active", "discarding"} : items' = [items EXCEPT ![j] = [items[j] EXCEPT !.state = st]]
        BY <2>3 DEF Again, Discard
      <3>3. \A st \in {"active", "discarding"} : LET row == [items[j] EXCEPT !.state = st] IN
              row \in Item /\ row.content = items[j].content /\ row.manual = items[j].manual
              /\ row.captured = items[j].captured /\ ~Ended(row)
        BY <3>1 DEF Item, Ended
      <3> QED  BY <1>1, <1>2, <3>2, <3>3
    <2> QED  BY <1>1, <1>5, <2>1, <2>2, <2>3 DEF Calls, Remove, Write, Restore
  <1>6. CASE Step
    <2>1. CASE Retain \/ Capture \/ Bare \/ Place \/ Index \/ Move \/ Replace \/ Blob \/ Unpin \/ Blobs
      BY <1>1, <2>1 DEF Retain, Capture, Bare, Place, Index, Move, Replace, Blob, Rewrite, Unpin, Blobs
    <2>2. CASE RecordRetained
      <3>1. call # None /\ call.at = "record" /\ call.key \in Keys /\ call.found \in Contents
        BY <2>2, CallFacts DEF RecordRetained, At, KeySteps, ShapeInv, CallShaped
      <3>2. CASE call.kind # "propagate"
        <4> DEFINE row == Row(call.key, call.found, IF call.kind = "remove" THEN "delete" ELSE "overwrite")
        <4>1. row \in Item /\ Len(items) < MaxItems
          BY <3>1, <3>2, RowMade DEF ShapeInv, CallShaped
        <4>2. items' = Append(items, row)
          BY <2>2, <3>2 DEF RecordRetained
        <4> HIDE DEF row
        <4> QED  BY <1>3, <4>1, <4>2
      <3>3. CASE call.kind = "propagate"
        BY <1>1, <2>2, <3>3 DEF RecordRetained
      <3> QED  BY <3>2, <3>3
    <2>3. CASE Mark \/ Finish \/ Pin \/ Look \/ Settle \/ Purge \/ Dereference \/ Forget
      <3>1. call # None /\ call.row # None /\ call.row \in Item
        BY <2>3, CallFacts DEF Mark, Finish, Pin, Look, Settle, Purge, Dereference, Forget, At, RowSteps, PurgeSteps
      <3>2. \A st \in {"active", "restored", "discarded"} : LET row == [call.row EXCEPT !.state = st] IN
              row \in Item /\ Same(row, call.row) /\ row.captured = call.row.captured /\ row.state = st
        BY <3>1 DEF Item, Same
      <3>3. LET row == [call.row EXCEPT !.captured = TRUE] IN
              row \in Item /\ Same(row, call.row) /\ row.captured /\ row.state = call.row.state
        BY <3>1 DEF Item, Same
      <3>4. LET row == [call.row EXCEPT !.ready = TRUE] IN
              row \in Item /\ Same(row, call.row) /\ row.captured = call.row.captured /\ row.state = call.row.state
        BY <3>1 DEF Item, Same
      <3>5. CASE Settle \/ Purge \/ Dereference \/ Forget
        <4>1. UNCHANGED items \/ \E st \in {"restored", "discarded"} : items' = [items EXCEPT ![call.id] = [call.row EXCEPT !.state = st]]
          BY <3>5 DEF Settle, Purge, Dereference, Forget, Discarded, Put
        <4> QED  BY <1>1, <1>4, <3>1, <3>2, <3>5, <4>1 DEF Ending
      <3>6. CASE Finish \/ Look
        <4>1. UNCHANGED items \/ items' = [items EXCEPT ![call.id] = [call.row EXCEPT !.state = "active"]]
          BY <3>6 DEF Finish, Look, Put
        <4>2. ~Ended([call.row EXCEPT !.state = "active"])
          BY <3>2 DEF Ended
        <4> QED  BY <1>1, <1>4, <3>1, <3>2, <4>1, <4>2
      <3>7. CASE Mark \/ Pin
        <4>1. call.row.state \in {"pending", "active"}
          BY <3>1, <3>7 DEF Mark, Pin, At, RowInv, StageTrue, PurgeSteps
        <4>2. \/ UNCHANGED items
              \/ Mark /\ items' = [items EXCEPT ![call.id] = [call.row EXCEPT !.captured = TRUE]]
              \/ items' = [items EXCEPT ![call.id] = [call.row EXCEPT !.ready = TRUE]]
          BY <3>7 DEF Mark, Pin, Put
        <4>3. CASE Mark /\ items' = [items EXCEPT ![call.id] = [call.row EXCEPT !.captured = TRUE]]
          <5> DEFINE row == [call.row EXCEPT !.captured = TRUE]
          <5>1. ~Ended(row)
            BY <3>3, <4>1 DEF Ended
          <5> HIDE DEF row
          <5> QED  BY <1>4, <3>1, <3>3, <4>3, <5>1 DEF row
        <4>4. CASE items' = [items EXCEPT ![call.id] = [call.row EXCEPT !.ready = TRUE]]
          <5> DEFINE row == [call.row EXCEPT !.ready = TRUE]
          <5>1. ~Ended(row)
            BY <3>4, <4>1 DEF Ended
          <5> HIDE DEF row
          <5> QED  BY <1>4, <3>1, <3>4, <4>4, <5>1 DEF row
        <4> QED  BY <1>1, <4>2, <4>3, <4>4
      <3> QED  BY <2>3, <3>5, <3>6, <3>7
    <2> QED  BY <1>6, <2>1, <2>2, <2>3 DEF Step
  <1>7. CASE Sweeping
    <2>1. CASE SweepRow
      <3>1. sweep.dropped \in DOMAIN items /\ items' = [items EXCEPT ![sweep.dropped] = None]
        BY <2>1 DEF SweepRow, ShapeInv, SweepShaped
      <3>2. DOMAIN items' = DOMAIN items /\ items'[i] = IF i = sweep.dropped THEN None ELSE items[i]
        BY <3>1, PutRow DEF ShapeInv
      <3> QED  BY <2>1, <3>2 DEF RowKept
    <2> QED  BY <1>1, <1>7, <2>1 DEF Sweeping, StartSweep, SweepTrashed, SweepDigest, SweepRecord, EndSweep
  <1>8. CASE ListFinish
    <2> DEFINE row == [listing.row EXCEPT !.state = "active"]
    <2>1. /\ listing.id \in DOMAIN items /\ listing.row \in Item /\ listing # None
          /\ items' = [items EXCEPT ![listing.id] = row]
          /\ spent' = IF items[listing.id] = listing.row THEN spent ELSE [spent EXCEPT !.stale = @ \cup {listing.id}]
      BY <1>8 DEF ListFinish, ShapeInv, ListingShaped, TypeOK, Listing
    <2>2. row \in Item /\ Same(row, listing.row) /\ row.captured = listing.row.captured /\ ~Ended(row)
      BY <2>1 DEF Item, Same, Ended
    <2>3. items[listing.id] = listing.row \/ listing.id \in spent'.stale
      BY <2>1 DEF ShapeInv, SpentType
    <2>4. listing.id = i => Same(items[i], listing.row)
      BY <2>1 DEF RowInv, CopiesTrue, Copy
    <2> HIDE DEF row
    <2> QED  BY <1>2, <2>1, <2>2, <2>3, <2>4 DEF Same
  <1>9. CASE Age
    <2>1. DOMAIN items' = DOMAIN items /\ items'[i] = [items[i] EXCEPT !.old = TRUE] /\ items'[i] \in Item
      BY <1>9, AgedRows
    <2>2. /\ items'[i].content = items[i].content /\ items'[i].manual = items[i].manual
          /\ items'[i].captured = items[i].captured /\ items'[i].state = items[i].state
      BY <1>0, <2>1 DEF Item
    <2> QED  BY <2>1, <2>2, RowAssumption DEF RowKept, Ended
  <1>10. CASE ListLook \/ (Environment /\ ~Age) \/ UNCHANGED vars
    BY <1>1, <1>10 DEF ListLook, Environment, Watch, Foreign, List, Crash, PurgeFails, vars
  <1> QED  BY <1>5, <1>6, <1>7, <1>8, <1>9, <1>10 DEF Next

\* A pin belongs to a propagated deletion, and has its bytes.
PinsClean ==
  \A i \in Ids :
    \/ pins[i] = Absent
    \/ i \in DOMAIN items /\ items[i] # None /\ items[i].manual /\ pins[i] = items[i].content

LEMMA PinsStep == ShapeInv /\ RowInv /\ CallTrue /\ PinsClean /\ [Next]_vars => PinsClean'
  <1> SUFFICES ASSUME ShapeInv, RowInv, CallTrue, PinsClean, [Next]_vars, NEW i \in Ids
               PROVE  \/ pins'[i] = Absent
                      \/ i \in DOMAIN items' /\ items'[i] # None /\ items'[i].manual /\ pins'[i] = items'[i].content
    BY DEF PinsClean
  <1>0. pins \in [Ids -> Bytes]
    BY DEF ShapeInv, TypeOK
  <1>1. CASE pins'[i] = pins[i] /\ pins[i] # Absent
    <2>1. i \in DOMAIN items /\ items[i] # None /\ items[i].manual /\ pins[i] = items[i].content
      BY <1>1 DEF PinsClean
    <2>2. ~(SweepRow /\ i = sweep.dropped)
      BY <2>1 DEF SweepRow, RowInv, CopiesTrue
    <2> QED  BY <1>1, <2>1, <2>2, RowsKept DEF RowKept
  <1>2. CASE Pin
    <2> DEFINE row == [call.row EXCEPT !.ready = TRUE]
    <2>1. call # None /\ call.row # None /\ call.row \in Item /\ call.id \in DOMAIN items /\ call.at = "pin"
      BY <1>2, CallFacts DEF Pin, At, RowSteps
    <2>2. row \in Item /\ row.manual /\ row.content = call.found
      BY <2>1 DEF CallTrue, Item
    <2>3. pins' = [pins EXCEPT ![call.id] = Absent]
          \/ (pins' = [pins EXCEPT ![call.id] = call.found] /\ items' = [items EXCEPT ![call.id] = row])
      BY <1>2 DEF Pin, Put
    <2> HIDE DEF row
    <2>4. items' = [items EXCEPT ![call.id] = row] => items'[call.id] = row /\ DOMAIN items' = DOMAIN items
      BY <2>1, <2>2, PutRow DEF ShapeInv
    <2> QED  BY <1>0, <1>1, <2>1, <2>2, <2>3, <2>4, RowAssumption
  <1>3. CASE Unpin \/ Purge
    <2>1. UNCHANGED pins \/ pins' = [pins EXCEPT ![call.id] = Absent]
      BY <1>3 DEF Unpin, Purge
    <2> QED  BY <1>0, <1>1, <2>1
  <1> QED  BY <1>1, <1>2, <1>3, PinsMove

\* Who changes what was captured, and the history of the bytes.
LEMMA TrashedMove ==
  ASSUME [Next]_vars
  PROVE  UNCHANGED trashed \/ Capture \/ Move \/ Unpin \/ Purge \/ SweepTrashed
  <1>1. CASE Step
    BY <1>1 DEF Step, Retain, RecordRetained, Mark, Finish, Bare, Place, Index, Pin, Look, Replace, Blob,
                Rewrite, Settle, Dereference, Blobs, Forget
  <1>2. CASE Calls
    BY <1>2 DEF Calls, Remove, Propagate, Write, TrashFolder, Again, Restore, Discard
  <1>3. CASE Sweeping
    BY <1>3 DEF Sweeping, StartSweep, SweepRow, SweepDigest, SweepRecord, EndSweep
  <1>4. CASE ListLook \/ ListFinish \/ Environment \/ UNCHANGED vars
    BY <1>4 DEF ListLook, ListFinish, Environment, List, Watch, Foreign, Age, Crash, PurgeFails, vars
  <1> QED  BY <1>1, <1>2, <1>3, <1>4 DEF Next

LEMMA TrashedKept ==
  ASSUME ShapeInv, [Next]_vars, NEW i \in Ids
  PROVE  trashed'[i] = trashed[i] \/ trashed'[i] = Nothing \/ (Capture /\ call # None /\ call.id = i)
  <1>0. trashed \in [Ids -> [Keys -> Bytes]]
    BY DEF ShapeInv, TypeOK
  <1>1. CASE Capture
    <2> DEFINE tree == [k \in Keys |-> IF k \in Under(call.key) THEN disk[k] ELSE Absent]
    <2>1. call # None /\ (UNCHANGED trashed \/ trashed' = [trashed EXCEPT ![call.id] = tree])
      BY <1>1 DEF Capture, At
    <2> HIDE DEF tree
    <2> QED  BY <1>0, <1>1, <2>1
  <1>2. CASE Move \/ Unpin \/ Purge \/ SweepTrashed
    <2>1. UNCHANGED trashed \/ \E j : trashed' = [trashed EXCEPT ![j] = Nothing]
      BY <1>2 DEF Move, Unpin, Purge, SweepTrashed
    <2> QED  BY <1>0, <2>1
  <1> QED  BY <1>1, <1>2, TrashedMove

\* What the sweep is about to drop has nothing captured any more.
SweepTrue ==
  sweep # None =>
    /\ \A i \in sweep.rows : items[i] # None
    /\ sweep.dropped # 0 =>
         /\ sweep.dropped \in sweep.rows
         /\ sweep.dropped \notin spent.stale /\ items[sweep.dropped].captured => trashed[sweep.dropped] = Nothing

LEMMA SweepTrueStep == ShapeInv /\ RowInv /\ CallTrue /\ SweepTrue /\ [Next]_vars => SweepTrue'
  <1> SUFFICES ASSUME ShapeInv, RowInv, CallTrue, SweepTrue, [Next]_vars, sweep' # None PROVE SweepTrue'
    BY DEF SweepTrue
  <1>0. /\ trashed \in [Ids -> [Keys -> Bytes]] /\ DOMAIN items \subseteq Ids
        /\ sweep # None => sweep \in Sweep /\ sweep.rows \subseteq DOMAIN items
        /\ 0 \notin Ids
    BY RowIds DEF ShapeInv, TypeOK, SweepShaped, Ids
  <1>1. ASSUME sweep # None, sweep'.rows = sweep.rows, sweep'.dropped = sweep.dropped, ~SweepRow PROVE SweepTrue'
    <2>1. \A i \in sweep.rows : items'[i] # None
      BY <1>0, <1>1, RowsKept DEF SweepTrue, RowKept
    <2>2. ASSUME sweep.dropped # 0, sweep.dropped \notin spent'.stale, items'[sweep.dropped].captured
          PROVE  sweep.dropped \in sweep.rows /\ trashed'[sweep.dropped] = Nothing
      <3>1. PICK d \in DOMAIN items : d = sweep.dropped /\ d \in sweep.rows /\ d \in Ids /\ items[d] # None
        BY <1>0, <1>1, <2>2 DEF SweepTrue
      <3>2. items[d].old /\ ~items[d].manual
        BY <1>1, <3>1 DEF RowInv, CopiesTrue
      <3>3. ~(call # None /\ call.id = d /\ (Mark \/ Capture))
        <4> SUFFICES ASSUME call # None, call.id = d, Mark \/ Capture PROVE FALSE
          OBVIOUS
        <4>1. call.row # None /\ call.at \in {"mark", "capture"}
          BY CallFacts DEF Mark, Capture, At, RowSteps
        <4>2. call.row.old /\ ~call.row.manual
          BY <3>1, <3>2, <4>1, RowFacts DEF Copy, Same
        <4> QED  BY <4>1, <4>2 DEF CallTrue, TakeSteps
      <3>4. d \notin spent.stale /\ items[d].captured
        BY <1>1, <2>2, <3>1, <3>3, RowsKept, StaleGrows DEF RowKept
      <3>5. trashed[d] = Nothing
        BY <1>1, <2>2, <3>1, <3>4 DEF SweepTrue
      <3> QED  BY <3>1, <3>3, <3>5, TrashedKept
    <2>3. sweep.dropped # 0 => sweep.dropped \in sweep.rows
      BY <1>1 DEF SweepTrue
    <2> QED  BY <1>1, <2>1, <2>2, <2>3 DEF SweepTrue
  <1>2. CASE StartSweep
    BY <1>2 DEF StartSweep, SweepTrue, Expired
  <1>3. CASE SweepTrashed
    <2>1. PICK i \in sweep.rows :
            /\ sweep' = [sweep EXCEPT !.dropped = i]
            /\ items[i] # None /\ items[i].captured => trashed' = [trashed EXCEPT ![i] = Nothing]
      BY <1>3 DEF SweepTrashed
    <2>2. sweep # None /\ sweep'.rows = sweep.rows /\ sweep'.dropped = i /\ UNCHANGED items /\ i \in Ids /\ items[i] # None
      BY <1>0, <1>3, <2>1 DEF SweepTrashed, Sweep, SweepTrue
    <2> QED  BY <1>0, <2>1, <2>2 DEF SweepTrue
  <1>4. CASE SweepRow
    <2>1. /\ sweep # None /\ sweep.dropped \in DOMAIN items /\ items' = [items EXCEPT ![sweep.dropped] = None]
          /\ sweep'.rows = sweep.rows \ {sweep.dropped} /\ sweep'.dropped = 0
      BY <1>0, <1>4 DEF SweepRow, ShapeInv, SweepShaped, Sweep
    <2>2. \A j \in DOMAIN items : items'[j] = IF j = sweep.dropped THEN None ELSE items[j]
      BY <2>1, PutRow DEF ShapeInv
    <2> QED  BY <1>0, <2>1, <2>2 DEF SweepTrue
  <1>5. CASE SweepDigest
    <2>1. sweep # None /\ \E c : sweep' = [sweep EXCEPT !.digest = c] \/ sweep' = [sweep EXCEPT !.digests = @ \ {c}]
      BY <1>5 DEF SweepDigest
    <2>2. sweep'.rows = sweep.rows /\ sweep'.dropped = sweep.dropped /\ UNCHANGED items
      BY <1>0, <1>5, <2>1 DEF Sweep, SweepDigest
    <2> QED  BY <1>0, <1>1, <1>4, <2>1, <2>2
  <1>6. CASE SweepRecord
    <2>1. sweep # None /\ sweep'.rows = sweep.rows /\ sweep'.dropped = sweep.dropped
      BY <1>0, <1>6 DEF Sweep, SweepRecord
    <2> QED  BY <1>1, <1>4, <2>1
  <1>7. ~EndSweep /\ ~Crash
    BY DEF EndSweep, Crash
  <1>8. CASE UNCHANGED sweep
    BY <1>1, <1>4, <1>8
  <1>9. CASE Calls
    BY <1>8, <1>9 DEF Calls, Remove, Propagate, Write, TrashFolder, Again, Restore, Discard
  <1>10. CASE Step
    BY <1>8, <1>10 DEF Step, Retain, RecordRetained, Mark, Capture, Finish, Bare, Place, Index, Pin, Look, Move, Replace,
                      Blob, Rewrite, Settle, Unpin, Purge, Dereference, Blobs, Forget
  <1>11. CASE ListLook \/ ListFinish \/ UNCHANGED vars \/ (Environment /\ ~Crash)
    BY <1>8, <1>11 DEF ListLook, ListFinish, Environment, List, Watch, Foreign, Age, PurgeFails, vars, memory
  <1> QED  BY <1>2, <1>3, <1>4, <1>5, <1>6, <1>7, <1>9, <1>10, <1>11 DEF Next, Sweeping

\* Only a capture adds to the bytes in question.
LEMMA HistoryKept ==
  ASSUME ShapeInv, [Next]_vars
  PROVE  \/ Capture
         \/ /\ spent'.taken \subseteq spent.taken
            /\ spent.waived \subseteq spent'.waived
            /\ spent.undone \subseteq spent'.undone
  <1>0. SpentType
    BY DEF ShapeInv
  <1>1. \A B : LET s == Waived(B) IN
          s.taken = spent.taken /\ s.waived = spent.waived \cup (B \ {Absent}) /\ s.undone = spent.undone
    BY <1>0 DEF SpentType, Waived
  <1>2. \A B : LET s == [Waived(B) EXCEPT !.calls = @ + 1] IN
          s.taken = spent.taken /\ s.waived = spent.waived \cup (B \ {Absent}) /\ s.undone = spent.undone
    BY <1>0 DEF SpentType, Waived
  <1>3. \A kind : Accept(kind) => spent'.taken = spent.taken /\ spent'.waived = spent.waived /\ spent'.undone = spent.undone
    BY <1>0 DEF SpentType, Accept
  <1>4. LET s == [spent EXCEPT !.events = @ + 1] IN
          s.taken = spent.taken /\ s.waived = spent.waived /\ s.undone = spent.undone
    BY <1>0 DEF SpentType
  <1>6. \A B : LET s == [spent EXCEPT !.undone = @ \cup B] IN
          s.taken = spent.taken /\ s.waived = spent.waived /\ s.undone = spent.undone \cup B
    BY <1>0 DEF SpentType
  <1>7. CASE Calls
    <2>1. ASSUME NEW i \in DOMAIN items, Discard(i)
          PROVE  spent'.taken = spent.taken /\ spent.waived \subseteq spent'.waived /\ spent'.undone = spent.undone
      <3>1. \E B : spent' = [Waived(B) EXCEPT !.calls = @ + 1]
        BY <2>1 DEF Discard
      <3> QED  BY <1>2, <3>1
    <2>2. (\E kind : Accept(kind)) \/ (\E i \in DOMAIN items : Discard(i))
      BY <1>7 DEF Calls, Remove, Propagate, Write, TrashFolder, Again, Restore
    <2> QED  BY <1>3, <2>1, <2>2
  <1>8. CASE Step
    <2>1. CASE Move
      BY <1>0, <2>1 DEF Move, SpentType
    <2>2. CASE Bare \/ Place
      BY <1>1, <2>2 DEF Bare, Place
    <2>3. CASE Settle
      BY <1>6, <2>3 DEF Settle
    <2>4. ASSUME NEW bytes, Rewrite("replace", bytes) \/ Rewrite("blob", bytes)
          PROVE  spent'.taken \subseteq spent.taken /\ spent'.waived = spent.waived /\ spent'.undone = spent.undone
      <3>1. UNCHANGED spent \/ spent' = [spent EXCEPT !.taken = @ \ {bytes}]
        BY <2>4 DEF Rewrite
      <3> QED  BY <1>0, <3>1 DEF SpentType
    <2>5. CASE Replace \/ Blob
      BY <2>4, <2>5 DEF Replace, Blob
    <2>6. CASE Retain \/ RecordRetained \/ Mark \/ Finish \/ Index \/ Pin \/ Look \/ Unpin \/ Purge \/ Dereference \/ Blobs \/ Forget
      BY <2>6 DEF Retain, RecordRetained, Mark, Finish, Index, Pin, Look, Unpin, Purge, Dereference, Blobs, Forget
    <2> QED  BY <1>8, <2>1, <2>2, <2>3, <2>5, <2>6 DEF Step
  <1>9. CASE Sweeping
    <2>1. UNCHANGED spent \/ \E B : spent' = Waived(B)
      BY <1>9 DEF Sweeping, StartSweep, SweepTrashed, SweepRow, SweepDigest, SweepRecord, EndSweep
    <2> QED  BY <1>1, <2>1
  <1>10. CASE ListLook \/ ListFinish
    BY <1>0, <1>10 DEF ListLook, ListFinish, SpentType
  <1>11. CASE Environment \/ UNCHANGED vars
    BY <1>4, <1>11 DEF Environment, List, Watch, Foreign, Age, Crash, PurgeFails, vars
  <1> QED  BY <1>7, <1>8, <1>9, <1>10, <1>11 DEF Next

\* What is left of the captured files when a call gives an item back or purges it.
EndTrue ==
  call # None /\ call.row # None =>
    /\ call.at = "settle" /\ call.row.captured /\ ~call.row.manual => trashed[call.id] = Nothing
    /\ call.at \in {"dereference", "blobs", "forget"} /\ call.row.captured => trashed[call.id] = Nothing
    /\ call.at = "purge" => Files(trashed[call.id]) \subseteq spent.waived
    /\ call.at \in {"settle", "unpin"} /\ call.row.manual => call.row.content \notin spent.taken
    /\ call.at = "unpin" => Files(trashed[call.id]) \ {call.row.content} \subseteq spent.undone

EndSteps == PurgeSteps \cup {"settle", "unpin"}

LEMMA NothingThere == Files(Nothing) = {}
  BY DEF Files, Nothing

LEMMA EndStep == ShapeInv /\ RowInv /\ CallTrue /\ PinsClean /\ EndTrue /\ [Next]_vars => EndTrue'
  <1> SUFFICES ASSUME ShapeInv, RowInv, CallTrue, PinsClean, EndTrue, [Next]_vars PROVE EndTrue'
    OBVIOUS
  <1>0. /\ trashed \in [Ids -> [Keys -> Bytes]]
        /\ call # None /\ call.row # None => call.id \in Ids /\ call.row \in Item
    BY CallFacts DEF ShapeInv, TypeOK
  <1>1. ASSUME call' # None => call'.at \notin EndSteps PROVE EndTrue'
    BY <1>1 DEF EndTrue, EndSteps, PurgeSteps
  <1>2. CASE UNCHANGED call
    <2> SUFFICES ASSUME call # None, call.row # None PROVE EndTrue'
      BY <1>2 DEF EndTrue
    <2>1. CASE call.at \in EndSteps
      <3>1. ~Capture
        BY <2>1 DEF Capture, At, EndSteps, PurgeSteps
      <3>2. trashed'[call.id] = trashed[call.id] \/ trashed'[call.id] = Nothing
        BY <1>0, <3>1, TrashedKept
      <3>3. spent'.taken \subseteq spent.taken /\ spent.waived \subseteq spent'.waived /\ spent.undone \subseteq spent'.undone
        BY <3>1, HistoryKept
      <3>4. Files(trashed[call.id])' \subseteq Files(trashed[call.id])
        BY <1>2, <3>2, NothingThere DEF Files, Nothing
      <3> QED  BY <1>2, <3>2, <3>3, <3>4 DEF EndTrue
    <2> QED  BY <1>1, <1>2, <2>1
  <1>3. ASSUME call # None, NEW step, Goto(step)
        PROVE  call'.at = step /\ call'.row = call.row /\ call'.id = call.id
    BY <1>3, CallFacts DEF Goto, Call
  <1>4. Return => EndTrue'
    BY DEF Return, EndTrue
  <1>5. CASE Calls
    <2>1. ASSUME NEW k \in Keys, Remove(k) \/ Propagate(k) PROVE EndTrue'
      <3>1. call'.at \in {"retain", "pin"}
        BY <2>1 DEF Remove, Propagate, Ask
      <3> QED  BY <1>1, <3>1 DEF EndSteps, PurgeSteps
    <2>2. ASSUME NEW k \in Keys, NEW c \in Contents, NEW create \in BOOLEAN, Write(k, c, create) PROVE EndTrue'
      <3>1. call'.at \in {"retain", "place"}
        BY <2>2 DEF Write, Ask
      <3> QED  BY <1>1, <3>1 DEF EndSteps, PurgeSteps
    <2>3. CASE TrashFolder
      <3>1. call'.at = "capture"
        BY <2>3 DEF TrashFolder, Ask
      <3> QED  BY <1>1, <3>1 DEF EndSteps, PurgeSteps
    <2>4. ASSUME NEW i \in DOMAIN items, Again(i) \/ Restore(i) PROVE EndTrue'
      <3>1. call' = None \/ call'.at \in {"retain", "pin", "look"}
        BY <2>4 DEF Again, Restore, Ask, Accept
      <3> QED  BY <1>1, <3>1 DEF EndSteps, PurgeSteps
    <2>5. ASSUME NEW i \in DOMAIN items, Discard(i) PROVE EndTrue'
      <3>1. call'.at = "purge" /\ call'.id = i /\ UNCHANGED trashed
        BY <2>5 DEF Discard, Ask
      <3>2. spent'.waived = spent.waived \cup (({items[i].content} \cup Files(trashed[i])) \ {Absent})
        BY <2>5 DEF Discard, Waived, ShapeInv, SpentType
      <3>3. Files(trashed[call.id])' \subseteq spent'.waived
        BY <3>1, <3>2 DEF Files
      <3> QED  BY <3>1, <3>3 DEF EndTrue
    <2> QED  BY <1>5, <2>1, <2>2, <2>3, <2>4, <2>5 DEF Calls
  <1>6. CASE Step
    <2>1. CASE Retain \/ RecordRetained \/ Mark \/ Capture \/ Finish \/ Bare \/ Place \/ Index \/ Pin \/ Look
      <3>1. CASE Retain \/ Capture \/ Finish \/ Bare \/ Place \/ Index
        <4>1. call # None
          BY <3>1 DEF Retain, Capture, Finish, Bare, Place, Index, At
        <4>2. \E step \in {"bare", "place", "mark", "record", "finish", "replace", "move", "index"} : Return \/ Goto(step)
          BY <3>1 DEF Retain, Capture, Finish, Bare, Place, Index
        <4> QED  BY <1>1, <1>3, <1>4, <4>1, <4>2 DEF EndSteps, PurgeSteps
      <3>2. CASE RecordRetained
        <4>1. call # None
          BY <3>2 DEF RecordRetained, At
        <4>2. Goto("mark") \/ \E id, row : call' = [call EXCEPT !.at = "mark", !.id = id, !.row = row]
          BY <3>2 DEF RecordRetained
        <4>3. call'.at = "mark"
          BY <4>1, <4>2, CallFacts DEF Goto, Call
        <4> QED  BY <1>1, <4>3 DEF EndSteps, PurgeSteps
      <3>3. CASE Mark \/ Pin
        <4>1. call # None
          BY <3>3 DEF Mark, Pin, At
        <4>2. Return \/ \E step \in {"capture", "retain"} : \E row : call' = [call EXCEPT !.at = step, !.row = row]
          BY <3>3 DEF Mark, Pin
        <4>3. Return \/ call'.at \in {"capture", "retain"}
          BY <4>1, <4>2, CallFacts DEF Call
        <4> QED  BY <1>1, <1>4, <4>3 DEF EndSteps, PurgeSteps
      <3>4. CASE Look
        <4> DEFINE row == [call.row EXCEPT !.state = "active"]
                   step == IF row.manual THEN "replace" ELSE IF row.captured THEN "move" ELSE "blob"
        <4>1. call # None /\ (Return \/ call' = [call EXCEPT !.row = row, !.at = step])
          BY <3>4 DEF Look, At
        <4>2. step \in {"replace", "move", "blob"}
          OBVIOUS
        <4> HIDE DEF row, step
        <4>3. Return \/ call'.at = step
          BY <4>1, CallFacts DEF Call
        <4> QED  BY <1>1, <1>4, <4>2, <4>3 DEF EndSteps, PurgeSteps
      <3> QED  BY <2>1, <3>1, <3>2, <3>3, <3>4
    <2>2. CASE Move
      <3>1. call # None /\ call.row # None /\ call.at = "move"
        BY <2>2, CallFacts DEF Move, At, RowSteps
      <3>2. Return \/ (Goto("settle") /\ trashed' = [trashed EXCEPT ![call.id] = Nothing])
        BY <2>2 DEF Move
      <3>3. CASE Goto("settle") /\ trashed' = [trashed EXCEPT ![call.id] = Nothing]
        <4>1. call'.at = "settle" /\ call'.row = call.row /\ call'.id = call.id
          BY <1>3, <3>1, <3>3
        <4>2. trashed'[call.id] = Nothing
          BY <1>0, <3>1, <3>3
        <4>3. ~call.row.manual
          BY <3>1 DEF CallTrue
        <4> QED  BY <4>1, <4>2, <4>3 DEF EndTrue
      <3> QED  BY <1>4, <3>2, <3>3
    <2>3. CASE Replace
      <3>1. call # None /\ call.row # None /\ call.at = "replace" /\ call.id \in Ids /\ call.id # 0
        BY <2>3, CallFacts DEF Replace, Rewrite, At, RowSteps, Ids
      <3>2. Return \/ (Goto("settle") /\ pins[call.id] # Absent /\ spent' = [spent EXCEPT !.taken = @ \ {pins[call.id]}])
        BY <2>3, <3>1 DEF Replace, Rewrite
      <3>3. CASE Goto("settle") /\ pins[call.id] # Absent /\ spent' = [spent EXCEPT !.taken = @ \ {pins[call.id]}]
        <4>1. call'.at = "settle" /\ call'.row = call.row /\ call'.id = call.id
          BY <1>3, <3>1, <3>3
        <4>2. call.row.manual
          BY <3>1 DEF CallTrue
        <4>3. pins[call.id] = call.row.content
          BY <3>1, <3>3, RowFacts DEF PinsClean, Copy, Same
        <4>4. spent'.taken = spent.taken \ {pins[call.id]}
          BY <3>3 DEF ShapeInv, SpentType
        <4> QED  BY <4>1, <4>2, <4>3, <4>4 DEF EndTrue
      <3> QED  BY <1>4, <3>2, <3>3
    <2>4. CASE Blob
      <3>1. call # None /\ call.row # None /\ call.at = "blob" /\ (Return \/ Goto("settle"))
        BY <2>4, CallFacts DEF Blob, Rewrite, At, RowSteps
      <3>2. ~call.row.captured /\ ~call.row.manual
        BY <3>1 DEF CallTrue
      <3> QED  BY <1>3, <1>4, <3>1, <3>2 DEF EndTrue
    <2>5. CASE Settle
      <3>1. call # None /\ call.row # None /\ call.at = "settle" /\ UNCHANGED trashed
        BY <2>5, CallFacts DEF Settle, At, RowSteps
      <3>2. Return \/ (/\ Goto("unpin") /\ call.row.manual
                       /\ spent' = [spent EXCEPT !.undone = @ \cup (Files(trashed[call.id]) \ {call.row.content})])
        BY <2>5 DEF Settle
      <3>3. CASE /\ Goto("unpin") /\ call.row.manual
                 /\ spent' = [spent EXCEPT !.undone = @ \cup (Files(trashed[call.id]) \ {call.row.content})]
        <4>1. call'.at = "unpin" /\ call'.row = call.row /\ call'.id = call.id
          BY <1>3, <3>1, <3>3
        <4>2. /\ spent'.taken = spent.taken
              /\ spent'.undone = spent.undone \cup (Files(trashed[call.id]) \ {call.row.content})
          BY <3>3 DEF ShapeInv, SpentType
        <4>3. Files(trashed[call.id])' = Files(trashed[call.id])
          BY <3>1, <4>1 DEF Files
        <4> QED  BY <3>1, <3>3, <4>1, <4>2, <4>3 DEF EndTrue
      <3> QED  BY <1>4, <3>2, <3>3
    <2>6. CASE Purge
      <3>1. call # None /\ call.row # None /\ (Return \/ Goto("dereference"))
        BY <2>6, CallFacts DEF Purge, At, RowSteps, PurgeSteps
      <3>2. call.row.captured => trashed'[call.id] = Nothing
        BY <1>0, <2>6, <3>1 DEF Purge
      <3> QED  BY <1>3, <1>4, <3>1, <3>2 DEF EndTrue
    <2>7. CASE Dereference \/ Blobs
      <3>1. /\ call # None /\ call.row # None /\ call.at \in {"dereference", "blobs"} /\ UNCHANGED trashed
            /\ Return \/ Goto("blobs") \/ Goto("forget")
        BY <2>7, CallFacts DEF Dereference, Blobs, At, RowSteps, PurgeSteps
      <3> QED  BY <1>3, <1>4, <3>1 DEF EndTrue
    <2>8. CASE Unpin \/ Forget
      BY <1>4, <2>8 DEF Unpin, Forget
    <2> QED  BY <1>6, <2>1, <2>2, <2>3, <2>4, <2>5, <2>6, <2>7, <2>8 DEF Step
  <1>7. CASE Sweeping \/ ListLook \/ ListFinish \/ Environment \/ UNCHANGED vars
    <2>1. UNCHANGED call \/ call' = None
      BY <1>7 DEF Sweeping, StartSweep, SweepTrashed, SweepRow, SweepDigest, SweepRecord, EndSweep,
                  ListLook, ListFinish, Environment, Watch, Foreign, List, Age, Crash, PurgeFails, Return, memory, vars
    <2> QED  BY <1>1, <1>2, <2>1
  <1> QED  BY <1>5, <1>6, <1>7 DEF Next

\* Ids are never taken back.
LEMMA IdsStay == ShapeInv /\ [Next]_vars => DOMAIN items \subseteq DOMAIN items'
  <1> SUFFICES ASSUME ShapeInv, [Next]_vars PROVE DOMAIN items \subseteq DOMAIN items'
    OBVIOUS
  <1>1. ASSUME NEW row, items' = Append(items, row) PROVE DOMAIN items \subseteq DOMAIN items'
    <2>1. items \in Seq(Item \cup {None}) /\ Len(items) \in Nat /\ DOMAIN items = 1..Len(items)
      BY RowIds DEF ShapeInv, TypeOK
    <2> QED  BY <1>1, <2>1
  <1>2. ASSUME NEW i, NEW row, items' = [items EXCEPT ![i] = row] PROVE DOMAIN items \subseteq DOMAIN items'
    BY <1>2
  <1>3. CASE Calls
    BY <1>1, <1>2, <1>3 DEF Calls, Remove, Propagate, Write, TrashFolder, Again, Restore, Discard
  <1>4. CASE Step
    BY <1>1, <1>2, <1>4 DEF Step, Retain, RecordRetained, Mark, Capture, Finish, Bare, Place, Index, Pin, Look, Move, Replace,
                Blob, Rewrite, Settle, Unpin, Purge, Dereference, Blobs, Forget, Discarded, Put
  <1>5. CASE Sweeping
    BY <1>2, <1>5 DEF Sweeping, StartSweep, SweepTrashed, SweepRow, SweepDigest, SweepRecord, EndSweep
  <1>6. CASE ListLook \/ ListFinish
    BY <1>2, <1>6 DEF ListLook, ListFinish
  <1>7. CASE Age
    BY <1>7, AgedRows
  <1>8. CASE UNCHANGED vars \/ (Environment /\ ~Age)
    BY <1>8 DEF Environment, List, Watch, Foreign, Crash, PurgeFails, vars
  <1> QED  BY <1>3, <1>4, <1>5, <1>6, <1>7, <1>8 DEF Next

EndInv == PinsClean /\ SweepTrue /\ EndTrue

\* A rename takes files whose row is there, is marked and is not over.
LEMMA CaptureHeld ==
  ASSUME ShapeInv, RowInv, CallTrue, StillRecoverable, Capture
  PROVE  StillRecoverable'
  <1> DEFINE tree == [k \in Keys |-> IF k \in Under(call.key) THEN disk[k] ELSE Absent]
  <1>0. PICK d \in DOMAIN items :
          /\ d = call.id /\ d \in Ids /\ call # None /\ call.row # None /\ call.at = "capture" /\ call.row \in Item
    BY CallFacts DEF Capture, At, RowSteps
  <1>1. UNCHANGED items /\ trashed \in [Ids -> [Keys -> Bytes]] /\ DOMAIN items \subseteq Ids
    BY RowIds DEF Capture, ShapeInv, TypeOK
  <1>2. CASE UNCHANGED <<trashed, spent>>
    BY <1>1, <1>2 DEF StillRecoverable, WithinReach, Files, Ended
  <1>3. CASE /\ trashed' = [trashed EXCEPT ![call.id] = tree]
             /\ spent' = [Taken(Files(tree)) EXCEPT !.undone = @ \cup (Files(trashed[call.id]) \ Files(tree))]
    <2> HIDE DEF tree
    <2>1. /\ spent'.taken = spent.taken \cup (Files(tree) \ {Absent}) /\ spent'.waived = spent.waived \ Files(tree)
          /\ spent'.undone = (spent.undone \ Files(tree)) \cup (Files(trashed[call.id]) \ Files(tree))
          /\ spent'.stale = spent.stale
      BY <1>3 DEF ShapeInv, SpentType, Taken
    <2>2. \A i \in DOMAIN items : trashed'[i] = IF i = d THEN tree ELSE trashed[i]
      BY <1>0, <1>1, <1>3
    <2>3. d \in spent.stale \/ (items[d] # None /\ ~Ended(items[d]) /\ items[d].captured)
      <3>1. call.row.captured /\ (~call.row.old \/ call.row.manual)
        BY <1>0 DEF CallTrue, TakeSteps
      <3>2. items[d] # None
        BY <1>0, <3>1, RowFacts DEF Copy
      <3>3. ~Ended(items[d])
        BY <1>0, <3>2 DEF RowInv, StageTrue, PurgeSteps, Ended
      <3> QED  BY <1>0, <3>1, <3>2, <3>3, RowFacts
    <2> SUFFICES ASSUME NEW c \in spent'.taken \ (spent'.waived \cup spent'.undone) PROVE WithinReach(c)'
      BY DEF StillRecoverable
    <2>4. CASE c \in Files(tree)
      <3>1. d \in DOMAIN items' /\ c \in Files(trashed'[d])
        BY <1>1, <2>2, <2>4
      <3> QED  BY <1>1, <2>1, <2>3, <3>1 DEF WithinReach, Files, Ended
    <2>5. CASE c \notin Files(tree)
      <3>1. c \in spent.taken \ (spent.waived \cup spent.undone) /\ c \notin Files(trashed[d])
        BY <1>0, <2>1, <2>5
      <3>2. PICK i \in DOMAIN items :
              /\ c \in Files(trashed[i])
              /\ i \in spent.stale \/ (items[i] # None /\ ~Ended(items[i]) /\ items[i].captured)
        BY <3>1 DEF StillRecoverable, WithinReach
      <3>3. trashed'[i] = trashed[i]
        BY <2>2, <3>1, <3>2
      <3> QED  BY <1>1, <2>1, <3>2, <3>3 DEF WithinReach, Files, Ended
    <2> QED  BY <2>4, <2>5
  <1> QED  BY <1>2, <1>3 DEF Capture

\* What was captured goes only with bytes that are back, purged or expired.
LEMMA FilesKept ==
  ASSUME ShapeInv, RowInv, CallTrue, EndTrue, [Next]_vars, ~Capture,
         NEW c \in spent'.taken \ (spent'.waived \cup spent'.undone), NEW i \in Ids, c \in Files(trashed[i])
  PROVE  trashed'[i] = trashed[i]
  <1>0. trashed \in [Ids -> [Keys -> Bytes]] /\ c # Absent /\ SpentType
    BY DEF ShapeInv, TypeOK, Files
  <1>1. c \in spent.taken /\ c \notin spent.waived /\ c \notin spent.undone
    BY HistoryKept
  <1>2. CASE Move
    <2>1. UNCHANGED trashed \/ (/\ trashed' = [trashed EXCEPT ![call.id] = Nothing]
                                /\ spent' = [spent EXCEPT !.taken = @ \ Files(trashed[call.id]), !.back = @ \cup {call.id}])
      BY <1>2 DEF Move
    <2>2. spent' = [spent EXCEPT !.taken = @ \ Files(trashed[call.id]), !.back = @ \cup {call.id}] =>
            spent'.taken = spent.taken \ Files(trashed[call.id])
      BY <1>0 DEF SpentType
    <2> QED  BY <1>0, <2>1, <2>2
  <1>3. CASE Unpin
    <2>1. /\ call # None /\ call.row # None /\ call.at = "unpin"
          /\ UNCHANGED trashed \/ trashed' = [trashed EXCEPT ![call.id] = Nothing]
      BY <1>3, CallFacts DEF Unpin, At, RowSteps
    <2>2. Files(trashed[call.id]) \subseteq spent.undone \cup {call.row.content} /\ call.row.content \notin spent.taken
      BY <2>1 DEF EndTrue, CallTrue
    <2> QED  BY <1>0, <1>1, <2>1, <2>2
  <1>4. CASE Purge
    <2>1. /\ call # None /\ call.row # None /\ call.at = "purge"
          /\ UNCHANGED trashed \/ trashed' = [trashed EXCEPT ![call.id] = Nothing]
      BY <1>4, CallFacts DEF Purge, At, RowSteps, PurgeSteps
    <2>2. Files(trashed[call.id]) \subseteq spent.waived
      BY <2>1 DEF EndTrue
    <2> QED  BY <1>0, <1>1, <2>1, <2>2
  <1>5. CASE SweepTrashed
    <2>1. PICK j \in sweep.rows : UNCHANGED trashed \/ (/\ trashed' = [trashed EXCEPT ![j] = Nothing]
                                                        /\ spent' = Waived(Files(trashed[j])))
      BY <1>5 DEF SweepTrashed
    <2>2. spent' = Waived(Files(trashed[j])) => spent'.waived = spent.waived \cup (Files(trashed[j]) \ {Absent})
      BY <1>0 DEF SpentType, Waived
    <2> QED  BY <1>0, <2>1, <2>2
  <1> QED  BY <1>2, <1>3, <1>4, <1>5, TrashedMove

\* The call that ends a row leaves nothing captured behind that is still in question.
LEMMA EndingHolds ==
  ASSUME ShapeInv, RowInv, CallTrue, EndTrue, [Next]_vars, Ending,
         NEW c \in spent'.taken \ (spent'.waived \cup spent'.undone),
         call # None, items[call.id] # None, call.id \notin spent.stale, items[call.id].captured
  PROVE  c \notin Files(trashed[call.id])
  <1>0. ~Capture
    BY DEF Ending, Settle, Purge, Dereference, Forget, Capture, At
  <1>1. c \in spent.taken /\ c \notin spent.waived /\ c \notin spent.undone
    BY <1>0, HistoryKept
  <1>2. call.row # None /\ call.at \in {"settle", "purge", "dereference", "forget"}
    BY CallFacts DEF Ending, Settle, Purge, Dereference, Forget, At, RowSteps, PurgeSteps
  <1>3. call.row.captured
    BY <1>2, RowFacts
  <1>4. CASE call.at \in {"dereference", "forget"} \/ (call.at = "settle" /\ ~call.row.manual)
    BY <1>2, <1>3, <1>4, NothingThere DEF EndTrue
  <1>5. CASE call.at = "purge"
    BY <1>1, <1>2, <1>5 DEF EndTrue
  <1>6. CASE call.at = "settle" /\ call.row.manual
    <2>1. spent' = [spent EXCEPT !.undone = @ \cup (Files(trashed[call.id]) \ {call.row.content})]
      BY <1>6 DEF Ending, Settle, Purge, Dereference, Forget, At
    <2>2. spent'.undone = spent.undone \cup (Files(trashed[call.id]) \ {call.row.content})
      BY <2>1 DEF ShapeInv, SpentType
    <2>3. call.row.content \notin spent.taken
      BY <1>2, <1>6 DEF EndTrue
    <2> QED  BY <1>1, <2>2, <2>3
  <1> QED  BY <1>2, <1>4, <1>5, <1>6

LEMMA HeldStep == ShapeInv /\ RowInv /\ CallTrue /\ EndInv /\ StillRecoverable /\ [Next]_vars => StillRecoverable'
  <1> SUFFICES ASSUME ShapeInv, RowInv, CallTrue, EndInv, StillRecoverable, [Next]_vars, ~Capture,
                      NEW c \in spent'.taken \ (spent'.waived \cup spent'.undone)
               PROVE  WithinReach(c)'
    BY CaptureHeld DEF StillRecoverable
  <1>1. c \in spent.taken \ (spent.waived \cup spent.undone)
    BY HistoryKept
  <1>2. PICK i \in DOMAIN items :
          /\ c \in Files(trashed[i])
          /\ i \in spent.stale \/ (items[i] # None /\ ~Ended(items[i]) /\ items[i].captured)
    BY <1>1 DEF StillRecoverable, WithinReach
  <1>3. i \in Ids /\ i \in DOMAIN items' /\ spent.stale \subseteq spent'.stale
    BY IdsStay, RowIds, StaleGrows DEF ShapeInv
  <1>4. trashed'[i] = trashed[i]
    BY <1>2, <1>3, FilesKept DEF EndInv
  <1>5. c \in Files(trashed'[i])
    BY <1>2, <1>4
  <1>6. i \in spent'.stale \/ (items'[i] # None /\ ~Ended(items'[i]) /\ items'[i].captured)
    <2> SUFFICES ASSUME i \notin spent'.stale PROVE items'[i] # None /\ ~Ended(items'[i]) /\ items'[i].captured
      OBVIOUS
    <2>1. i \notin spent.stale /\ items[i] # None /\ ~Ended(items[i]) /\ items[i].captured
      BY <1>2, <1>3
    <2>2. ~(SweepRow /\ i = sweep.dropped)
      <3> SUFFICES ASSUME SweepRow, i = sweep.dropped PROVE FALSE
        OBVIOUS
      <3>1. trashed[i] = Nothing
        BY <2>1 DEF SweepRow, EndInv, SweepTrue
      <3> QED  BY <1>2, <3>1, NothingThere
    <2>3. ~(Ending /\ call # None /\ call.id = i)
      BY <1>2, <2>1, EndingHolds DEF EndInv
    <2> QED  BY <2>1, <2>2, <2>3, RowsKept DEF RowKept
  <1> QED  BY <1>3, <1>5, <1>6 DEF WithinReach, Files, Ended

THEOREM EndCorrect == Spec => []EndInv
  <1>1. Init => EndInv
    BY DEF Init, EndInv, PinsClean, SweepTrue, EndTrue
  <1>2. ShapeInv /\ RowInv /\ CallTrue /\ EndInv /\ [Next]_vars => EndInv'
    BY PinsStep, SweepTrueStep, EndStep DEF EndInv
  <1> QED  BY <1>1, <1>2, ShapeCorrect, RowsCorrect, CallsCorrect, PTL DEF Spec

\* What Stored took off a key stays behind an item that is not over, until it is given
\* back, purged by the user or expired.
THEOREM StillRecoverableCorrect == Spec => []StillRecoverable
  <1>1. Init => StillRecoverable
    BY DEF Init, StillRecoverable
  <1>2. ShapeInv /\ RowInv /\ CallTrue /\ EndInv /\ StillRecoverable /\ [Next]_vars => StillRecoverable'
    BY HeldStep
  <1> QED  BY <1>1, <1>2, ShapeCorrect, RowsCorrect, CallsCorrect, EndCorrect, PTL DEF Spec

=============================================================================
