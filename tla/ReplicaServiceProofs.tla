-------------------------- MODULE ReplicaServiceProofs --------------------------
(* The invariants of the replica service for every number of owners, endpoints, *)
(* plans, edits and faults, layer by layer: ShapeInv says what the executor may  *)
(* rely on at each of its steps and how its copy of a row relates to the         *)
(* journal; the layers above it are stated where they are proved.                *)
EXTENDS ReplicaService, SequenceTheorems, FiniteSetTheorems, TLAPS

-----------------------------------------------------------------------------
(***************************************************************************)
(* The inductive invariant, in layers                                       *)
(***************************************************************************)
Locked == {"stage", "staged", "target", "write", "retain", "capture", "publish", "replace", "restore", "verify",
           "retire", "ask", "keep", "unlink", "delete", "check", "release", "drop"}
Past == {"retire", "ask", "keep", "unlink", "delete", "check", "release", "drop"}
Cleaning == {"clean", "dropingress", "droppin"}

\* The row of the journal is the executor's copy, but for its state: Retry and
\* Supersede write the journal while the executor waits for the lock.
Alike(op, row) ==
  /\ op.shape = row.shape /\ op.content = row.content /\ op.source = row.source /\ op.pin = row.pin
  /\ op.release = row.release /\ op.base = row.base /\ op.outcomes = row.outcomes /\ op.pinned = row.pinned
  /\ op.waiting = row.waiting /\ op.cleaned = row.cleaned

JournalShaped ==
  \A i \in DOMAIN ops :
    /\ ops[i].pin <= Len(ingress)
    /\ ops[i].heir # 0 => /\ ops[i].state = "cancelled" /\ ops[i].heir \in DOMAIN ops /\ ops[i].heir > i
                          /\ ops[ops[i].heir].shape.owner = ops[i].shape.owner
    /\ Len(ops[i].outcomes) <= Len(ops[i].shape.targets)
    /\ ops[i].base = None => ops[i].outcomes = <<>> /\ ops[i].state # "complete"

\* What the executor holds at each of its steps.
WorkShaped ==
  work # None =>
    /\ work.id \in DOMAIN ops /\ work.n > 0 /\ Alike(work.op, ops[work.id])
    /\ work.at \in Locked => lock = "executor" /\ work.op.base # None
    /\ work.at \in Locked \cup {"queued"} =>
         work.op.state = "running" /\ ~work.op.waiting /\ work.op.heir = 0 /\ ops[work.id].state # "complete"
    /\ work.at \in Cleaning => Terminal(work.op) /\ ops[work.id] = work.op
    /\ work.at \in Locked \ {"stage", "staged"} /\ NeedsBytes => staged[work.id] = work.op.content
    /\ work.at \in {"write", "retain", "capture", "publish", "replace", "verify"} => work.n \in DOMAIN work.op.shape.targets /\ work.n \in DOMAIN work.op.outcomes
    /\ work.at \in {"ask", "keep", "unlink", "delete"} =>
         work.key \in Keys \ (Outcomes(work.op) \cup work.op.shape.preserve) /\ Mirrors(work.key) # {}
    /\ work.at = "restore" => work.key \in Keys
    /\ work.at = "drop" => work.key \in ReleaseKeys(work.op)
    /\ work.at = "dropingress" => work.pin \in 1..work.op.pin /\ work.op.state = "complete"
    /\ work.at = "droppin" => work.op.pin # 0

\* Who holds the storage lock.
LockShaped ==
  /\ lock = "executor" => work # None /\ work.at # "queued"
  /\ lock \in {"edit", "taken", "placed"} =>
       /\ Len(ingress) > 0 /\ ingress[Len(ingress)] # None /\ ingress[Len(ingress)].state = "preparing"
       /\ \A i \in DOMAIN ops : Terminal(ops[i]) => ops[i].pin < Len(ingress)

ShapeInv == TypeOK /\ JournalShaped /\ WorkShaped /\ LockShaped /\ todo \subseteq DOMAIN ops

-----------------------------------------------------------------------------
(***************************************************************************)
(* Rows of the journal                                                      *)
(***************************************************************************)

\* A bounded set of numbers that is not empty has a least one: the sets 1..x of
\* its members x have a smallest among them.
LEMMA Least ==
  ASSUME NEW max \in Nat, NEW T \in SUBSET (1..max), T # {}
  PROVE  \E x \in T : \A y \in T : x <= y
  <1> DEFINE Base == 1..max
  <1> DEFINE Below == {1..x : x \in T}
  <1>1. IsFiniteSet(Base)
    BY FS_Interval
  <1>2. IsWellFoundedOn(StrictSubsetOrdering(Base), SUBSET Base)
    BY <1>1, FS_StrictSubsetOrderingWellFounded, FS_FiniteSubsetsOfFinite
  <1>3. Below \subseteq SUBSET Base /\ Below # {}
    <2>1. PICK x \in T : TRUE
      OBVIOUS
    <2>2. 1..x \in Below
      BY <2>1
    <2>3. ASSUME NEW y \in T  PROVE 1..y \in SUBSET Base
      BY <2>3
    <2> QED  BY <2>2, <2>3
  <1>4. \E X \in Below : \A Y \in Below : ~ (<<Y, X>> \in StrictSubsetOrdering(Base))
    <2> HIDE DEF Base, Below
    <2> QED  BY <1>2, <1>3, WFMin
  <1>5. PICK X \in Below : \A Y \in Below : ~ (Y \subseteq X /\ Y # X)
    <2>1. PICK X \in Below : \A Y \in Below : ~ (<<Y, X>> \in StrictSubsetOrdering(Base))
      BY <1>4
    <2>2. ASSUME NEW Y \in Below, Y \subseteq X, Y # X  PROVE FALSE
      <3>1. <<Y, X>> \in (SUBSET Base) \X (SUBSET Base)
        BY <1>3
      <3> QED  BY <2>1, <2>2, <3>1 DEF StrictSubsetOrdering
    <2> QED  BY <2>2
  <1>6. PICK x \in T : X = 1..x
    OBVIOUS
  <1>7. ASSUME NEW y \in T, y < x  PROVE FALSE
    <2>1. 1..y \in Below /\ 1..y \subseteq X
      BY <1>6, <1>7
    <2>2. x \in X /\ x \notin 1..y
      BY <1>6, <1>7
    <2> QED  BY <1>5, <2>1, <2>2
  <1> QED  BY <1>7

\* The ids of the rows are ids of the instance.
LEMMA OpIds ==
  ASSUME TypeOK
  PROVE  /\ Len(ops) \in Nat /\ DOMAIN ops = 1..Len(ops) /\ DOMAIN ops \subseteq Ids
         /\ \A i \in DOMAIN ops : ops[i] \in Op /\ i \in Nat
  <1>1. ops \in Seq(Op) /\ Len(ops) <= MaxOps /\ MaxOps \in Nat
    BY BoundsAssumption DEF TypeOK
  <1>2. Len(ops) \in Nat /\ DOMAIN ops = 1..Len(ops)
    BY <1>1, LenProperties
  <1>3. \A i \in DOMAIN ops : ops[i] \in Op
    BY <1>1, <1>2, ElementOfSeq
  <1> QED  BY <1>1, <1>2, <1>3 DEF Ids

\* Writing a row leaves the others alone.
LEMMA PutOp ==
  ASSUME TypeOK, NEW i \in DOMAIN ops, NEW op \in Op, ops' = [ops EXCEPT ![i] = op]
  PROVE  /\ ops' \in Seq(Op) /\ Len(ops') = Len(ops) /\ Len(ops') <= MaxOps
         /\ DOMAIN ops' = DOMAIN ops /\ ops'[i] = op
         /\ \A j \in DOMAIN ops : ops'[j] = IF j = i THEN op ELSE ops[j]
  <1>1. ops \in Seq(Op) /\ DOMAIN ops = 1..Len(ops) /\ Len(ops) <= MaxOps
    BY OpIds DEF TypeOK
  <1>2. ops' \in Seq(Op) /\ Len(ops') = Len(ops)
    BY <1>1, ExceptSeq
  <1>3. \A j \in DOMAIN ops : ops'[j] = IF j = i THEN op ELSE ops[j]
    BY <1>1, ExceptSeq
  <1>4. DOMAIN ops' = DOMAIN ops
    BY <1>1, <1>2, LenProperties
  <1> QED  BY <1>1, <1>2, <1>3, <1>4

\* A new row takes the next id.
LEMMA AddOp ==
  ASSUME TypeOK, NEW rows \in Seq(Op), Len(rows) = Len(ops), NEW op \in Op,
         ops' = Append(rows, op), Len(ops) < MaxOps
  PROVE  /\ ops' \in Seq(Op) /\ Len(ops') = Len(ops) + 1 /\ Len(ops') <= MaxOps
         /\ Len(ops) + 1 \in Ids /\ Len(ops) + 1 \notin DOMAIN ops
         /\ DOMAIN ops' = DOMAIN ops \cup {Len(ops) + 1} /\ DOMAIN ops \subseteq DOMAIN ops'
         /\ ops'[Len(ops) + 1] = op
         /\ \A j \in DOMAIN ops : ops'[j] = rows[j]
  <1>1. Len(ops) \in Nat /\ DOMAIN ops = 1..Len(ops) /\ MaxOps \in Nat
    BY OpIds, BoundsAssumption
  <1>2. ops' \in Seq(Op) /\ Len(ops') = Len(ops) + 1
    BY <1>1, AppendProperties
  <1>3. ops'[Len(ops) + 1] = op /\ \A j \in 1..Len(ops) : ops'[j] = rows[j]
    BY <1>1, AppendProperties
  <1>4. DOMAIN ops' = 1..(Len(ops) + 1)
    BY <1>1, <1>2, LenProperties
  <1> QED  BY <1>1, <1>2, <1>3, <1>4 DEF Ids

\* The pins are numbered like the ingress rows.
LEMMA IngressIds ==
  ASSUME TypeOK
  PROVE  /\ Len(ingress) \in Nat /\ DOMAIN ingress = 1..Len(ingress) /\ DOMAIN cache = DOMAIN ingress
         /\ DOMAIN ingress \subseteq Pins
         /\ \A p \in DOMAIN ingress : /\ ingress[p] \in Ingress \cup {None} /\ cache[p] \in Bytes
                                      /\ p \in Nat /\ p # 0
  <1>1. /\ ingress \in Seq(Ingress \cup {None}) /\ cache \in Seq(Bytes) /\ Len(cache) = Len(ingress)
        /\ Len(ingress) <= MaxEdits /\ MaxEdits \in Nat
    BY BoundsAssumption DEF TypeOK
  <1>2. Len(ingress) \in Nat /\ DOMAIN ingress = 1..Len(ingress) /\ DOMAIN cache = 1..Len(cache)
    BY <1>1, LenProperties
  <1>3. \A p \in DOMAIN ingress : ingress[p] \in Ingress \cup {None} /\ cache[p] \in Bytes
    BY <1>1, <1>2, ElementOfSeq
  <1> QED  BY <1>1, <1>2, <1>3 DEF Pins

\* Writing the row of a pin leaves the others alone.
LEMMA PutIngress ==
  ASSUME TypeOK, NEW p \in DOMAIN ingress, NEW row \in Ingress \cup {None},
         ingress' = [ingress EXCEPT ![p] = row]
  PROVE  /\ ingress' \in Seq(Ingress \cup {None}) /\ Len(ingress') = Len(ingress)
         /\ DOMAIN ingress' = DOMAIN ingress
         /\ \A q \in DOMAIN ingress : ingress'[q] = IF q = p THEN row ELSE ingress[q]
  <1>1. ingress \in Seq(Ingress \cup {None}) /\ DOMAIN ingress = 1..Len(ingress)
    BY IngressIds DEF TypeOK
  <1>2. ingress' \in Seq(Ingress \cup {None}) /\ Len(ingress') = Len(ingress)
    BY <1>1, ExceptSeq
  <1>3. \A q \in DOMAIN ingress : ingress'[q] = IF q = p THEN row ELSE ingress[q]
    BY <1>1, ExceptSeq
  <1> QED  BY <1>1, <1>2, <1>3, LenProperties

LEMMA PutCache ==
  ASSUME TypeOK, NEW p \in DOMAIN ingress, cache' = [cache EXCEPT ![p] = Absent]
  PROVE  /\ cache' \in Seq(Bytes) /\ Len(cache') = Len(cache)
         /\ \A q \in DOMAIN ingress : cache'[q] = IF q = p THEN Absent ELSE cache[q]
  <1>1. cache \in Seq(Bytes) /\ DOMAIN ingress = 1..Len(cache) /\ Absent \in Bytes
    BY IngressIds DEF TypeOK, Bytes
  <1> QED  BY <1>1, ExceptSeq

\* The row a pass visits next is the first of those left.
LEMMA RowIsLeast ==
  ASSUME todo \subseteq DOMAIN ops, TypeOK, todo # {}
  PROVE  Row \in todo /\ \A j \in todo : Row <= j
  <1>1. todo \in SUBSET (1..MaxOps) /\ MaxOps \in Nat
    BY OpIds, BoundsAssumption DEF Ids
  <1>2. \E i \in todo : \A j \in todo : i <= j
    BY <1>1, Least
  <1> QED  BY <1>2 DEF Row

-----------------------------------------------------------------------------
(***************************************************************************)
(* The shape of the state                                                   *)
(***************************************************************************)

\* The parts of a row.
LEMMA OpFields ==
  ASSUME NEW op \in Op
  PROVE  /\ op.shape \in Shapes /\ op.shape \in Shape /\ op.shape.owner \in Owners
         /\ op.shape.targets \in Seq(Target) /\ Len(op.shape.targets) \in Nat
         /\ DOMAIN op.shape.targets = 1..Len(op.shape.targets)
         /\ \A n \in DOMAIN op.shape.targets : op.shape.targets[n] \in Target
         /\ op.outcomes \in Seq(Outcome) /\ Len(op.outcomes) \in Nat
         /\ DOMAIN op.outcomes = 1..Len(op.outcomes)
         /\ \A n \in DOMAIN op.outcomes : op.outcomes[n] \in Outcome
         /\ op.pin \in Nat /\ op.heir \in Nat /\ op.content \in Contents
         /\ op.base # None => op.base \in Ledger /\ op.base.replicas \in SUBSET Replica
         /\ op.release \in SUBSET Location
  <1>1. op.shape \in Shapes /\ op.shape \in Shape
    BY ShapesAssumption DEF Op
  <1>2. op.shape.owner \in Owners /\ op.shape.targets \in Seq(Target)
    BY <1>1 DEF Shape
  <1>3. op.outcomes \in Seq(Outcome)
    BY DEF Op
  <1>4. op.pin \in Nat /\ op.heir \in Nat /\ op.content \in Contents /\ op.release \in SUBSET Location
    BY BoundsAssumption DEF Op
  <1>5. op.base # None => op.base \in Ledger /\ op.base.replicas \in SUBSET Replica
    BY DEF Op, Ledger
  <1>6. /\ Len(op.shape.targets) \in Nat /\ DOMAIN op.shape.targets = 1..Len(op.shape.targets)
        /\ \A n \in DOMAIN op.shape.targets : op.shape.targets[n] \in Target
    BY <1>2, LenProperties, ElementOfSeq
  <1>7. /\ Len(op.outcomes) \in Nat /\ DOMAIN op.outcomes = 1..Len(op.outcomes)
        /\ \A n \in DOMAIN op.outcomes : op.outcomes[n] \in Outcome
    BY <1>3, LenProperties, ElementOfSeq
  <1> QED  BY <1>1, <1>2, <1>3, <1>4, <1>5, <1>6, <1>7

\* The executor is at a step.
LEMMA WorkFields ==
  ASSUME NEW w \in Work
  PROVE  /\ w # None /\ w.id \in Ids /\ w.id \in Nat /\ w.op \in Op /\ w.at \in Steps /\ w.n \in Nat
         /\ w.found \in Bytes /\ w.left \in SUBSET Keys /\ w.key \in Keys \cup {None} /\ w.pin \in Nat
  BY RecordAssumption, BoundsAssumption DEF Work, Ids

LEMMA InitShape == Init => ShapeInv
  <1> SUFFICES ASSUME Init PROVE ShapeInv
    OBVIOUS
  <1> USE DEF Init
  <1>1. ops \in Seq(Op) /\ ingress \in Seq(Ingress \cup {None}) /\ cache \in Seq(Bytes)
        /\ Len(ops) = 0 /\ Len(ingress) = 0 /\ Len(cache) = 0 /\ DOMAIN ops = {}
    BY EmptySeq
  <1>2. /\ Len(ops) <= MaxOps /\ Len(ingress) <= MaxEdits /\ Len(cache) = Len(ingress)
        /\ 0 \in 0..MaxForeign /\ 0 \in 0..MaxFaults
    BY <1>1, BoundsAssumption
  <1>3. owners \in [Owners -> Ledger \cup {None}] /\ disk \in [Keys -> Bytes] /\ touched \in [Keys -> BOOLEAN]
        /\ staged \in [Ids -> Bytes] /\ placed \subseteq Keys \X Contents /\ trash \subseteq Item
    BY DiskAssumption DEF Bytes
  <1>4. TypeOK
    BY <1>1, <1>2, <1>3 DEF TypeOK
  <1> QED  BY <1>1, <1>4 DEF ShapeInv, JournalShaped, WorkShaped, LockShaped

\* A row is written again with the same plan.
LEMMA RowWritten ==
  ASSUME ShapeInv, NEW i \in DOMAIN ops, NEW op \in Op, ops' = [ops EXCEPT ![i] = op],
         Len(ingress') = Len(ingress), op.shape = ops[i].shape, op.pin = ops[i].pin,
         op.heir = 0 \/ (op.heir = ops[i].heir /\ op.state = "cancelled"),
         Len(op.outcomes) <= Len(op.shape.targets),
         op.base = None => op.outcomes = <<>> /\ op.state # "complete"
  PROVE  JournalShaped'
  <1>1. /\ DOMAIN ops' = DOMAIN ops /\ ops'[i] = op /\ \A j \in DOMAIN ops : ops'[j] = IF j = i THEN op ELSE ops[j]
    BY PutOp DEF ShapeInv
  <1>2. ASSUME NEW j \in DOMAIN ops'
        PROVE  /\ ops'[j].pin <= Len(ingress') /\ Len(ops'[j].outcomes) <= Len(ops'[j].shape.targets)
               /\ ops'[j].base = None => ops'[j].outcomes = <<>> /\ ops'[j].state # "complete"
    BY <1>1 DEF ShapeInv, JournalShaped
  <1>3. ASSUME NEW j \in DOMAIN ops', ops'[j].heir # 0
        PROVE  /\ ops'[j].state = "cancelled" /\ ops'[j].heir \in DOMAIN ops' /\ ops'[j].heir > j
               /\ ops'[ops'[j].heir].shape.owner = ops'[j].shape.owner
    <2>1. ops'[j].heir = ops[j].heir /\ ops[j].heir # 0 /\ ops'[j].state = "cancelled"
      BY <1>1, <1>3 DEF ShapeInv, JournalShaped
    <2>2. PICK h \in DOMAIN ops : h = ops[j].heir /\ h > j /\ ops[h].shape.owner = ops[j].shape.owner
      BY <1>1, <2>1 DEF ShapeInv, JournalShaped
    <2>3. ops'[h].shape = ops[h].shape /\ ops'[j].shape = ops[j].shape
      BY <1>1
    <2> QED  BY <1>1, <2>1, <2>2, <2>3
  <1> QED  BY <1>2, <1>3 DEF JournalShaped

\* The executor gives up an operation: its row says why, the lock is free.
LEMMA LeaveShape ==
  ASSUME ShapeInv, work # None, work.at \in Locked,
         NEW s \in {"pending", "blocked"}, NEW w \in BOOLEAN,
         Leave([work.op EXCEPT !.state = s, !.waiting = w]),
         UNCHANGED <<owners, ingress, cache, todo, placed, touched>>,
         staged' \in [Ids -> Bytes], disk' \in [Keys -> Bytes], trash' \subseteq Item,
         spent' \in [foreign: 0..MaxForeign, faults: 0..MaxFaults, late: SUBSET Ids,
                     acked: SUBSET [pin: Pins, owner: Owners, content: Contents]]
  PROVE  ShapeInv'
  <1> DEFINE op == [work.op EXCEPT !.state = s, !.waiting = w]
  <1>1. work \in Work /\ work.op \in Op /\ work.id \in DOMAIN ops /\ Alike(work.op, ops[work.id])
    BY WorkFields DEF ShapeInv, WorkShaped, TypeOK
  <1>2. /\ op \in Op /\ op.shape = work.op.shape /\ op.pin = work.op.pin /\ op.heir = work.op.heir
        /\ op.outcomes = work.op.outcomes /\ op.base = work.op.base /\ op.state \in {"pending", "blocked"}
    <2>1. s \in {"pending", "running", "blocked", "complete", "cancelled"}
      OBVIOUS
    <2>2. op \in Op /\ op.state = s
      BY <1>1, <2>1 DEF Op
    <2>3. /\ op.shape = work.op.shape /\ op.pin = work.op.pin /\ op.heir = work.op.heir
          /\ op.outcomes = work.op.outcomes /\ op.base = work.op.base
      BY <1>1 DEF Op
    <2> QED  BY <2>2, <2>3
  <1>3. ops' = [ops EXCEPT ![work.id] = op] /\ work' = None /\ lock' = "free" /\ held' = held \cup {op.shape.owner}
    BY DEF Leave
  <1> HIDE DEF op
  <1>4. work.op.heir = 0 /\ Len(work.op.outcomes) <= Len(work.op.shape.targets)
    BY <1>1 DEF ShapeInv, WorkShaped, JournalShaped, Alike
  <1>5. JournalShaped'
    <2>1. op.base = None => op.outcomes = <<>> /\ op.state # "complete"
      BY <1>1, <1>2 DEF ShapeInv, JournalShaped, Alike
    <2> QED  BY <1>1, <1>2, <1>3, <1>4, <2>1, RowWritten DEF Alike
  <1>6. ops' \in Seq(Op) /\ Len(ops') <= MaxOps /\ DOMAIN ops' = DOMAIN ops
    BY <1>1, <1>2, <1>3, PutOp DEF ShapeInv
  <1>7. held' \subseteq Owners
    BY <1>1, <1>2, <1>3, OpFields DEF ShapeInv, TypeOK
  <1>8. TypeOK'
    BY <1>3, <1>6, <1>7 DEF ShapeInv, TypeOK
  <1> QED  BY <1>3, <1>5, <1>6, <1>8 DEF ShapeInv, WorkShaped, LockShaped

LEMMA BlockShape ==
  ASSUME ShapeInv, work # None, work.at \in Locked, Block,
         UNCHANGED <<owners, ingress, cache, disk, trash, todo, placed, touched, spent>>,
         staged' \in [Ids -> Bytes]
  PROVE  ShapeInv'
  <1>2. disk' \in [Keys -> Bytes] /\ trash' \subseteq Item
    BY DEF ShapeInv, TypeOK
  <1>1. spent' \in [foreign: 0..MaxForeign, faults: 0..MaxFaults, late: SUBSET Ids,
                     acked: SUBSET [pin: Pins, owner: Owners, content: Contents]]
    BY DEF ShapeInv, TypeOK
  <1> QED  BY <1>1, <1>2, LeaveShape DEF Block

\* The executor moves on, and saves its row or leaves the journal alone: all of
\* the shape but what the next step holds.
LEMMA SaveShape ==
  ASSUME ShapeInv, work # None, NEW op \in Op, NEW w \in Work, work' = w, w.id = work.id, w.op = op, w.n > 0,
         work.at \in Locked \cup {"queued"},
         \/ ops' = [ops EXCEPT ![work.id] = op]
         \/ ops' = ops /\ op = work.op,
         op.shape = work.op.shape, op.content = work.op.content, op.pin = work.op.pin, op.heir = work.op.heir,
         op.release = work.op.release, op.base # None,
         Len(op.outcomes) <= Len(op.shape.targets),
         lock' = "executor", w.at # "queued",
         UNCHANGED <<ingress, cache, todo, held>>,
         owners' \in [Owners -> Ledger \cup {None}], staged' \in [Ids -> Bytes], disk' \in [Keys -> Bytes], trash' \subseteq Item,
         placed' \subseteq Keys \X Contents, touched' \in [Keys -> BOOLEAN], spent' = spent
  PROVE  /\ TypeOK' /\ JournalShaped' /\ LockShaped' /\ todo' \subseteq DOMAIN ops'
         /\ DOMAIN ops' = DOMAIN ops /\ w.id \in DOMAIN ops' /\ Alike(op, ops'[w.id])
         /\ ops' # ops => ops'[w.id] = op
         /\ ops'[w.id].state \in {op.state, ops[w.id].state}
  <1>1. work \in Work /\ work.op \in Op /\ work.id \in DOMAIN ops /\ Alike(work.op, ops[work.id]) /\ work.op.heir = 0
    BY WorkFields DEF ShapeInv, WorkShaped, TypeOK
  <1>0. LockShaped'
    BY WorkFields DEF LockShaped
  <1>2. CASE ops' = [ops EXCEPT ![work.id] = op]
    <2>1. /\ ops' \in Seq(Op) /\ Len(ops') <= MaxOps /\ DOMAIN ops' = DOMAIN ops /\ ops'[work.id] = op
      BY <1>1, <1>2, PutOp DEF ShapeInv
    <2>2. JournalShaped'
      BY <1>1, <1>2, RowWritten DEF Alike
    <2>3. TypeOK'
      BY <2>1 DEF ShapeInv, TypeOK
    <2> QED  BY <1>0, <1>1, <2>1, <2>2, <2>3 DEF ShapeInv, Alike
  <1>3. CASE ops' = ops /\ op = work.op
    <2>1. TypeOK' /\ JournalShaped'
      BY <1>3 DEF ShapeInv, TypeOK, JournalShaped
    <2> QED  BY <1>0, <1>1, <1>3, <2>1 DEF ShapeInv
  <1> QED  BY <1>2, <1>3

\* What others write to the journal while the executor stands at a step.
LEMMA WorkKept ==
  ASSUME ShapeInv, work' = work, staged' = staged, lock' = lock \/ lock # "executor",
         work # None =>
           /\ work.id \in DOMAIN ops'
           /\ Alike(ops[work.id], ops'[work.id])
           /\ ops'[work.id].state = "complete" => ops[work.id].state = "complete"
           /\ Terminal(ops[work.id]) => ops'[work.id] = ops[work.id]
  PROVE  WorkShaped'
  <1> SUFFICES ASSUME work # None PROVE WorkShaped'
    BY DEF WorkShaped
  <1>1. /\ work.id \in DOMAIN ops' /\ work.n > 0 /\ Alike(work.op, ops'[work.id])
    BY DEF ShapeInv, WorkShaped, Alike
  <1>2. work.at \in Locked => lock' = "executor" /\ work.op.base # None
    BY DEF ShapeInv, WorkShaped
  <1>3. work.at \in Locked \cup {"queued"} =>
          work.op.state = "running" /\ ~work.op.waiting /\ work.op.heir = 0 /\ ops'[work.id].state # "complete"
    BY DEF ShapeInv, WorkShaped
  <1>4. work.at \in Cleaning => Terminal(work.op) /\ ops'[work.id] = work.op
    BY DEF ShapeInv, WorkShaped
  <1>5. work.at \in Locked \ {"stage", "staged"} /\ NeedsBytes' => staged'[work.id] = work.op.content
    BY DEF ShapeInv, WorkShaped, NeedsBytes
  <1>6. work.at \in {"ask", "keep", "unlink", "delete"} =>
         work.key \in Keys \ (Outcomes(work.op) \cup work.op.shape.preserve) /\ Mirrors(work.key)' # {}
    BY DEF ShapeInv, WorkShaped, Mirrors
  <1>7. /\ work.at \in {"write", "retain", "capture", "publish", "replace", "verify"} => work.n \in DOMAIN work.op.shape.targets /\ work.n \in DOMAIN work.op.outcomes
        /\ work.at = "restore" => work.key \in Keys
        /\ work.at = "drop" => work.key \in ReleaseKeys(work.op)
        /\ work.at = "dropingress" => work.pin \in 1..work.op.pin /\ work.op.state = "complete"
        /\ work.at = "droppin" => work.op.pin # 0
    BY DEF ShapeInv, WorkShaped
  <1> QED  BY <1>1, <1>2, <1>3, <1>4, <1>5, <1>6, <1>7 DEF WorkShaped, Outcomes, ReleaseKeys, Terminal

\* A row is appended, and rows before it may change their state.
LEMMA RowAdded ==
  ASSUME ShapeInv, NEW rows \in Seq(Op), Len(rows) = Len(ops), NEW r \in Op, ops' = Append(rows, r), Len(ops) < MaxOps,
         Len(ingress') = Len(ingress), r.pin <= Len(ingress),
         r.base = None, r.outcomes = <<>>, r.state = "pending", r.heir = 0,
         \A i \in DOMAIN ops : /\ Alike(ops[i], rows[i])
                               /\ rows[i].state = "complete" => ops[i].state = "complete"
                               /\ Terminal(ops[i]) => rows[i] = ops[i]
                               /\ rows[i].heir \in {ops[i].heir, Len(ops) + 1}
                               /\ rows[i].heir # 0 => rows[i].state = "cancelled"
                               /\ rows[i].heir = Len(ops) + 1 => r.shape.owner = ops[i].shape.owner
  PROVE  JournalShaped' /\ ops' \in Seq(Op) /\ Len(ops') <= MaxOps /\ DOMAIN ops \subseteq DOMAIN ops'
  <1> DEFINE new == Len(ops) + 1
  <1>1. /\ ops' \in Seq(Op) /\ Len(ops') <= MaxOps /\ DOMAIN ops \subseteq DOMAIN ops'
        /\ DOMAIN ops' = DOMAIN ops \cup {new} /\ ops'[new] = r /\ \A j \in DOMAIN ops : ops'[j] = rows[j]
    BY AddOp DEF ShapeInv
  <1>2. /\ new \in Nat /\ new # 0 /\ DOMAIN ops = 1..Len(ops) /\ Len(ops) \in Nat
        /\ Len(r.shape.targets) \in Nat /\ Len(r.outcomes) = 0
    BY OpIds, OpFields, EmptySeq DEF ShapeInv
  <1> HIDE DEF new
  <1>3. ASSUME NEW j \in DOMAIN ops'
        PROVE  /\ ops'[j].pin <= Len(ingress') /\ Len(ops'[j].outcomes) <= Len(ops'[j].shape.targets)
               /\ ops'[j].base = None => ops'[j].outcomes = <<>> /\ ops'[j].state # "complete"
    <2>1. CASE j = new
      BY <1>1, <1>2, <2>1
    <2>2. CASE j \in DOMAIN ops
      <3>1. ops'[j] = rows[j] /\ Alike(ops[j], rows[j]) /\ (rows[j].state = "complete" => ops[j].state = "complete")
        BY <1>1, <2>2
      <3> QED  BY <2>2, <3>1 DEF ShapeInv, JournalShaped, Alike
    <2> QED  BY <1>1, <2>1, <2>2
  <1>4. ASSUME NEW j \in DOMAIN ops', ops'[j].heir # 0
        PROVE  /\ ops'[j].state = "cancelled" /\ ops'[j].heir \in DOMAIN ops' /\ ops'[j].heir > j
               /\ ops'[ops'[j].heir].shape.owner = ops'[j].shape.owner
    <2>1. j # new /\ j \in DOMAIN ops
      BY <1>1, <1>4
    <2>2. ops'[j] = rows[j] /\ rows[j].shape = ops[j].shape /\ rows[j].state = "cancelled"
      BY <1>1, <1>4, <2>1 DEF Alike
    <2>3. CASE rows[j].heir = new
      BY <1>1, <1>2, <2>1, <2>2, <2>3 DEF new
    <2>4. CASE rows[j].heir = ops[j].heir
      <3>1. PICK h \in DOMAIN ops : h = ops[j].heir /\ h > j /\ ops[h].shape.owner = ops[j].shape.owner
        BY <1>4, <2>1, <2>2, <2>4 DEF ShapeInv, JournalShaped
      <3>2. ops'[h].shape = ops[h].shape
        BY <1>1, <3>1 DEF Alike
      <3> QED  BY <1>1, <2>1, <2>2, <2>4, <3>1, <3>2
    <2> QED  BY <2>1, <2>3, <2>4 DEF new
  <1> QED  BY <1>1, <1>3, <1>4 DEF JournalShaped

\* What callers hand in: a plan, and bytes at one of its endpoints or in the
\* pin of an edit of its owner.
LEMMA Receipts ==
  ASSUME TypeOK, NEW r \in NewReceipts
  PROVE  /\ r \in Op /\ r.state = "pending" /\ r.base = None /\ r.outcomes = <<>> /\ r.heir = 0
         /\ ~r.pinned /\ ~r.waiting /\ ~r.cleaned /\ r.pin <= Len(ingress)
         /\ \/ r.pin = 0 /\ r.source \in r.shape.from /\ disk[r.source] = r.content
            \/ /\ r.source = None /\ r.pin \in DOMAIN ingress /\ ingress[r.pin] # None
               /\ ingress[r.pin].owner = r.shape.owner /\ ingress[r.pin].content = r.content
         /\ \A l \in r.release : r.shape.releases /\ l.key = r.source /\ l.content = r.content /\ r.source # None
  <1>0. PICK s \in Shapes : \E f \in Offers(s) : r = Receipt(s, f.content, f.source, f.pin)
    BY DEF NewReceipts
  <1>1. PICK f \in Offers(s) : r = Receipt(s, f.content, f.source, f.pin)
    BY <1>0
  <1>2. s \in Shape /\ s.from \subseteq Keys
    BY ShapesAssumption, DiskAssumption DEF Shape
  <1>3. /\ f.source \in Keys \cup {None} /\ f.pin \in 0..MaxEdits /\ f.content \in Contents /\ f.pin <= Len(ingress)
        /\ \/ f.pin = 0 /\ f.source \in s.from /\ disk[f.source] = f.content
           \/ /\ f.source = None /\ f.pin \in DOMAIN ingress /\ ingress[f.pin] # None
              /\ ingress[f.pin].owner = s.owner /\ ingress[f.pin].content = f.content
    <2>1. CASE \E k \in {x \in s.from : disk[x] # Absent} : f = [source |-> k, pin |-> 0, content |-> disk[k]]
      <3>1. PICK k \in s.from : disk[k] # Absent /\ f = [source |-> k, pin |-> 0, content |-> disk[k]]
        BY <2>1
      <3>2. f.source = k /\ f.pin = 0 /\ f.content = disk[k] /\ k \in Keys
        BY <3>1, <1>2
      <3>3. disk[k] \in Contents
        BY <3>1, <3>2 DEF TypeOK, Bytes
      <3>4. Len(ingress) \in Nat /\ 0 \in 0..MaxEdits
        BY IngressIds, BoundsAssumption
      <3> QED  BY <3>1, <3>2, <3>3, <3>4
    <2>2. CASE \E p \in {q \in DOMAIN ingress : ingress[q] # None /\ ingress[q].owner = s.owner} :
                 f = [source |-> None, pin |-> p, content |-> ingress[p].content]
      <3>1. PICK p \in DOMAIN ingress : /\ ingress[p] # None /\ ingress[p].owner = s.owner
                                        /\ f = [source |-> None, pin |-> p, content |-> ingress[p].content]
        BY <2>2
      <3>2. f.source = None /\ f.pin = p /\ f.content = ingress[p].content
        BY <3>1
      <3>3. ingress[p] \in Ingress /\ p \in 0..MaxEdits /\ p <= Len(ingress)
        BY <3>1, IngressIds DEF Pins, TypeOK
      <3>4. ingress[p].content \in Contents
        BY <3>3 DEF Ingress
      <3> QED  BY <3>1, <3>2, <3>3, <3>4
    <2> QED  BY <1>1, <2>1, <2>2 DEF Offers
  <1>4. /\ r.shape = s /\ r.content = f.content /\ r.source = f.source /\ r.pin = f.pin /\ r.state = "pending"
        /\ r.base = None /\ r.outcomes = <<>> /\ r.heir = 0 /\ r.pinned = FALSE /\ r.waiting = FALSE /\ r.cleaned = FALSE
        /\ r.release = IF s.releases /\ f.source # None THEN {[key |-> f.source, content |-> f.content]} ELSE {}
    BY <1>1 DEF Receipt
  <1>5. r.release \in SUBSET Location
    BY <1>3, <1>4 DEF Location
  <1>6. r \in Op
    <2>1. <<>> \in Seq(Outcome) /\ 0 \in 0..MaxOps
      BY EmptySeq, BoundsAssumption
    <2>2. PICK freed \in SUBSET Location : freed = r.release
      BY <1>5
    <2>3. r = [shape |-> s, content |-> f.content, source |-> f.source, pin |-> f.pin, state |-> "pending",
               release |-> freed, base |-> None, outcomes |-> <<>>, pinned |-> FALSE, heir |-> 0,
               waiting |-> FALSE, cleaned |-> FALSE]
      BY <1>1, <1>4, <2>2 DEF Receipt
    <2> QED  BY <1>3, <2>1, <2>3 DEF Op
  <1> QED  BY <1>3, <1>4, <1>6

\* The same with what the plan it replaces had to release.
LEMMA ReceiptGrown ==
  ASSUME NEW r \in Op, NEW more \in SUBSET Location
  PROVE  LET g == [r EXCEPT !.release = @ \cup more] IN
         /\ g \in Op /\ g.release = r.release \cup more
         /\ g.shape = r.shape /\ g.content = r.content /\ g.source = r.source /\ g.pin = r.pin
         /\ g.state = r.state /\ g.base = r.base /\ g.outcomes = r.outcomes /\ g.heir = r.heir
         /\ g.pinned = r.pinned /\ g.waiting = r.waiting /\ g.cleaned = r.cleaned
  BY DEF Op

LEMMA AcceptedType ==
  ASSUME TypeOK, NEW r, Accepted(r), Len(ops) < MaxOps
  PROVE  /\ spent' \in [foreign: 0..MaxForeign, faults: 0..MaxFaults, late: SUBSET Ids,
                        acked: SUBSET [pin: Pins, owner: Owners, content: Contents]]
         /\ spent'.acked = spent.acked
         /\ spent'.late = IF Doomed(r) THEN spent.late \cup {Len(ops) + 1} ELSE spent.late
  <1>1. Len(ops) + 1 \in Ids
    BY OpIds, BoundsAssumption DEF Ids
  <1>2. CASE Doomed(r)
    BY <1>1, <1>2 DEF Accepted, TypeOK
  <1>3. CASE ~Doomed(r)
    BY <1>3 DEF Accepted, TypeOK
  <1> QED  BY <1>2, <1>3

LEMMA SubmitShape ==
  ASSUME ShapeInv, NEW r \in NewReceipts, Submit(r)
  PROVE  ShapeInv'
  <1> USE DEF Submit, executor
  <1>1. /\ r \in Op /\ r.state = "pending" /\ r.base = None /\ r.outcomes = <<>> /\ r.heir = 0 /\ r.pin <= Len(ingress)
    BY Receipts DEF ShapeInv
  <1>2. ops \in Seq(Op) /\ \A i \in DOMAIN ops : Alike(ops[i], ops[i]) /\ ops[i].heir # Len(ops) + 1
    BY OpIds DEF ShapeInv, TypeOK, Alike, JournalShaped
  <1>3. \A i \in DOMAIN ops : ops[i].heir # 0 => ops[i].state = "cancelled"
    BY DEF ShapeInv, JournalShaped
  <1>4. JournalShaped' /\ ops' \in Seq(Op) /\ Len(ops') <= MaxOps /\ DOMAIN ops \subseteq DOMAIN ops'
    BY <1>1, <1>2, <1>3, RowAdded
  <1>5. /\ DOMAIN ops' = DOMAIN ops \cup {Len(ops) + 1} /\ ops'[Len(ops) + 1] = r
        /\ \A j \in DOMAIN ops : ops'[j] = ops[j]
    BY <1>1, <1>2, AddOp DEF ShapeInv
  <1>6. WorkShaped'
    BY <1>4, <1>5, <1>2, WorkKept DEF ShapeInv, WorkShaped
  <1>7. TypeOK'
    BY <1>4, AcceptedType DEF ShapeInv, TypeOK
  <1>8. LockShaped'
    BY <1>1, <1>5 DEF ShapeInv, LockShaped, Terminal
  <1> QED  BY <1>4, <1>6, <1>7, <1>8 DEF ShapeInv

LEMMA EntryType ==
  ASSUME TypeOK, NEW o \in Owners
  PROVE  /\ Entry(o) \in Ledger /\ Replicas(o) \in SUBSET Replica /\ Entry(o).op \in Nat
         /\ owners[o] # None => Entry(o) = owners[o]
         /\ owners[o] = None => Replicas(o) = {} /\ Entry(o).op = 0
  <1>1. owners[o] \in Ledger \cup {None} /\ 0 \in 0..MaxOps
    BY BoundsAssumption DEF TypeOK
  <1> QED  BY <1>1, BoundsAssumption DEF Entry, Replicas, Ledger

\* What a successor starts from: what the owner has, and what landed.
LEMMA InheritedType ==
  ASSUME TypeOK, NEW op \in Op
  PROVE  /\ Inherited(op) \in SUBSET Replica
         /\ \A r \in Inherited(op) :
              \/ r \in Replicas(op.shape.owner)
              \/ owners[op.shape.owner] = None /\ op.base # None /\ r \in op.base.replicas
              \/ \E n \in DOMAIN op.outcomes :
                   /\ disk[op.outcomes[n].key] = op.content
                   /\ r = [key |-> op.outcomes[n].key, asked |-> op.outcomes[n].asked, content |-> op.content,
                           managed |-> op.outcomes[n].managed, mirror |-> op.outcomes[n].mirror]
  <1> DEFINE new(n) == [key |-> op.outcomes[n].key, asked |-> op.outcomes[n].asked, content |-> op.content,
                        managed |-> op.outcomes[n].managed, mirror |-> op.outcomes[n].mirror]
  <1>1. /\ op.shape.owner \in Owners /\ op.content \in Contents
        /\ \A n \in DOMAIN op.outcomes : op.outcomes[n] \in Outcome
        /\ op.base # None => op.base.replicas \in SUBSET Replica
    BY OpFields
  <1>2. \A n \in DOMAIN op.outcomes : new(n) \in Replica
    BY <1>1 DEF Replica, Outcome
  <1>3. Replicas(op.shape.owner) \in SUBSET Replica
    BY <1>1, EntryType
  <1>4. \A r \in Inherited(op) :
              \/ r \in Replicas(op.shape.owner)
              \/ owners[op.shape.owner] = None /\ op.base # None /\ r \in op.base.replicas
              \/ \E n \in DOMAIN op.outcomes : disk[op.outcomes[n].key] = op.content /\ r = new(n)
    BY DEF Inherited
  <1>5. Inherited(op) \in SUBSET Replica
    <2> HIDE DEF new
    <2> QED  BY <1>1, <1>2, <1>3, <1>4
  <1> QED  BY <1>4, <1>5

LEMMA SupersedeShape ==
  ASSUME ShapeInv, NEW r \in NewReceipts, NEW i \in DOMAIN ops, Supersede(i, r)
  PROVE  ShapeInv'
  <1> DEFINE g == [r EXCEPT !.release = @ \cup ops[i].release]
  <1>1. /\ r \in Op /\ r.state = "pending" /\ r.base = None /\ r.outcomes = <<>> /\ r.heir = 0 /\ r.pin <= Len(ingress)
    BY Receipts DEF ShapeInv
  <1>2. ops \in Seq(Op) /\ ops[i] \in Op /\ ops[i].release \in SUBSET Location
    BY OpIds, OpFields DEF ShapeInv, TypeOK
  <1>3. /\ g \in Op /\ g.shape = r.shape /\ g.state = "pending" /\ g.base = None /\ g.outcomes = <<>>
        /\ g.heir = 0 /\ g.pin = r.pin
    BY <1>1, <1>2, ReceiptGrown
  <1>4. \A j \in DOMAIN ops : /\ Alike(ops[j], ops[j]) /\ ops[j].heir # Len(ops) + 1
                              /\ ops[j].heir # 0 => ops[j].state = "cancelled"
    BY OpIds DEF ShapeInv, Alike, JournalShaped
  <1>5. /\ lock = "free" /\ Len(ops) < MaxOps /\ ops[i].shape.owner = r.shape.owner /\ Accepted(r)
        /\ UNCHANGED <<ingress, cache, staged, disk, trash, lock, executor, touched>>
    BY DEF Supersede
  <1>6. /\ spent' \in [foreign: 0..MaxForeign, faults: 0..MaxFaults, late: SUBSET Ids,
                        acked: SUBSET [pin: Pins, owner: Owners, content: Contents]]
    BY <1>5, AcceptedType DEF ShapeInv
  <1>7. CASE ops[i].state = "complete" /\ ops' = Append(ops, g) /\ UNCHANGED <<owners, placed>>
    <2> HIDE DEF g
    <2>1. JournalShaped' /\ ops' \in Seq(Op) /\ Len(ops') <= MaxOps /\ DOMAIN ops \subseteq DOMAIN ops'
      BY <1>1, <1>2, <1>3, <1>4, <1>5, <1>7, RowAdded
    <2>2. /\ DOMAIN ops' = DOMAIN ops \cup {Len(ops) + 1} /\ ops'[Len(ops) + 1] = g
          /\ \A j \in DOMAIN ops : ops'[j] = ops[j]
      BY <1>2, <1>3, <1>5, <1>7, AddOp DEF ShapeInv
    <2>3. WorkShaped'
      BY <2>1, <2>2, <1>4, <1>5, WorkKept DEF ShapeInv, WorkShaped, executor
    <2>4. TypeOK'
      BY <2>1, <1>5, <1>6, <1>7 DEF ShapeInv, TypeOK, executor
    <2> QED  BY <1>5, <2>1, <2>2, <2>3, <2>4 DEF ShapeInv, LockShaped, executor
  <1>8. CASE /\ i \in Open
             /\ ops' = Append([ops EXCEPT ![i].state = "cancelled", ![i].heir = Len(ops) + 1], g)
             /\ owners' = [owners EXCEPT ![r.shape.owner] = [Entry(r.shape.owner) EXCEPT !.replicas = Inherited(ops[i])]]
             /\ placed' = placed \cup {<<x.key, x.content>> : x \in {y \in Inherited(ops[i]) : y.managed}}
    <2> HIDE DEF g
    <2> DEFINE rows == [ops EXCEPT ![i].state = "cancelled", ![i].heir = Len(ops) + 1]
    <2> DEFINE row == [ops[i] EXCEPT !.state = "cancelled", !.heir = Len(ops) + 1]
    <2>1. Len(ops) + 1 \in 0..MaxOps /\ Len(ops) + 1 # 0
      BY <1>5, OpIds, BoundsAssumption DEF ShapeInv
    <2>2. /\ row \in Op /\ Alike(ops[i], row) /\ row.state = "cancelled" /\ row.heir = Len(ops) + 1
      BY <1>2, <2>1 DEF Op, Alike
    <2>3. rows = [ops EXCEPT ![i] = row]
      OBVIOUS
    <2> HIDE DEF rows, row
    <2>4. rows \in Seq(Op) /\ Len(rows) = Len(ops) /\ \A j \in DOMAIN ops : rows[j] = IF j = i THEN row ELSE ops[j]
      BY <1>2, <2>2, <2>3, ExceptSeq
    <2>5. ~Terminal(ops[i])
      BY <1>8 DEF Open
    <2>6. \A j \in DOMAIN ops : /\ Alike(ops[j], rows[j])
                                /\ rows[j].state = "complete" => ops[j].state = "complete"
                                /\ Terminal(ops[j]) => rows[j] = ops[j]
                                /\ rows[j].heir \in {ops[j].heir, Len(ops) + 1}
                                /\ rows[j].heir # 0 => rows[j].state = "cancelled"
                                /\ rows[j].heir = Len(ops) + 1 => g.shape.owner = ops[j].shape.owner
      BY <1>3, <1>4, <1>5, <2>2, <2>4, <2>5
    <2>7. ops' = Append(rows, g)
      BY <1>8 DEF rows
    <2>8. JournalShaped' /\ ops' \in Seq(Op) /\ Len(ops') <= MaxOps /\ DOMAIN ops \subseteq DOMAIN ops'
      BY <1>1, <1>3, <1>5, <2>4, <2>6, <2>7, RowAdded
    <2>9. \A j \in DOMAIN ops : ops'[j] = rows[j]
      BY <1>3, <1>5, <2>4, <2>7, AddOp DEF ShapeInv
    <2>10. WorkShaped'
      BY <2>6, <2>8, <2>9, <1>5, WorkKept DEF ShapeInv, WorkShaped, executor
    <2>11. r.shape.owner \in Owners /\ Inherited(ops[i]) \in SUBSET Replica
      BY <1>1, <1>2, OpFields, InheritedType DEF ShapeInv
    <2>12. owners' \in [Owners -> Ledger \cup {None}]
      <3>1. Entry(r.shape.owner) \in Ledger
        BY <2>11, EntryType DEF ShapeInv
      <3>2. [Entry(r.shape.owner) EXCEPT !.replicas = Inherited(ops[i])] \in Ledger
        BY <2>11, <3>1 DEF Ledger
      <3> QED  BY <1>8, <2>11, <3>2 DEF ShapeInv, TypeOK
    <2>13. placed' \subseteq Keys \X Contents
      BY <1>8, <2>11 DEF ShapeInv, TypeOK, Replica
    <2>14. TypeOK'
      BY <2>8, <2>12, <2>13, <1>5, <1>6 DEF ShapeInv, TypeOK, executor
    <2> QED  BY <1>5, <2>8, <2>10, <2>14 DEF ShapeInv, LockShaped, executor
  <1> QED  BY <1>7, <1>8 DEF Supersede

LEMMA RetryShape ==
  ASSUME ShapeInv, NEW i \in DOMAIN ops, Retry(i)
  PROVE  ShapeInv'
  <1> USE DEF Retry, executor
  <1> DEFINE op == [ops[i] EXCEPT !.state = "pending", !.waiting = FALSE]
  <1>1. ops[i] \in Op /\ ~Terminal(ops[i]) /\ ops[i].heir = 0
    BY OpIds DEF ShapeInv, Open, JournalShaped, Terminal
  <1>2. /\ op \in Op /\ op.shape = ops[i].shape /\ op.pin = ops[i].pin /\ op.heir = ops[i].heir /\ op.outcomes = ops[i].outcomes
        /\ op.base = ops[i].base /\ op.state = "pending"
        /\ ~ops[i].waiting => Alike(ops[i], op)
    BY <1>1 DEF Op, Alike
  <1>3. ops' = [ops EXCEPT ![i] = op]
    OBVIOUS
  <1> HIDE DEF op
  <1>4. JournalShaped'
    BY <1>1, <1>2, <1>3, RowWritten DEF ShapeInv, JournalShaped
  <1>5. /\ ops' \in Seq(Op) /\ Len(ops') <= MaxOps /\ DOMAIN ops' = DOMAIN ops
        /\ \A j \in DOMAIN ops : ops'[j] = IF j = i THEN op ELSE ops[j]
    BY <1>2, <1>3, PutOp DEF ShapeInv
  <1>6. work # None /\ work.id = i => ~ops[i].waiting
    BY <1>1, WorkFields DEF ShapeInv, WorkShaped, Steps, Swaps, Locked, Cleaning, Alike, TypeOK
  <1>7. WorkShaped'
    <2> SUFFICES ASSUME work # None PROVE WorkShaped'
      BY DEF WorkShaped
    <2>1. work.id \in DOMAIN ops' /\ Alike(ops[work.id], ops[work.id])
      BY <1>5 DEF ShapeInv, WorkShaped, Alike
    <2>2. CASE work.id = i
      BY <1>1, <1>2, <1>5, <1>6, <2>1, <2>2, WorkKept
    <2>3. CASE work.id # i
      BY <1>5, <2>1, <2>3, WorkKept
    <2> QED  BY <2>2, <2>3
  <1>8. TypeOK'
    BY <1>5 DEF ShapeInv, TypeOK
  <1>9. LockShaped'
    BY <1>2, <1>5 DEF ShapeInv, LockShaped, Terminal
  <1> QED  BY <1>4, <1>5, <1>7, <1>8, <1>9 DEF ShapeInv

LEMMA ElapseShape ==
  ASSUME ShapeInv, NEW i \in DOMAIN ops, Elapse(i)
  PROVE  ShapeInv'
  <1> USE DEF Elapse, executor
  <1> DEFINE op == [ops[i] EXCEPT !.waiting = FALSE]
  <1>1. ops[i] \in Op /\ (ops[i].heir # 0 => ops[i].state = "cancelled")
    BY OpIds DEF ShapeInv, JournalShaped
  <1>2. /\ op \in Op /\ op.shape = ops[i].shape /\ op.pin = ops[i].pin /\ op.heir = ops[i].heir /\ op.outcomes = ops[i].outcomes
        /\ op.base = ops[i].base /\ op.state = ops[i].state
    BY <1>1 DEF Op
  <1>3. ops' = [ops EXCEPT ![i] = op]
    OBVIOUS
  <1> HIDE DEF op
  <1>4. JournalShaped'
    BY <1>1, <1>2, <1>3, RowWritten DEF ShapeInv, JournalShaped
  <1>5. /\ ops' \in Seq(Op) /\ Len(ops') <= MaxOps /\ DOMAIN ops' = DOMAIN ops
        /\ \A j \in DOMAIN ops : ops'[j] = IF j = i THEN op ELSE ops[j]
    BY <1>2, <1>3, PutOp DEF ShapeInv
  <1>7. WorkShaped'
    BY <1>5, WorkKept DEF ShapeInv, WorkShaped, Alike
  <1>8. TypeOK'
    BY <1>5 DEF ShapeInv, TypeOK
  <1>9. LockShaped'
    BY <1>2, <1>5 DEF ShapeInv, LockShaped, Terminal
  <1> QED  BY <1>4, <1>5, <1>7, <1>8, <1>9 DEF ShapeInv

LEMMA FaultType ==
  ASSUME TypeOK, spent.faults < MaxFaults, spent' = [spent EXCEPT !.faults = @ + 1]
  PROVE  spent' \in [foreign: 0..MaxForeign, faults: 0..MaxFaults, late: SUBSET Ids,
                     acked: SUBSET [pin: Pins, owner: Owners, content: Contents]]
  <1>1. MaxFaults \in Nat /\ spent.faults \in 0..MaxFaults
    BY BoundsAssumption DEF TypeOK
  <1>2. spent.faults + 1 \in 0..MaxFaults
    BY <1>1
  <1> QED  BY <1>2 DEF TypeOK

LEMMA CrashShape ==
  ASSUME ShapeInv, Crash
  PROVE  ShapeInv'
  <1> USE DEF Crash
  <1> DEFINE row(i) == IF ops[i].state = "running" THEN [ops[i] EXCEPT !.state = "pending"] ELSE ops[i]
  <1>1. Len(ops) \in Nat /\ DOMAIN ops = 1..Len(ops) /\ Len(ops) <= MaxOps /\ \A i \in DOMAIN ops : ops[i] \in Op
    BY OpIds DEF ShapeInv, TypeOK
  <1>2. \A i \in DOMAIN ops : /\ row(i) \in Op /\ row(i).shape = ops[i].shape /\ row(i).pin = ops[i].pin /\ row(i).heir = ops[i].heir
                              /\ row(i).outcomes = ops[i].outcomes /\ row(i).base = ops[i].base
                              /\ row(i).state = ops[i].state \/ (ops[i].state = "running" /\ row(i).state = "pending")
    BY <1>1 DEF Op
  <1>3. ops' = [i \in 1..Len(ops) |-> row(i)]
    BY <1>1
  <1> HIDE DEF row
  <1>4. ops' \in Seq(Op) /\ Len(ops') = Len(ops) /\ DOMAIN ops' = DOMAIN ops /\ \A i \in DOMAIN ops : ops'[i] = row(i)
    <2>1. ops' \in [1..Len(ops) -> Op]
      BY <1>1, <1>2, <1>3
    <2>2. ops' \in Seq(Op)
      BY <1>1, <2>1, SeqDef
    <2> QED  BY <1>1, <1>3, <2>1, <2>2, LenProperties
  <1>5. JournalShaped'
    <2>1. ASSUME NEW i \in DOMAIN ops'
          PROVE  /\ ops'[i].pin <= Len(ingress') /\ Len(ops'[i].outcomes) <= Len(ops'[i].shape.targets)
                 /\ ops'[i].base = None => ops'[i].outcomes = <<>> /\ ops'[i].state # "complete"
      BY <1>2, <1>4 DEF ShapeInv, JournalShaped
    <2>2. ASSUME NEW i \in DOMAIN ops', ops'[i].heir # 0
          PROVE  /\ ops'[i].state = "cancelled" /\ ops'[i].heir \in DOMAIN ops' /\ ops'[i].heir > i
                 /\ ops'[ops'[i].heir].shape.owner = ops'[i].shape.owner
      <3>1. PICK h \in DOMAIN ops : h = ops[i].heir /\ h > i /\ ops[h].shape.owner = ops[i].shape.owner /\ ops[i].state = "cancelled"
        BY <1>2, <1>4, <2>2 DEF ShapeInv, JournalShaped
      <3>2. ops'[h].shape = ops[h].shape /\ ops'[i].shape = ops[i].shape /\ ops'[i].state = "cancelled" /\ ops'[i].heir = h
        BY <1>2, <1>4, <3>1
      <3> QED  BY <1>4, <3>1, <3>2
    <2> QED  BY <2>1, <2>2 DEF JournalShaped
  <1>6. spent' \in [foreign: 0..MaxForeign, faults: 0..MaxFaults, late: SUBSET Ids,
                    acked: SUBSET [pin: Pins, owner: Owners, content: Contents]]
    BY FaultType DEF ShapeInv
  <1>7. TypeOK'
    BY <1>1, <1>4, <1>6 DEF ShapeInv, TypeOK
  <1> QED  BY <1>5, <1>7 DEF ShapeInv, WorkShaped, LockShaped

LEMMA TransientShape ==
  ASSUME ShapeInv, Transient
  PROVE  ShapeInv'
  <1>1. work # None /\ work.at \in Locked
    BY DEF Transient, Steps, Swaps, Locked
  <1>2. /\ spent' \in [foreign: 0..MaxForeign, faults: 0..MaxFaults, late: SUBSET Ids,
                       acked: SUBSET [pin: Pins, owner: Owners, content: Contents]]
    BY FaultType DEF Transient, ShapeInv
  <1>3. staged' \in [Ids -> Bytes] /\ disk' \in [Keys -> Bytes] /\ trash' \subseteq Item
    BY DEF Transient, ShapeInv, TypeOK
  <1> QED  BY <1>1, <1>2, <1>3, LeaveShape DEF Transient

\* What changes neither the journal nor the executor.
LEMMA AsideShape ==
  ASSUME ShapeInv, UNCHANGED <<ops, executor, staged>>, lock' = lock \/ lock # "executor", lock' # "executor" \/ lock = "executor",
         Len(ingress') >= Len(ingress), TypeOK',
         lock' \in {"edit", "taken", "placed"} =>
           /\ Len(ingress') > 0 /\ ingress'[Len(ingress')] # None /\ ingress'[Len(ingress')].state = "preparing"
           /\ \A i \in DOMAIN ops : Terminal(ops[i]) => ops[i].pin < Len(ingress')
  PROVE  ShapeInv'
  <1> USE DEF executor
  <1>1. JournalShaped'
    <2>1. \A i \in DOMAIN ops : ops[i] \in Op /\ ops[i].pin \in Nat
      BY OpIds, OpFields DEF ShapeInv
    <2>2. Len(ingress) \in Nat /\ Len(ingress') \in Nat
      BY IngressIds, LenProperties DEF ShapeInv, TypeOK
    <2> QED  BY <2>1, <2>2 DEF ShapeInv, JournalShaped
  <1>2. WorkShaped'
    BY WorkKept DEF ShapeInv, WorkShaped, Alike
  <1>3. LockShaped'
    BY DEF ShapeInv, LockShaped
  <1> QED  BY <1>1, <1>2, <1>3 DEF ShapeInv

LEMMA AdoptShape ==
  ASSUME ShapeInv, NEW o \in Owners, NEW r \in Replicas(o), Adopt(o, r)
  PROVE  ShapeInv'
  <1> USE DEF Adopt, executor
  <1>1. r \in Replica /\ Replicas(o) \in SUBSET Replica /\ owners[o] # None /\ owners[o] \in Ledger
    BY EntryType DEF ShapeInv
  <1>2. [r EXCEPT !.managed = TRUE] \in Replica
    BY <1>1 DEF Replica
  <1>3. owners[o].replicas \in SUBSET Replica
    BY <1>1 DEF Ledger
  <1>4. PICK next \in SUBSET Replica : next = (owners[o].replicas \ {r}) \cup {[r EXCEPT !.managed = TRUE]}
    BY <1>2, <1>3
  <1>5. [owners[o] EXCEPT !.replicas = next] \in Ledger
    BY <1>1, <1>4 DEF Ledger
  <1>6. owners' = [owners EXCEPT ![o] = [owners[o] EXCEPT !.replicas = next]]
    BY <1>4
  <1>7. owners' \in [Owners -> Ledger \cup {None}]
    BY <1>5, <1>6 DEF ShapeInv, TypeOK
  <1>8. placed' \subseteq Keys \X Contents
    BY <1>1 DEF ShapeInv, TypeOK, Replica
  <1>9. TypeOK'
    BY <1>7, <1>8 DEF ShapeInv, TypeOK
  <1>10. Len(ingress) >= Len(ingress)
    BY IngressIds DEF ShapeInv
  <1> QED  BY <1>9, <1>10, AsideShape

LEMMA ForeignShape ==
  ASSUME ShapeInv, NEW k \in Keys, NEW b \in Bytes, Foreign(k, b)
  PROVE  ShapeInv'
  <1> USE DEF Foreign, executor, durable
  <1>1. MaxForeign \in Nat /\ spent.foreign \in 0..MaxForeign
    BY BoundsAssumption DEF ShapeInv, TypeOK
  <1>2. spent.foreign + 1 \in 0..MaxForeign
    BY <1>1
  <1>3. spent' \in [foreign: 0..MaxForeign, faults: 0..MaxFaults, late: SUBSET Ids,
                    acked: SUBSET [pin: Pins, owner: Owners, content: Contents]]
    BY <1>2 DEF ShapeInv, TypeOK
  <1>4. disk' \in [Keys -> Bytes] /\ touched' \in [Keys -> BOOLEAN]
    BY DEF ShapeInv, TypeOK
  <1>5. TypeOK'
    BY <1>3, <1>4 DEF ShapeInv, TypeOK
  <1>6. WorkShaped'
    BY WorkKept DEF ShapeInv, WorkShaped, Alike
  <1> QED  BY <1>5, <1>6 DEF ShapeInv, JournalShaped, LockShaped

LEMMA EditCaptureShape ==
  ASSUME ShapeInv, NEW o \in Owners, NEW k \in Keys, NEW c \in Contents, EditCapture(o, k, c)
  PROVE  ShapeInv'
  <1> USE DEF EditCapture, executor
  <1> DEFINE row == [owner |-> o, key |-> k, content |-> c, state |-> "preparing"]
  <1>1. row \in Ingress \cup {None} /\ row # None /\ row.state = "preparing"
    BY RecordAssumption DEF Ingress
  <1>2. ingress \in Seq(Ingress \cup {None}) /\ cache \in Seq(Bytes) /\ c \in Bytes /\ Len(cache) = Len(ingress)
    BY DEF ShapeInv, TypeOK, Bytes
  <1> HIDE DEF row
  <1>3. ingress' = Append(ingress, row) /\ cache' = Append(cache, c)
    BY DEF row
  <1>4. /\ ingress' \in Seq(Ingress \cup {None}) /\ Len(ingress') = Len(ingress) + 1 /\ ingress'[Len(ingress')] = row
    BY <1>1, <1>2, <1>3, AppendProperties, LenProperties
  <1>5. cache' \in Seq(Bytes) /\ Len(cache') = Len(cache) + 1
    BY <1>2, <1>3, AppendProperties
  <1>6. Len(ingress) \in Nat /\ MaxEdits \in Nat /\ Len(ingress) < MaxEdits
    BY IngressIds, BoundsAssumption DEF ShapeInv
  <1>7. TypeOK'
    BY <1>2, <1>4, <1>5, <1>6 DEF ShapeInv, TypeOK
  <1>8. \A i \in DOMAIN ops : ops[i].pin \in Nat /\ ops[i].pin < Len(ingress')
    BY <1>4, <1>6, OpIds, OpFields DEF ShapeInv, JournalShaped
  <1> QED  BY <1>1, <1>4, <1>6, <1>7, <1>8, AsideShape

\* The edit that holds the lock.
LEMMA EditFields ==
  ASSUME ShapeInv, lock \in {"edit", "taken", "placed"}
  PROVE  /\ Len(ingress) \in DOMAIN ingress /\ Len(ingress) \in Pins /\ ingress[Len(ingress)] \in Ingress
         /\ ingress[Len(ingress)].key \in Keys /\ ingress[Len(ingress)].content \in Contents
         /\ ingress[Len(ingress)].owner \in Owners /\ ingress[Len(ingress)].state = "preparing"
         /\ \A i \in DOMAIN ops : Terminal(ops[i]) => ops[i].pin < Len(ingress)
  <1>1. Len(ingress) \in DOMAIN ingress /\ ingress[Len(ingress)] # None
    BY IngressIds DEF ShapeInv, LockShaped
  <1>2. ingress[Len(ingress)] \in Ingress /\ Len(ingress) \in Pins
    BY <1>1, IngressIds DEF ShapeInv
  <1> QED  BY <1>1, <1>2 DEF Ingress, ShapeInv, LockShaped

LEMMA EditTakeShape ==
  ASSUME ShapeInv, EditTake
  PROVE  ShapeInv'
  <1> USE DEF EditTake, executor, durable
  <1>1. Edited.key \in Keys /\ Len(ingress) \in 0..MaxEdits /\ 0 \in 0..MaxOps
    BY EditFields, IngressIds, BoundsAssumption DEF Edited, ShapeInv, TypeOK
  <1>2. disk[Edited.key] \in Contents
    BY <1>1 DEF ShapeInv, TypeOK, Bytes
  <1>3. [key |-> Edited.key, content |-> disk[Edited.key], op |-> 0, pin |-> Len(ingress)] \in Item
    BY <1>1, <1>2 DEF Item
  <1>4. disk' \in [Keys -> Bytes] /\ touched' \in [Keys -> BOOLEAN] /\ trash' \subseteq Item
    BY <1>1, <1>3 DEF ShapeInv, TypeOK, Bytes
  <1>5. TypeOK'
    BY <1>4 DEF ShapeInv, TypeOK
  <1>6. Len(ingress) >= Len(ingress)
    BY IngressIds DEF ShapeInv
  <1> QED  BY <1>5, <1>6, AsideShape DEF ShapeInv, LockShaped

LEMMA EditPlaceShape ==
  ASSUME ShapeInv, EditPlace
  PROVE  ShapeInv'
  <1> USE DEF EditPlace, executor, durable
  <1>1. Edited.key \in Keys /\ Edited.content \in Contents
    BY EditFields DEF Edited
  <1>2. disk' \in [Keys -> Bytes] /\ touched' \in [Keys -> BOOLEAN]
    BY <1>1 DEF ShapeInv, TypeOK, Bytes
  <1>3. TypeOK'
    BY <1>2 DEF ShapeInv, TypeOK
  <1>4. Len(ingress) >= Len(ingress)
    BY IngressIds DEF ShapeInv
  <1> QED  BY <1>3, <1>4, AsideShape DEF ShapeInv, LockShaped

LEMMA EditCommitShape ==
  ASSUME ShapeInv, EditCommit
  PROVE  ShapeInv'
  <1> USE DEF EditCommit, executor
  <1> DEFINE p == Len(ingress)
  <1> DEFINE row == [ingress[p] EXCEPT !.state = "committed"]
  <1>1. p \in DOMAIN ingress /\ p \in Pins /\ ingress[p] \in Ingress /\ ingress[p].owner \in Owners /\ ingress[p].content \in Contents
    BY EditFields
  <1>2. row \in Ingress \cup {None}
    BY <1>1 DEF Ingress
  <1>3. ingress' = [ingress EXCEPT ![p] = row]
    OBVIOUS
  <1>4. [pin |-> p, owner |-> ingress[p].owner, content |-> ingress[p].content] \in [pin: Pins, owner: Owners, content: Contents]
    BY <1>1
  <1>5. spent' \in [foreign: 0..MaxForeign, faults: 0..MaxFaults, late: SUBSET Ids,
                    acked: SUBSET [pin: Pins, owner: Owners, content: Contents]]
    BY <1>4 DEF ShapeInv, TypeOK
  <1> HIDE DEF p, row
  <1>6. ingress' \in Seq(Ingress \cup {None}) /\ Len(ingress') = Len(ingress)
    BY <1>1, <1>2, <1>3, PutIngress DEF ShapeInv
  <1>7. TypeOK'
    BY <1>5, <1>6 DEF ShapeInv, TypeOK
  <1>8. Len(ingress') >= Len(ingress)
    BY <1>6, IngressIds DEF ShapeInv
  <1> QED  BY <1>7, <1>8, AsideShape

\* A row of an edit is discarded with its pin.
LEMMA DiscardType ==
  ASSUME TypeOK, NEW p \in DOMAIN ingress, DiscardIngress(p)
  PROVE  /\ ingress' \in Seq(Ingress \cup {None}) /\ Len(ingress') = Len(ingress)
         /\ cache' \in Seq(Bytes) /\ Len(cache') = Len(ingress) /\ DOMAIN ingress' = DOMAIN ingress
         /\ \A q \in DOMAIN ingress : /\ ingress'[q] = IF q = p THEN None ELSE ingress[q]
                                      /\ cache'[q] = IF q = p THEN Absent ELSE cache[q]
  BY PutIngress, PutCache DEF DiscardIngress, TypeOK

LEMMA EditRefusedShape ==
  ASSUME ShapeInv, EditRefused
  PROVE  ShapeInv'
  <1> USE DEF EditRefused, executor
  <1>0. disk' \in [Keys -> Bytes] /\ trash' \subseteq Item
    <2>1. CASE UNCHANGED <<disk, trash>>
      BY <2>1 DEF ShapeInv, TypeOK
    <2>2. CASE \E t \in trash : disk' = [disk EXCEPT ![t.key] = t.content] /\ trash' = trash \ {t}
      <3>1. PICK t \in trash : disk' = [disk EXCEPT ![t.key] = t.content] /\ trash' = trash \ {t}
        BY <2>2
      <3>2. t.content \in Bytes /\ trash \subseteq Item
        BY DEF Item, Bytes, ShapeInv, TypeOK
      <3> QED  BY <3>1, <3>2 DEF ShapeInv, TypeOK
    <2> QED  BY <2>1, <2>2
  <1>1. CASE UNCHANGED <<ingress, cache>>
    <2>1. Len(ingress') >= Len(ingress)
      BY <1>1, IngressIds DEF ShapeInv
    <2>2. TypeOK'
      BY <1>0, <1>1 DEF ShapeInv, TypeOK
    <2> QED  BY <2>1, <2>2, AsideShape
  <1>2. CASE DiscardIngress(Len(ingress))
    <2>1. PICK p \in DOMAIN ingress : p = Len(ingress)
      BY EditFields
    <2>2. /\ ingress' \in Seq(Ingress \cup {None}) /\ Len(ingress') = Len(ingress)
          /\ cache' \in Seq(Bytes) /\ Len(cache') = Len(ingress)
      BY <1>2, <2>1, DiscardType DEF ShapeInv
    <2>3. TypeOK'
      BY <1>0, <2>2 DEF ShapeInv, TypeOK
    <2>4. Len(ingress') >= Len(ingress)
      BY <2>2, IngressIds DEF ShapeInv
    <2> QED  BY <2>3, <2>4, AsideShape
  <1> QED  BY <1>1, <1>2

LEMMA ReclaimShape ==
  ASSUME ShapeInv, NEW p \in DOMAIN ingress, Reclaim(p)
  PROVE  ShapeInv'
  <1> USE DEF Reclaim, executor
  <1>1. ingress[p] \in Ingress
    BY IngressIds DEF ShapeInv
  <1>2. /\ ingress' \in Seq(Ingress \cup {None}) /\ Len(ingress') = Len(ingress)
        /\ cache' \in Seq(Bytes) /\ Len(cache') = Len(ingress)
    <2>1. CASE ingress' = [ingress EXCEPT ![p].state = "committed"] /\ UNCHANGED cache
      <3> DEFINE row == [ingress[p] EXCEPT !.state = "committed"]
      <3>1. row \in Ingress \cup {None} /\ ingress' = [ingress EXCEPT ![p] = row]
        BY <1>1, <2>1 DEF Ingress
      <3> HIDE DEF row
      <3>2. ingress' \in Seq(Ingress \cup {None}) /\ Len(ingress') = Len(ingress)
        BY <3>1, PutIngress DEF ShapeInv
      <3> QED  BY <2>1, <3>2 DEF ShapeInv, TypeOK
    <2>2. CASE DiscardIngress(p)
      BY <2>2, DiscardType DEF ShapeInv
    <2> QED  BY <2>1, <2>2
  <1>3. TypeOK'
    BY <1>2 DEF ShapeInv, TypeOK
  <1>4. Len(ingress') >= Len(ingress)
    BY <1>2, IngressIds DEF ShapeInv
  <1> QED  BY <1>3, <1>4, AsideShape

\* What the executor relies on while it holds the lock.
LEMMA AtWork ==
  ASSUME ShapeInv, work # None, work.at \in Locked \cup {"queued"}
  PROVE  /\ work \in Work /\ work.op \in Op /\ work.id \in DOMAIN ops /\ work.id \in Ids /\ work.n \in Nat /\ work.n > 0
         /\ work.op.heir = 0 /\ ~work.op.waiting /\ work.op.state = "running" /\ ops[work.id].state # "complete"
         /\ Alike(work.op, ops[work.id]) /\ Len(work.op.outcomes) <= Len(work.op.shape.targets)
         /\ work.at \in Locked => /\ lock = "executor" /\ work.op.base # None /\ work.op.base \in Ledger
                                  /\ work.op.base.replicas \in SUBSET Replica
         /\ work.at \in Locked \ {"stage", "staged"} /\ NeedsBytes => staged[work.id] = work.op.content
  <1>1. work \in Work /\ work.op \in Op /\ work.id \in DOMAIN ops /\ work.n > 0 /\ Alike(work.op, ops[work.id])
    BY WorkFields DEF ShapeInv, WorkShaped, TypeOK
  <1>2. Len(work.op.outcomes) <= Len(work.op.shape.targets)
    BY <1>1 DEF ShapeInv, JournalShaped, Alike
  <1> QED  BY <1>1, <1>2, WorkFields, OpFields DEF ShapeInv, WorkShaped

\* The executor takes its next step with the lock.
LEMMA StepShape ==
  ASSUME ShapeInv, work # None, work.at \in Locked \cup {"queued"},
         NEW op \in Op, NEW w \in Work, work' = w, w.id = work.id, w.op = op, w.n > 0, w.at \in Locked,
         \/ ops' = [ops EXCEPT ![work.id] = op]
         \/ ops' = ops /\ op = work.op,
         op.shape = work.op.shape, op.content = work.op.content, op.pin = work.op.pin, op.heir = work.op.heir,
         op.release = work.op.release, op.waiting = work.op.waiting, op.state = "running", op.base # None,
         Len(op.outcomes) <= Len(op.shape.targets),
         lock' = "executor", UNCHANGED <<owners, ingress, cache, todo, held, spent>>,
         staged' \in [Ids -> Bytes], disk' \in [Keys -> Bytes], trash' \subseteq Item,
         placed' \subseteq Keys \X Contents, touched' \in [Keys -> BOOLEAN],
         w.at \notin {"stage", "staged"} /\ (op.shape.targets # <<>> \/ op.base.replicas # {}) => staged'[work.id] = op.content,
         w.at \in {"write", "retain", "capture", "publish", "replace", "verify"} => w.n \in DOMAIN op.shape.targets /\ w.n \in DOMAIN op.outcomes,
         w.at \in {"ask", "keep", "unlink", "delete"} =>
           /\ w.key \in Keys \ (Outcomes(op) \cup op.shape.preserve)
           /\ \E r \in op.base.replicas : r.key = w.key /\ r.mirror /\ r.managed,
         w.at = "restore" => w.key \in Keys,
         w.at = "drop" => w.key \in ReleaseKeys(op)
  PROVE  ShapeInv'
  <1>1. owners' \in [Owners -> Ledger \cup {None}]
    BY DEF ShapeInv, TypeOK
  <1>2. w.at # "queued" /\ w.at \notin Cleaning
    BY DEF Locked, Cleaning
  <1>3. /\ TypeOK' /\ JournalShaped' /\ LockShaped' /\ todo' \subseteq DOMAIN ops'
        /\ DOMAIN ops' = DOMAIN ops /\ w.id \in DOMAIN ops' /\ Alike(op, ops'[w.id])
        /\ ops'[w.id].state \in {op.state, ops[w.id].state}
    BY <1>1, <1>2, SaveShape
  <1>4. ops'[w.id].state # "complete"
    BY <1>3, AtWork
  <1>5. op.heir = 0 /\ ~op.waiting
    BY AtWork
  <1>6. w.at \in Locked \ {"stage", "staged"} /\ NeedsBytes' => staged'[work'.id] = work'.op.content
    BY DEF NeedsBytes
  <1>7. w.at \in {"ask", "keep", "unlink", "delete"} => Mirrors(w.key)' # {}
    BY DEF Mirrors
  <1>8. (Outcomes(work.op) = Outcomes(op))' /\ (ReleaseKeys(work.op) = ReleaseKeys(op))'
    BY DEF Outcomes, ReleaseKeys
  <1>9. /\ work'.id \in DOMAIN ops' /\ work'.n > 0 /\ Alike(work'.op, ops'[work'.id])
        /\ lock' = "executor" /\ work'.op.base # None /\ work'.op.state = "running" /\ ~work'.op.waiting /\ work'.op.heir = 0
        /\ ops'[work'.id].state # "complete" /\ work'.at = w.at /\ work'.key = w.key /\ work'.n = w.n /\ work'.op = op
    BY <1>3, <1>4, <1>5
  <1>10. WorkShaped'
    <2> HIDE <1>4, <1>5
    <2> QED  BY <1>2, <1>6, <1>7, <1>9 DEF WorkShaped, Outcomes, ReleaseKeys, Cleaning
  <1> QED  BY <1>3, <1>10 DEF ShapeInv

\* ... and when it leaves the journal alone.
LEMMA MoveShape ==
  ASSUME ShapeInv, work # None, work.at \in Locked,
         NEW w \in Work, work' = w, w.id = work.id, w.op = work.op, w.n > 0, w.at \in Locked,
         UNCHANGED <<ops, lock, owners, ingress, cache, todo, held, spent>>,
         staged' \in [Ids -> Bytes], disk' \in [Keys -> Bytes], trash' \subseteq Item,
         placed' \subseteq Keys \X Contents, touched' \in [Keys -> BOOLEAN],
         w.at \notin {"stage", "staged"} /\ NeedsBytes => staged'[work.id] = work.op.content,
         w.at \in {"write", "retain", "capture", "publish", "replace", "verify"} => w.n \in DOMAIN work.op.shape.targets /\ w.n \in DOMAIN work.op.outcomes,
         w.at \in {"ask", "keep", "unlink", "delete"} =>
           w.key \in Keys \ (Outcomes(work.op) \cup work.op.shape.preserve) /\ Mirrors(w.key) # {},
         w.at = "restore" => w.key \in Keys,
         w.at = "drop" => w.key \in ReleaseKeys(work.op)
  PROVE  ShapeInv'
  <1>1. /\ work.op \in Op /\ lock = "executor" /\ work.op.base # None /\ work.op.state = "running"
        /\ Len(work.op.outcomes) <= Len(work.op.shape.targets)
    BY AtWork
  <1>2. w.at \notin {"stage", "staged"} /\ (work.op.shape.targets # <<>> \/ work.op.base.replicas # {}) =>
          staged'[work.id] = work.op.content
    BY DEF NeedsBytes
  <1>3. w.at \in {"ask", "keep", "unlink", "delete"} => \E r \in work.op.base.replicas : r.key = w.key /\ r.mirror /\ r.managed
    BY DEF Mirrors
  <1> QED  BY <1>1, <1>2, <1>3, StepShape

LEMMA StartPassShape ==
  ASSUME ShapeInv, StartPass
  PROVE  ShapeInv'
  <1> USE DEF StartPass, durable
  <1>1. DOMAIN ops \subseteq Ids
    BY OpIds DEF ShapeInv
  <1>2. TypeOK'
    BY <1>1 DEF ShapeInv, TypeOK
  <1> QED  BY <1>2 DEF ShapeInv, JournalShaped, WorkShaped, LockShaped

LEMMA BegunType ==
  ASSUME NEW i \in Ids, NEW op \in Op, NEW at \in Steps
  PROVE  [id |-> i, op |-> op, at |-> at, n |-> 1, found |-> Absent, left |-> {}, key |-> None, pin |-> 0] \in Work
  BY BoundsAssumption DEF Work, Bytes

LEMMA VisitShape ==
  ASSUME ShapeInv, Visit
  PROVE  ShapeInv'
  <1> USE DEF Visit
  <1>1. Row \in todo /\ Row \in DOMAIN ops
    BY RowIsLeast DEF ShapeInv
  <1>2. PICK i \in DOMAIN ops : i = Row
    BY <1>1
  <1>3. ops[i] \in Op /\ i \in Ids /\ ops[i].shape.owner \in Owners
    BY OpIds, OpFields DEF ShapeInv
  <1>4. todo' \subseteq DOMAIN ops /\ todo' \subseteq Ids
    BY OpIds DEF ShapeInv
  <1>5. CASE Terminal(ops[i]) /\ work' = Begun(i, "clean") /\ UNCHANGED <<ops, held>>
    <2>1. /\ work' = [id |-> i, op |-> ops[i], at |-> "clean", n |-> 1, found |-> Absent, left |-> {}, key |-> None, pin |-> 0]
          /\ "clean" \in Steps
      BY <1>5 DEF Begun, Steps
    <2>2. work' \in Work /\ work'.id = i /\ work'.op = ops[i] /\ work'.at = "clean" /\ work'.n = 1
      BY <1>3, <2>1, BegunType
    <2>3. TypeOK'
      BY <1>4, <1>5, <2>2 DEF ShapeInv, TypeOK
    <2>4. WorkShaped'
      BY <1>5, <2>2 DEF WorkShaped, Alike, Locked, Cleaning, Terminal
    <2>5. LockShaped'
      BY <1>5, <2>2, WorkFields DEF ShapeInv, LockShaped
    <2> QED  BY <1>4, <1>5, <2>3, <2>4, <2>5 DEF ShapeInv, JournalShaped
  <1>6. CASE held' = held \cup {ops[i].shape.owner} /\ UNCHANGED <<ops, work>>
    <2>1. TypeOK'
      BY <1>3, <1>4, <1>6 DEF ShapeInv, TypeOK
    <2>2. WorkShaped'
      BY <1>6 DEF WorkShaped
    <2> QED  BY <1>4, <1>6, <2>1, <2>2 DEF ShapeInv, JournalShaped, LockShaped
  <1>7. CASE /\ ~Terminal(ops[i]) /\ ~(ops[i].state = "blocked" \/ ops[i].waiting)
             /\ ops' = [ops EXCEPT ![i].state = "running"]
             /\ work' = [Begun(i, "queued") EXCEPT !.op.state = "running"] /\ UNCHANGED held
    <2> DEFINE op == [ops[i] EXCEPT !.state = "running"]
    <2>1. ops[i].heir = 0
      BY <1>7 DEF ShapeInv, JournalShaped, Terminal
    <2>2. /\ op \in Op /\ op.shape = ops[i].shape /\ op.pin = ops[i].pin /\ op.heir = ops[i].heir /\ op.outcomes = ops[i].outcomes
          /\ op.base = ops[i].base /\ op.state = "running" /\ op.waiting = ops[i].waiting
      BY <1>3 DEF Op
    <2>3. ops' = [ops EXCEPT ![i] = op]
      BY <1>7
    <2>4. /\ work' = [id |-> i, op |-> op, at |-> "queued", n |-> 1, found |-> Absent, left |-> {}, key |-> None, pin |-> 0]
          /\ "queued" \in Steps
      BY <1>7 DEF Begun, Steps
    <2> HIDE DEF op
    <2>5. work' \in Work /\ work'.id = i /\ work'.op = op /\ work'.at = "queued" /\ work'.n = 1
      BY <1>3, <2>2, <2>4, BegunType
    <2>6. JournalShaped'
      BY <2>1, <2>2, <2>3, RowWritten DEF ShapeInv, JournalShaped
    <2>7. /\ ops' \in Seq(Op) /\ Len(ops') <= MaxOps /\ DOMAIN ops' = DOMAIN ops /\ ops'[i] = op
          /\ \A j \in DOMAIN ops : ops'[j] = IF j = i THEN op ELSE ops[j]
      BY <2>2, <2>3, PutOp DEF ShapeInv
    <2>8. TypeOK'
      BY <1>4, <1>7, <2>5, <2>7 DEF ShapeInv, TypeOK
    <2>9. WorkShaped'
      <3>1. Alike(work.op, ops[work.id])' /\ work'.n > 0 /\ work'.id \in DOMAIN ops'
        BY <2>5, <2>7 DEF Alike
      <3>2. work'.op.state = "running" /\ ~work'.op.waiting /\ work'.op.heir = 0 /\ ops'[work'.id].state # "complete"
        BY <1>7, <2>1, <2>2, <2>5, <2>7
      <3>3. work'.at \notin Locked \cup Cleaning
        BY <2>5 DEF Locked, Cleaning
      <3> QED  BY <2>5, <3>1, <3>2, <3>3 DEF WorkShaped, Locked, Cleaning
    <2>10. LockShaped'
      BY <1>7, <2>2, <2>7, <2>5, WorkFields DEF ShapeInv, LockShaped, Terminal
    <2> QED  BY <1>4, <2>6, <2>7, <2>8, <2>9, <2>10 DEF ShapeInv
  <1> QED  BY <1>2, <1>5, <1>6, <1>7

LEMMA BeginShape ==
  ASSUME ShapeInv, Begin
  PROVE  ShapeInv'
  <1> USE DEF Begin, At, Rest
  <1>1. /\ work \in Work /\ work.op \in Op /\ work.op.heir = 0 /\ work.op.state = "running" /\ work.n > 0
        /\ Len(work.op.outcomes) <= Len(work.op.shape.targets) /\ work.op.shape.owner \in Owners
    BY AtWork, OpFields
  <1>2. /\ staged' \in [Ids -> Bytes] /\ disk' \in [Keys -> Bytes] /\ trash' \subseteq Item
        /\ placed' \subseteq Keys \X Contents /\ touched' \in [Keys -> BOOLEAN]
    BY DEF ShapeInv, TypeOK
  <1>3. CASE work.op.base # None
    <2> DEFINE w == [work EXCEPT !.at = "stage"]
    <2>1. w \in Work /\ w.id = work.id /\ w.op = work.op /\ w.n = work.n /\ w.at = "stage"
      BY <1>1 DEF Work, Steps
    <2>2. work' = w /\ UNCHANGED ops
      BY <1>3
    <2> HIDE DEF w
    <2> QED  BY <1>1, <1>2, <1>3, <2>1, <2>2, StepShape DEF Locked
  <1>4. CASE work.op.base = None
    <2> DEFINE op == [work.op EXCEPT !.base = Entry(work.op.shape.owner)]
    <2> DEFINE w == [[work EXCEPT !.at = "stage"] EXCEPT !.op = op]
    <2>1. Entry(work.op.shape.owner) \in Ledger /\ Entry(work.op.shape.owner) # None
      BY <1>1, EntryType, RecordAssumption DEF ShapeInv
    <2>2. /\ op \in Op /\ op.shape = work.op.shape /\ op.content = work.op.content /\ op.pin = work.op.pin
          /\ op.heir = work.op.heir /\ op.release = work.op.release /\ op.waiting = work.op.waiting
          /\ op.state = work.op.state /\ op.base # None /\ op.outcomes = work.op.outcomes
      BY <1>1, <2>1 DEF Op
    <2>3. ops' = [ops EXCEPT ![work.id] = op] /\ work' = w
      BY <1>4 DEF Save
    <2> HIDE DEF op
    <2>4. w \in Work /\ w.id = work.id /\ w.op = op /\ w.n = work.n /\ w.at = "stage"
      BY <1>1, <2>2 DEF Work, Steps
    <2> HIDE DEF w
    <2> QED  BY <1>1, <1>2, <2>2, <2>3, <2>4, StepShape DEF Locked
  <1> QED  BY <1>3, <1>4

\* A row that is saved with more done.
LEMMA Pinned ==
  ASSUME NEW op \in Op
  PROVE  LET new == [op EXCEPT !.pinned = TRUE] IN
         /\ new \in Op /\ new.shape = op.shape /\ new.content = op.content /\ new.source = op.source /\ new.pin = op.pin
         /\ new.heir = op.heir /\ new.release = op.release /\ new.waiting = op.waiting /\ new.state = op.state
         /\ new.base = op.base /\ new.outcomes = op.outcomes /\ new.cleaned = op.cleaned /\ new.pinned
  BY DEF Op

LEMMA StageShape ==
  ASSUME ShapeInv, Stage \/ StageVerify
  PROVE  ShapeInv'
  <1> USE DEF At, Rest
  <1>0. work # None /\ work.at \in {"stage", "staged"} /\ work.at \in Locked
    BY DEF Stage, StageVerify, Locked
  <1>1. /\ work \in Work /\ work.op \in Op /\ work.op.heir = 0 /\ work.op.state = "running" /\ work.n > 0 /\ work.op.base # None
        /\ Len(work.op.outcomes) <= Len(work.op.shape.targets) /\ work.id \in Ids /\ lock = "executor"
        /\ work.op.base.replicas \in SUBSET Replica
    BY <1>0, AtWork
  <1>2. /\ disk' \in [Keys -> Bytes] /\ trash' \subseteq Item /\ placed' \subseteq Keys \X Contents /\ touched' \in [Keys -> BOOLEAN]
        /\ UNCHANGED <<owners, ingress, cache, todo, placed, touched, spent, disk, trash>>
    BY DEF ShapeInv, TypeOK, Stage, StageVerify
  <1>3. CASE Block /\ (staged' = staged \/ staged' = [staged EXCEPT ![work.id] = Absent])
    <2>1. staged' \in [Ids -> Bytes]
      BY <1>1, <1>3 DEF ShapeInv, TypeOK, Bytes
    <2> QED  BY <1>0, <1>2, <1>3, <2>1, BlockShape
  <1>4. CASE /\ ~NeedsBytes /\ work' = [work EXCEPT !.at = "target"] /\ UNCHANGED <<ops, staged, lock, held>>
    <2> DEFINE w == [work EXCEPT !.at = "target"]
    <2>1. w \in Work /\ w.id = work.id /\ w.op = work.op /\ w.n = work.n /\ w.at = "target"
      BY <1>1 DEF Work, Steps
    <2>2. work' = w /\ staged' \in [Ids -> Bytes]
      BY <1>4 DEF ShapeInv, TypeOK
    <2> HIDE DEF w
    <2> QED  BY <1>0, <1>1, <1>2, <1>4, <2>1, <2>2, MoveShape DEF Locked
  <1>5. CASE /\ staged[work.id] = work.op.content
             /\ Save([work.op EXCEPT !.pinned = TRUE], [work EXCEPT !.at = "target"]) /\ UNCHANGED <<staged, lock, held>>
    <2> DEFINE op == [work.op EXCEPT !.pinned = TRUE]
    <2> DEFINE w == [[work EXCEPT !.at = "target"] EXCEPT !.op = op]
    <2>1. ops' = [ops EXCEPT ![work.id] = op] /\ work' = w /\ staged' \in [Ids -> Bytes]
      BY <1>5 DEF Save, ShapeInv, TypeOK
    <2>2. /\ op \in Op /\ op.shape = work.op.shape /\ op.content = work.op.content /\ op.pin = work.op.pin
          /\ op.heir = work.op.heir /\ op.release = work.op.release /\ op.waiting = work.op.waiting
          /\ op.state = work.op.state /\ op.base = work.op.base /\ op.outcomes = work.op.outcomes
      BY <1>1, Pinned
    <2> HIDE DEF op
    <2>3. w \in Work /\ w.id = work.id /\ w.op = op /\ w.n = work.n /\ w.at = "target"
      BY <1>1, <2>2 DEF Work, Steps
    <2> HIDE DEF w
    <2>4. staged'[work.id] = op.content /\ lock' = "executor"
      BY <1>1, <1>5, <2>2
    <2> QED  BY <1>0, <1>1, <1>2, <1>5, <2>1, <2>2, <2>3, <2>4, StepShape DEF Locked
  <1>6. CASE \E bytes \in Sources(work.op) \ {Absent} :
               /\ staged' = [staged EXCEPT ![work.id] = bytes] /\ work' = [work EXCEPT !.at = "staged"]
               /\ UNCHANGED <<ops, lock, held>>
    <2>1. Sources(work.op) \subseteq Bytes
      <3>1. work.op.pin # 0 => cache[work.op.pin] \in Bytes
        <4>1. work.op.pin <= Len(ingress) /\ work.op.pin \in Nat
          BY <1>0, <1>1, AtWork, OpFields DEF ShapeInv, JournalShaped, Alike
        <4>2. work.op.pin # 0 => work.op.pin \in DOMAIN ingress
          BY <4>1, IngressIds DEF ShapeInv
        <4> QED  BY <4>2, IngressIds DEF ShapeInv
      <3>2. work.op.source # None => work.op.source \in Keys
        BY <1>1 DEF Op
      <3>3. \A k \in Keys : disk[k] \in Bytes
        BY DEF ShapeInv, TypeOK
      <3>4. \A r \in work.op.base.replicas : r.key \in Keys
        BY <1>1 DEF Replica
      <3> QED  BY <3>1, <3>2, <3>3, <3>4 DEF Sources
    <2>2. PICK bytes \in Bytes : /\ staged' = [staged EXCEPT ![work.id] = bytes] /\ work' = [work EXCEPT !.at = "staged"]
                                 /\ UNCHANGED <<ops, lock, held>>
      BY <1>6, <2>1
    <2> DEFINE w == [work EXCEPT !.at = "staged"]
    <2>3. w \in Work /\ w.id = work.id /\ w.op = work.op /\ w.n = work.n /\ w.at = "staged"
      BY <1>1 DEF Work, Steps
    <2>4. work' = w /\ staged' \in [Ids -> Bytes]
      BY <2>2 DEF ShapeInv, TypeOK
    <2> HIDE DEF w
    <2> QED  BY <1>0, <1>1, <1>2, <2>2, <2>3, <2>4, MoveShape DEF Locked
  <1> QED  BY <1>3, <1>4, <1>5, <1>6 DEF Stage, StageVerify

\* The replica that stands for the wanted target is one of the base.
LEMMA PreviousIn ==
  ASSUME NEW R \in SUBSET Replica, work.op.base.replicas = R, Prior # {}
  PROVE  /\ Previous \in Prior /\ Previous \in R /\ Previous \in Replica /\ Previous.asked = Wanted.key
         /\ Previous.mirror => \A r \in Prior : r.mirror
  <1>1. CASE \E r \in Prior : ~r.mirror
    <2>1. PICK r \in Prior : ~r.mirror
      BY <1>1
    <2>2. (CHOOSE x \in Prior : ~x.mirror) \in Prior /\ ~(CHOOSE x \in Prior : ~x.mirror).mirror
      BY <2>1
    <2>3. Previous = CHOOSE x \in Prior : ~x.mirror
      BY <1>1 DEF Previous
    <2> QED  BY <2>2, <2>3 DEF Prior
  <1>2. CASE ~ \E r \in Prior : ~r.mirror
    <2>1. (CHOOSE x \in Prior : TRUE) \in Prior
      OBVIOUS
    <2>2. Previous = CHOOSE x \in Prior : TRUE
      BY <1>2 DEF Previous
    <2> QED  BY <1>2, <2>1, <2>2 DEF Prior
  <1> QED  BY <1>1, <1>2

\* The target the executor works at.
LEMMA AtTarget ==
  ASSUME ShapeInv, work # None, work.at = "target", More
  PROVE  /\ Wanted \in Target /\ Wanted.key \in Keys /\ work.n \in DOMAIN work.op.shape.targets
         /\ Resolved => work.n \in DOMAIN work.op.outcomes /\ Chosen \in Outcome /\ Chosen.key \in Keys
         /\ ~Resolved => Len(work.op.outcomes) < Len(work.op.shape.targets) /\ Len(work.op.outcomes) + 1 <= work.n
  <1>1. work.op \in Op /\ work.n \in Nat /\ work.n > 0
    BY AtWork DEF Locked
  <1>2. work.n \in DOMAIN work.op.shape.targets /\ Wanted \in Target
    BY <1>1, OpFields DEF More, Wanted
  <1>3. Resolved => work.n \in DOMAIN work.op.outcomes /\ Chosen \in Outcome
    BY <1>1, OpFields DEF Resolved, Chosen
  <1>4. ~Resolved => Len(work.op.outcomes) < Len(work.op.shape.targets) /\ Len(work.op.outcomes) + 1 <= work.n
    BY <1>1, OpFields DEF Resolved, More
  <1> QED  BY <1>2, <1>3, <1>4 DEF Target, Outcome

\* The target the executor writes or verifies.
LEMMA AtWrite ==
  ASSUME ShapeInv, work # None, work.at \in {"write", "retain", "capture", "publish", "replace", "verify"}
  PROVE  /\ work.n \in DOMAIN work.op.shape.targets /\ work.n \in DOMAIN work.op.outcomes
         /\ Wanted \in Target /\ Chosen \in Outcome /\ Chosen.key \in Keys
         /\ staged[work.id] = work.op.content /\ work.op.content \in Contents
  <1>1. work.op \in Op /\ work.n \in DOMAIN work.op.shape.targets /\ work.n \in DOMAIN work.op.outcomes
    BY AtWork DEF Locked, ShapeInv, WorkShaped
  <1>2. Wanted \in Target /\ Chosen \in Outcome
    BY <1>1, OpFields DEF Wanted, Chosen
  <1>3. work.op.shape.targets # <<>>
    BY <1>1, OpFields
  <1>4. staged[work.id] = work.op.content /\ work.op.content \in Contents
    BY <1>1, <1>3, AtWork, OpFields DEF Locked, NeedsBytes
  <1> QED  BY <1>1, <1>2, <1>4 DEF Outcome

LEMMA ResolutionType ==
  ASSUME ShapeInv, work # None, work.at = "target", More, NEW k \in Keys, NEW free \in Keys
  PROVE  /\ Resolution(k) \in Outcome
         /\ [Resolution(k) EXCEPT !.key = free, !.expected = Absent, !.managed = TRUE] \in Outcome
  <1>1. Wanted \in Target /\ Wanted.key \in Keys /\ Wanted.mirror \in BOOLEAN
    BY AtTarget DEF Target
  <1>2. disk[k] \in Bytes /\ Absent \in Bytes
    BY DEF ShapeInv, TypeOK, Bytes
  <1>3. Owned => Previous \in Replica /\ Previous.content \in Bytes
    BY AtWork, PreviousIn DEF Locked, Owned, Replica, Bytes
  <1>4. (IF Owned /\ Previous.mirror THEN Previous.content ELSE Absent) \in Bytes
    BY <1>2, <1>3
  <1>5. (Owned \/ disk[k] = Absent \/ ManagedAt(Wanted.key)) \in BOOLEAN
    OBVIOUS
  <1>6. PICK m \in BOOLEAN, old \in Bytes :
          Resolution(k) = [key |-> k, asked |-> Wanted.key, mirror |-> Wanted.mirror, expected |-> disk[k],
                           verified |-> FALSE, managed |-> m, replaces |-> old]
    BY <1>4, <1>5 DEF Resolution
  <1>7. PICK x \in Outcome : x = Resolution(k)
    BY <1>1, <1>2, <1>6 DEF Outcome
  <1>8. [x EXCEPT !.key = free, !.expected = Absent, !.managed = TRUE] \in Outcome
    BY <1>2 DEF Outcome
  <1> QED  BY <1>7, <1>8

\* The row grows by an outcome.
LEMMA Recorded ==
  ASSUME NEW op \in Op, NEW x \in Outcome, Len(op.outcomes) < Len(op.shape.targets)
  PROVE  LET new == [op EXCEPT !.outcomes = Append(@, x)] IN
         /\ new \in Op /\ new.shape = op.shape /\ new.content = op.content /\ new.source = op.source /\ new.pin = op.pin
         /\ new.heir = op.heir /\ new.release = op.release /\ new.waiting = op.waiting /\ new.state = op.state
         /\ new.base = op.base /\ new.pinned = op.pinned /\ new.cleaned = op.cleaned
         /\ new.outcomes = Append(op.outcomes, x) /\ Len(new.outcomes) = Len(op.outcomes) + 1
         /\ Len(new.outcomes) <= Len(new.shape.targets)
         /\ DOMAIN new.outcomes = DOMAIN op.outcomes \cup {Len(op.outcomes) + 1}
         /\ new.outcomes[Len(op.outcomes) + 1] = x
         /\ \A n \in DOMAIN op.outcomes : new.outcomes[n] = op.outcomes[n]
  <1>1. /\ op.outcomes \in Seq(Outcome) /\ Len(op.outcomes) \in Nat /\ Len(op.shape.targets) \in Nat
        /\ DOMAIN op.outcomes = 1..Len(op.outcomes)
    BY OpFields
  <1> DEFINE more == Append(op.outcomes, x)
  <1>2. /\ more \in Seq(Outcome) /\ Len(more) = Len(op.outcomes) + 1 /\ more[Len(op.outcomes) + 1] = x
        /\ \A n \in 1..Len(op.outcomes) : more[n] = op.outcomes[n]
    BY <1>1, AppendProperties
  <1>3. DOMAIN more = DOMAIN op.outcomes \cup {Len(op.outcomes) + 1}
    BY <1>1, <1>2, LenProperties
  <1> HIDE DEF more
  <1>4. [op EXCEPT !.outcomes = Append(@, x)] = [op EXCEPT !.outcomes = more]
    BY DEF more
  <1>5. [op EXCEPT !.outcomes = more] \in Op
    BY <1>2 DEF Op
  <1>6. LET new == [op EXCEPT !.outcomes = more] IN
         /\ new.shape = op.shape /\ new.content = op.content /\ new.source = op.source /\ new.pin = op.pin
         /\ new.heir = op.heir /\ new.release = op.release /\ new.waiting = op.waiting /\ new.state = op.state
         /\ new.base = op.base /\ new.pinned = op.pinned /\ new.cleaned = op.cleaned /\ new.outcomes = more
    BY DEF Op
  <1> QED  BY <1>1, <1>2, <1>3, <1>4, <1>5, <1>6 DEF more

LEMMA RecordShape ==
  ASSUME ShapeInv, work # None, work.at = "target", More, ~Resolved, NEW x \in Outcome, Record(x), Rest,
         UNCHANGED <<staged, disk, trash>>
  PROVE  ShapeInv'
  <1> USE DEF Rest
  <1> DEFINE op == [work.op EXCEPT !.outcomes = Append(@, x)]
  <1> DEFINE w == [work EXCEPT !.op = op]
  <1>0. work.at \in Locked
    BY DEF Locked
  <1>1. /\ work \in Work /\ work.op \in Op /\ work.op.heir = 0 /\ work.op.state = "running" /\ work.n > 0 /\ work.op.base # None
        /\ Len(work.op.outcomes) < Len(work.op.shape.targets) /\ lock = "executor"
    BY <1>0, AtWork, AtTarget
  <1>2. /\ disk' \in [Keys -> Bytes] /\ trash' \subseteq Item /\ placed' \subseteq Keys \X Contents /\ touched' \in [Keys -> BOOLEAN]
        /\ staged' \in [Ids -> Bytes]
    BY DEF ShapeInv, TypeOK
  <1>3. ops' = [ops EXCEPT ![work.id] = op] /\ work' = w /\ UNCHANGED <<lock, held>>
    BY DEF Record, Save
  <1>4. /\ op \in Op /\ op.shape = work.op.shape /\ op.content = work.op.content /\ op.pin = work.op.pin
        /\ op.heir = work.op.heir /\ op.release = work.op.release /\ op.waiting = work.op.waiting
        /\ op.state = work.op.state /\ op.base = work.op.base /\ Len(op.outcomes) <= Len(op.shape.targets)
    BY <1>1, Recorded
  <1> HIDE DEF op
  <1>5. w \in Work /\ w.id = work.id /\ w.op = op /\ w.n = work.n /\ w.at = "target"
    BY <1>1, <1>4 DEF Work, Steps
  <1> HIDE DEF w
  <1>6. op.shape.targets # <<>> \/ op.base.replicas # {} => staged'[work.id] = op.content
    BY <1>0, <1>4, AtWork DEF NeedsBytes
  <1> QED  BY <1>0, <1>1, <1>2, <1>3, <1>4, <1>5, <1>6, StepShape

\* Where a target is resolved to.
LEMMA ResolveKey ==
  ASSUME ShapeInv, work # None, work.at = "target", More
  PROVE  /\ (IF Wanted.onConflict = "rename" /\ Prior # {} THEN Previous.key ELSE Wanted.key) \in Keys
         /\ Spare[Wanted.key] \subseteq Keys
  <1>1. Wanted.key \in Keys
    BY AtTarget
  <1>2. Prior # {} => Previous.key \in Keys
    BY AtWork, PreviousIn DEF Locked, Replica
  <1> QED  BY <1>1, <1>2, DiskAssumption

LEMMA ResolveShape ==
  ASSUME ShapeInv, Resolve
  PROVE  ShapeInv'
  <1> DEFINE k == IF Wanted.onConflict = "rename" /\ Prior # {} THEN Previous.key ELSE Wanted.key
  <1>0. work # None /\ work.at = "target" /\ work.at \in Locked /\ More /\ ~Resolved /\ Rest /\ UNCHANGED <<staged, disk, trash>>
    BY DEF Resolve, At, Locked
  <1>1. k \in Keys /\ Spare[Wanted.key] \subseteq Keys
    BY <1>0, ResolveKey
  <1>2. \/ Block
        \/ Record(Resolution(k))
        \/ \E free \in Spare[Wanted.key] : Record([Resolution(k) EXCEPT !.key = free, !.expected = Absent, !.managed = TRUE])
    BY DEF Resolve
  <1> HIDE DEF k
  <1>3. CASE Block
    <2>1. staged' \in [Ids -> Bytes]
      BY <1>0 DEF ShapeInv, TypeOK
    <2> QED  BY <1>0, <1>3, <2>1, BlockShape DEF Rest
  <1>4. CASE Record(Resolution(k))
    <2>1. Resolution(k) \in Outcome
      BY <1>0, <1>1, ResolutionType
    <2> QED  BY <1>0, <1>4, <2>1, RecordShape
  <1>5. CASE \E free \in Spare[Wanted.key] : Record([Resolution(k) EXCEPT !.key = free, !.expected = Absent, !.managed = TRUE])
    <2>1. PICK free \in Keys : Record([Resolution(k) EXCEPT !.key = free, !.expected = Absent, !.managed = TRUE])
      BY <1>1, <1>5
    <2>2. [Resolution(k) EXCEPT !.key = free, !.expected = Absent, !.managed = TRUE] \in Outcome
      BY <1>0, <1>1, ResolutionType
    <2> QED  BY <1>0, <2>1, <2>2, RecordShape
  <1> QED  BY <1>2, <1>3, <1>4, <1>5

\* An outcome of the row is marked as verified.
LEMMA Confirmed ==
  ASSUME NEW op \in Op, NEW n \in DOMAIN op.outcomes, NEW new, new = [op EXCEPT !.outcomes[n].verified = TRUE]
  PROVE  /\ new \in Op /\ new.shape = op.shape /\ new.content = op.content /\ new.source = op.source /\ new.pin = op.pin
         /\ new.heir = op.heir /\ new.release = op.release /\ new.waiting = op.waiting /\ new.state = op.state
         /\ new.base = op.base /\ new.pinned = op.pinned /\ new.cleaned = op.cleaned
         /\ Len(new.outcomes) = Len(op.outcomes) /\ DOMAIN new.outcomes = DOMAIN op.outcomes
         /\ new.outcomes[n].verified
         /\ \A m \in DOMAIN op.outcomes :
              /\ m # n => new.outcomes[m] = op.outcomes[m]
              /\ new.outcomes[m].key = op.outcomes[m].key /\ new.outcomes[m].asked = op.outcomes[m].asked
              /\ new.outcomes[m].managed = op.outcomes[m].managed /\ new.outcomes[m].mirror = op.outcomes[m].mirror
              /\ new.outcomes[m].expected = op.outcomes[m].expected /\ new.outcomes[m].replaces = op.outcomes[m].replaces
              /\ op.outcomes[m].verified => new.outcomes[m].verified
  <1> DEFINE x == [op.outcomes[n] EXCEPT !.verified = TRUE]
  <1> DEFINE rest == [op.outcomes EXCEPT ![n] = x]
  <1>1. /\ op.outcomes \in Seq(Outcome) /\ DOMAIN op.outcomes = 1..Len(op.outcomes) /\ op.outcomes[n] \in Outcome
    BY OpFields
  <1>2. /\ x \in Outcome /\ x.verified /\ x.key = op.outcomes[n].key /\ x.asked = op.outcomes[n].asked
        /\ x.managed = op.outcomes[n].managed /\ x.mirror = op.outcomes[n].mirror
        /\ x.expected = op.outcomes[n].expected /\ x.replaces = op.outcomes[n].replaces
    BY <1>1 DEF Outcome
  <1>3. [op EXCEPT !.outcomes[n].verified = TRUE] = [op EXCEPT !.outcomes = rest]
    OBVIOUS
  <1> HIDE DEF x
  <1>4. rest \in Seq(Outcome) /\ Len(rest) = Len(op.outcomes) /\ \A m \in DOMAIN op.outcomes : rest[m] = IF m = n THEN x ELSE op.outcomes[m]
    BY <1>1, <1>2, ExceptSeq
  <1>5. DOMAIN rest = DOMAIN op.outcomes
    BY <1>1, <1>4, LenProperties
  <1> HIDE DEF rest
  <1>6. /\ new \in Op /\ new.shape = op.shape /\ new.content = op.content /\ new.source = op.source /\ new.pin = op.pin
         /\ new.heir = op.heir /\ new.release = op.release /\ new.waiting = op.waiting /\ new.state = op.state
         /\ new.base = op.base /\ new.pinned = op.pinned /\ new.cleaned = op.cleaned /\ new.outcomes = rest
    <2>1. new = [op EXCEPT !.outcomes = rest]
      BY <1>3 DEF rest
    <2> QED  BY <1>4, <2>1 DEF Op
  <1>7. \A m \in DOMAIN op.outcomes :
              /\ m # n => rest[m] = op.outcomes[m]
              /\ rest[m].key = op.outcomes[m].key /\ rest[m].asked = op.outcomes[m].asked
              /\ rest[m].managed = op.outcomes[m].managed /\ rest[m].mirror = op.outcomes[m].mirror
              /\ rest[m].expected = op.outcomes[m].expected /\ rest[m].replaces = op.outcomes[m].replaces
              /\ op.outcomes[m].verified => rest[m].verified
    BY <1>2, <1>4
  <1>8. rest[n].verified
    BY <1>2, <1>4
  <1> QED  BY <1>3, <1>4, <1>5, <1>6, <1>7, <1>8

LEMMA VerifiedShape ==
  ASSUME ShapeInv, work # None, work.at \in {"target", "verify"}, work.n \in DOMAIN work.op.outcomes, Verified,
         UNCHANGED <<owners, ingress, cache, staged, todo, disk, trash, touched, spent, lock, held>>,
         placed' \subseteq Keys \X Contents
  PROVE  ShapeInv'
  <1> DEFINE op == [work.op EXCEPT !.outcomes[work.n].verified = TRUE]
  <1> DEFINE w == [[work EXCEPT !.at = "target", !.n = @ + 1] EXCEPT !.op = op]
  <1>0. work.at \in Locked /\ work.at \notin {"stage", "staged"}
    BY DEF Locked
  <1>1. /\ work \in Work /\ work.op \in Op /\ work.op.heir = 0 /\ work.op.state = "running" /\ work.n > 0 /\ work.n \in Nat
        /\ work.op.base # None /\ Len(work.op.outcomes) <= Len(work.op.shape.targets) /\ lock = "executor"
    BY <1>0, AtWork
  <1>2. /\ disk' \in [Keys -> Bytes] /\ trash' \subseteq Item /\ touched' \in [Keys -> BOOLEAN] /\ staged' \in [Ids -> Bytes]
    BY DEF ShapeInv, TypeOK
  <1>3. ops' = [ops EXCEPT ![work.id] = op] /\ work' = w
    BY DEF Verified, Save
  <1>4. /\ op \in Op /\ op.shape = work.op.shape /\ op.content = work.op.content /\ op.pin = work.op.pin
        /\ op.heir = work.op.heir /\ op.release = work.op.release /\ op.waiting = work.op.waiting
        /\ op.state = work.op.state /\ op.base = work.op.base /\ Len(op.outcomes) = Len(work.op.outcomes)
    <2>1. PICK old \in Op, n \in DOMAIN work.op.outcomes : old = work.op /\ n = work.n
      BY <1>1
    <2>2. op = [old EXCEPT !.outcomes[n].verified = TRUE]
      BY <2>1
    <2> HIDE DEF op
    <2> QED  BY <2>1, <2>2, Confirmed
  <1> HIDE DEF op
  <1>5. w \in Work /\ w.id = work.id /\ w.op = op /\ w.n = work.n + 1 /\ w.at = "target"
    <2>1. PICK next \in Nat : next = work.n + 1
      BY <1>1
    <2>2. w = [work EXCEPT !.at = "target", !.n = next, !.op = op]
      BY <1>1, <2>1 DEF Work
    <2> HIDE DEF w
    <2> QED  BY <1>1, <1>4, <2>1, <2>2 DEF Work, Steps
  <1>6. w.n > 0
    BY <1>1, <1>5
  <1> HIDE DEF w
  <1>7. op.shape.targets # <<>> \/ op.base.replicas # {} => staged'[work.id] = op.content
    BY <1>0, <1>4, AtWork DEF NeedsBytes
  <1> QED  BY <1>0, <1>1, <1>2, <1>3, <1>4, <1>5, <1>6, <1>7, StepShape DEF Locked

LEMMA InspectShape ==
  ASSUME ShapeInv, Inspect
  PROVE  ShapeInv'
  <1> USE DEF Inspect, At
  <1>0. work # None /\ work.at = "target" /\ work.at \in Locked /\ More /\ Resolved
    BY DEF Locked
  <1>1. /\ work \in Work /\ work.op \in Op /\ work.n > 0 /\ work.n \in DOMAIN work.op.shape.targets
        /\ work.n \in DOMAIN work.op.outcomes /\ Chosen.key \in Keys /\ lock = "executor" /\ work.op.content \in Contents
    BY <1>0, AtWork, AtTarget, OpFields
  <1>2. /\ disk' \in [Keys -> Bytes] /\ trash' \subseteq Item /\ touched' \in [Keys -> BOOLEAN] /\ staged' \in [Ids -> Bytes]
        /\ disk[Chosen.key] \in Bytes
    BY <1>1 DEF ShapeInv, TypeOK
  <1>3. CASE /\ disk[Chosen.key] = work.op.content /\ Verified /\ UNCHANGED <<lock, held>>
             /\ placed' = IF Chosen.managed THEN placed \cup {<<Chosen.key, disk[Chosen.key]>>} ELSE placed
    <2>1. placed' \subseteq Keys \X Contents
      BY <1>1, <1>3 DEF ShapeInv, TypeOK
    <2> QED  BY <1>0, <1>1, <1>3, <2>1, VerifiedShape
  <1>4. CASE Block /\ UNCHANGED placed
    BY <1>0, <1>2, <1>4, BlockShape
  <1>5. CASE work' = [work EXCEPT !.at = "write", !.found = disk[Chosen.key]] /\ UNCHANGED <<ops, lock, held, placed>>
    <2> DEFINE w == [work EXCEPT !.at = "write", !.found = disk[Chosen.key]]
    <2>1. w \in Work /\ w.id = work.id /\ w.op = work.op /\ w.n = work.n /\ w.at = "write"
      BY <1>1, <1>2 DEF Work, Steps, Swaps
    <2>2. work' = w
      BY <1>5
    <2> HIDE DEF w
    <2>3. placed' \subseteq Keys \X Contents
      BY <1>5 DEF ShapeInv, TypeOK
    <2>4. NeedsBytes => staged'[work.id] = work.op.content
      BY <1>0, AtWork
    <2> QED  BY <1>0, <1>1, <1>2, <1>5, <2>1, <2>2, <2>3, <2>4, MoveShape DEF Locked
  <1> QED  BY <1>3, <1>4, <1>5

-----------------------------------------------------------------------------
\* The steps that write a target, and those that remove an old replica.
Placing == {"write", "retain", "capture", "publish", "replace"}
Removing == {"keep", "unlink", "delete"}

\* A file is moved off an endpoint, or comes back to it where the name is free.
Takes(k) ==
  /\ disk[k] # Absent /\ disk' = [disk EXCEPT ![k] = Absent]
  /\ trash' = trash \cup {[key |-> k, content |-> disk[k], op |-> work.id, pin |-> 0]}

PutsBack(k) ==
  /\ disk[k] = Absent
  /\ \E t \in trash : t.key = k /\ disk' = [disk EXCEPT ![k] = t.content] /\ trash' = trash \ {t}

\* A new version is published: over nothing, unless nothing could be captured.
Puts ==
  /\ work # None /\ work.at \in Placing /\ Publishes
  /\ Write \/ Publish \/ Replace
  /\ work.at # "replace" => disk[Chosen.key] = Absent

\* What every step of the file backend has in common.
LEMMA SwapFrame ==
  ASSUME Swap
  PROVE  /\ work # None /\ work.at \in Locked /\ work.at \in Placing \cup Removing \cup {"restore"}
         /\ UNCHANGED <<owners, ingress, cache, staged, todo, spent>> /\ placed \subseteq placed'
         /\ Restore <=> work.at = "restore"
         /\ work.at = "restore" => Block
         /\ Block \/ UNCHANGED <<ops, lock, held>>
  <1> USE DEF At
  <1>1. CASE Write \/ Publish \/ Replace
    BY <1>1 DEF Write, Publish, Replace, Publishes, Writing, Locked, Placing, Restore
  <1>2. CASE Retain \/ Capture
    BY <1>2 DEF Retain, Capture, Retained, Captured, Rest, Locked, Placing, Restore
  <1>3. CASE Keep \/ Unlink \/ Delete
    BY <1>3 DEF Keep, Unlink, Delete, Retained, Captured, Rest, Locked, Removing, Restore
  <1>4. CASE Restore
    BY <1>4 DEF Restore, Rest, Locked
  <1> QED  BY <1>1, <1>2, <1>3, <1>4 DEF Swap

\* A target is published: the new version is at the name and the executor verifies it.
LEMMA PublishesType ==
  ASSUME ShapeInv, work # None, work.at \in Placing, Publishes
  PROVE  /\ disk' \in [Keys -> Bytes] /\ trash' \subseteq Item /\ placed' \subseteq Keys \X Contents
         /\ touched' \in [Keys -> BOOLEAN]
         /\ work' \in Work /\ work'.id = work.id /\ work'.op = work.op /\ work'.n = work.n /\ work'.at = "verify"
         /\ work'.key = work.key /\ work'.found = work.found /\ UNCHANGED <<ops, lock, held>>
  <1> USE DEF Publishes
  <1>1. /\ work \in Work /\ Chosen.key \in Keys /\ staged[work.id] = work.op.content /\ work.op.content \in Contents
    BY AtWork, AtWrite DEF Placing, Locked
  <1>2. disk' \in [Keys -> Bytes] /\ placed' \subseteq Keys \X Contents /\ trash' \subseteq Item
    BY <1>1 DEF ShapeInv, TypeOK, Bytes
  <1>3. touched' \in [Keys -> BOOLEAN]
    <2>1. (touched[Chosen.key] /\ OtherClaims(work.id, Chosen.key)) \in BOOLEAN
      OBVIOUS
    <2>2. PICK b \in BOOLEAN : touched' = [touched EXCEPT ![Chosen.key] = b]
      BY <2>1
    <2> QED  BY <1>1, <2>2 DEF ShapeInv, TypeOK
  <1>4. /\ work' \in Work /\ work'.id = work.id /\ work'.op = work.op /\ work'.n = work.n /\ work'.at = "verify"
        /\ work'.key = work.key /\ work'.found = work.found
    BY <1>1 DEF Work, Steps
  <1> QED  BY <1>2, <1>3, <1>4

\* A file is captured, or there is none and the operation blocks.
LEMMA CapturedType ==
  ASSUME ShapeInv, work # None, work.at \in Locked, NEW k \in Keys, NEW version, NEW next, Captured(k, version, next)
  PROVE  /\ disk' \in [Keys -> Bytes] /\ trash' \subseteq Item
         /\ \/ Block /\ UNCHANGED <<disk, trash>>
            \/ /\ Takes(k) /\ UNCHANGED <<ops, lock, held>>
               /\ \/ work' = next /\ disk[k] = version
                  \/ /\ work' \in Work /\ work'.id = work.id /\ work'.op = work.op /\ work'.n = work.n
                     /\ work'.at = "restore" /\ work'.key = k /\ work'.found = disk[k] /\ disk[k] # version
  <1>1. CASE Block /\ UNCHANGED <<disk, trash>>
    BY <1>1 DEF ShapeInv, TypeOK
  <1>2. CASE /\ Takes(k) /\ UNCHANGED <<ops, lock, held>>
             /\ work' = IF Differs(k, version) THEN [work EXCEPT !.at = "restore", !.key = k, !.found = disk[k]] ELSE next
    <2>1. disk[k] \in Contents /\ work \in Work /\ work.id \in 0..MaxOps /\ 0 \in 0..MaxEdits /\ Absent \in Bytes
      BY <1>2, AtWork, BoundsAssumption DEF Takes, ShapeInv, TypeOK, Bytes, Ids
    <2>2. [key |-> k, content |-> disk[k], op |-> work.id, pin |-> 0] \in Item
      BY <2>1 DEF Item
    <2>3. disk' \in [Keys -> Bytes] /\ trash' \subseteq Item
      BY <1>2, <2>1, <2>2 DEF Takes, ShapeInv, TypeOK
    <2> DEFINE w == [work EXCEPT !.at = "restore", !.key = k, !.found = disk[k]]
    <2>4. /\ w \in Work /\ w.id = work.id /\ w.op = work.op /\ w.n = work.n /\ w.at = "restore" /\ w.key = k /\ w.found = disk[k]
      BY <2>1 DEF Work, Steps, Swaps, Bytes
    <2>5. work' = IF disk[k] # version THEN w ELSE next
      BY <1>2 DEF Differs
    <2> HIDE DEF w
    <2> QED  BY <1>2, <2>3, <2>4, <2>5
  <1> QED  BY <1>1, <1>2 DEF Captured, Takes

\* What a step of the file backend does: the operation blocks, or the executor
\* goes on to a later step of the same kind.
LEMMA SwapStep ==
  ASSUME ShapeInv, Swap
  PROVE  /\ disk' \in [Keys -> Bytes] /\ trash' \subseteq Item /\ placed' \subseteq Keys \X Contents
         /\ touched' \in [Keys -> BOOLEAN]
         /\ \/ Block /\ UNCHANGED <<placed, touched>>
            \/ /\ UNCHANGED <<ops, lock, held>> /\ work' \in Work
               /\ work'.id = work.id /\ work'.op = work.op /\ work'.n = work.n
               /\ \/ work.at \in Placing /\ work'.at \in (Placing \ {"write"}) \cup {"verify"}
                  \/ work.at \in Removing /\ work'.at \in (Removing \ {"keep"}) /\ work'.key = work.key
                  \/ work.at \in Removing /\ work'.at = "retire"
                  \/ work.at \in Placing \cup Removing /\ work'.at = "restore" /\ work'.key \in Keys
  <1> USE DEF At
  <1>0. /\ disk \in [Keys -> Bytes] /\ trash \subseteq Item /\ placed \subseteq Keys \X Contents
        /\ touched \in [Keys -> BOOLEAN]
    BY DEF ShapeInv, TypeOK
  <1>1. /\ work # None /\ work.at \in Locked /\ work \in Work /\ work.at \in Placing \cup Removing \cup {"restore"}
    BY SwapFrame, AtWork
  <1>2. work.at \in Placing => Chosen.key \in Keys
    BY <1>1, AtWrite DEF Placing
  <1>3. work.at \in Removing => work.key \in Keys
    BY <1>1 DEF Removing, ShapeInv, WorkShaped
  <1>4. CASE Write \/ Publish \/ Replace
    <2>0. work.at \in Placing
      BY <1>4 DEF Write, Publish, Replace, Placing
    <2>1. CASE Publishes
      BY <1>1, <2>0, <2>1, PublishesType
    <2>2. CASE work' = [work EXCEPT !.at = "retain"] /\ UNCHANGED <<ops, lock, held, disk, trash, touched, placed>>
      <3>1. work' \in Work /\ work'.id = work.id /\ work'.op = work.op /\ work'.n = work.n /\ work'.at = "retain"
        BY <1>1, <2>2 DEF Work, Steps, Swaps
      <3> QED  BY <1>0, <2>0, <2>2, <3>1 DEF Placing
    <2>3. CASE work' = [work EXCEPT !.at = "restore", !.key = Chosen.key] /\ UNCHANGED <<ops, lock, held, disk, trash, touched, placed>>
      <3>1. /\ work' \in Work /\ work'.id = work.id /\ work'.op = work.op /\ work'.n = work.n /\ work'.at = "restore"
            /\ work'.key \in Keys
        BY <1>1, <1>2, <2>0, <2>3 DEF Work, Steps, Swaps
      <3> QED  BY <1>0, <2>0, <2>3, <3>1
    <2>4. CASE Block /\ UNCHANGED <<disk, trash, touched, placed>>
      BY <1>0, <2>4
    <2> QED  BY <1>4, <2>1, <2>2, <2>3, <2>4 DEF Write, Publish, Replace
  <1>5. CASE Retain
    <2>1. UNCHANGED <<disk, trash, placed, touched>> /\ work.at = "retain"
      BY <1>5 DEF Retain, Retained, Rest
    <2>2. \/ Block
          \/ work' = [work EXCEPT !.at = "replace"] /\ UNCHANGED <<ops, lock, held>>
          \/ work' = [work EXCEPT !.at = "capture"] /\ UNCHANGED <<ops, lock, held>>
      BY <1>5 DEF Retain, Retained
    <2>3. ASSUME NEW at \in {"replace", "capture"}, work' = [work EXCEPT !.at = at]
          PROVE  work' \in Work /\ work'.id = work.id /\ work'.op = work.op /\ work'.n = work.n /\ work'.at = at
      BY <1>1, <2>3 DEF Work, Steps, Swaps
    <2> QED  BY <1>0, <2>1, <2>2, <2>3 DEF Placing
  <1>6. CASE Capture
    <2> DEFINE w == [work EXCEPT !.at = "publish"]
    <2>1. w \in Work /\ w.id = work.id /\ w.op = work.op /\ w.n = work.n /\ w.at = "publish"
      BY <1>1 DEF Work, Steps, Swaps
    <2>2. Captured(Chosen.key, work.found, w) /\ UNCHANGED <<placed, touched>> /\ work.at = "capture"
      BY <1>6 DEF Capture, Rest
    <2> HIDE DEF w
    <2> QED  BY <1>0, <1>1, <1>2, <2>1, <2>2, CapturedType DEF Placing
  <1>7. CASE Keep
    <2>1. UNCHANGED <<disk, trash, placed, touched>> /\ work.at = "keep"
      BY <1>7 DEF Keep, Retained, Rest
    <2>2. \/ Block
          \/ work' = [work EXCEPT !.at = "delete"] /\ UNCHANGED <<ops, lock, held>>
          \/ work' = [work EXCEPT !.at = "unlink"] /\ UNCHANGED <<ops, lock, held>>
      BY <1>7 DEF Keep, Retained
    <2>3. ASSUME NEW at \in {"delete", "unlink"}, work' = [work EXCEPT !.at = at]
          PROVE  /\ work' \in Work /\ work'.id = work.id /\ work'.op = work.op /\ work'.n = work.n /\ work'.at = at
                 /\ work'.key = work.key
      BY <1>1, <2>3 DEF Work, Steps, Swaps
    <2> QED  BY <1>0, <2>1, <2>2, <2>3 DEF Removing
  <1>8. Gone \in Work /\ Gone.id = work.id /\ Gone.op = work.op /\ Gone.n = work.n /\ Gone.at = "retire"
    BY <1>1 DEF Gone, Work, Steps
  <1>9. CASE Unlink
    <2>1. Captured(work.key, Old(work.key).content, Gone) /\ UNCHANGED <<placed, touched>> /\ work.at = "unlink"
      BY <1>9 DEF Unlink, Rest
    <2>2. work.key \in Keys
      BY <1>3, <2>1 DEF Removing
    <2> QED  BY <1>0, <1>1, <1>8, <2>1, <2>2, CapturedType DEF Removing
  <1>10. CASE Delete
    <2>1. /\ disk' = [disk EXCEPT ![work.key] = Absent] /\ work' = Gone /\ UNCHANGED <<placed, touched, trash, ops, lock, held>>
          /\ work.at = "delete"
      BY <1>10 DEF Delete, Rest
    <2> QED  BY <1>0, <1>8, <2>1 DEF Removing, Bytes
  <1>11. CASE Restore
    <2>1. CASE UNCHANGED <<disk, trash>>
      BY <1>0, <1>11, <2>1 DEF Restore, Rest
    <2>2. CASE \E t \in trash : t.key = work.key /\ disk' = [disk EXCEPT ![work.key] = t.content] /\ trash' = trash \ {t}
      <3>1. PICK t \in trash : t.key = work.key /\ disk' = [disk EXCEPT ![work.key] = t.content] /\ trash' = trash \ {t}
        BY <2>2
      <3>2. t.content \in Bytes
        BY <1>0 DEF Item, Bytes
      <3> QED  BY <1>0, <1>11, <3>1, <3>2 DEF Restore, Rest
    <2> QED  BY <1>11, <2>1, <2>2 DEF Restore
  <1> QED  BY <1>4, <1>5, <1>6, <1>7, <1>9, <1>10, <1>11 DEF Swap

LEMMA SwapShape ==
  ASSUME ShapeInv, Swap
  PROVE  ShapeInv'
  <1>1. /\ work # None /\ work.at \in Locked /\ UNCHANGED <<owners, ingress, cache, staged, todo, spent>>
    BY SwapFrame
  <1>2. /\ disk' \in [Keys -> Bytes] /\ trash' \subseteq Item /\ placed' \subseteq Keys \X Contents
        /\ touched' \in [Keys -> BOOLEAN] /\ staged' \in [Ids -> Bytes]
    BY <1>1, SwapStep DEF ShapeInv, TypeOK
  <1>3. CASE Block /\ UNCHANGED <<placed, touched>>
    <2>2. spent' \in [foreign: 0..MaxForeign, faults: 0..MaxFaults, late: SUBSET Ids,
                      acked: SUBSET [pin: Pins, owner: Owners, content: Contents]]
      BY <1>1 DEF ShapeInv, TypeOK
    <2> QED  BY <1>1, <1>2, <1>3, <2>2, LeaveShape DEF Block
  <1>4. CASE /\ UNCHANGED <<ops, lock, held>> /\ work' \in Work
             /\ work'.id = work.id /\ work'.op = work.op /\ work'.n = work.n
             /\ \/ work.at \in Placing /\ work'.at \in (Placing \ {"write"}) \cup {"verify"}
                \/ work.at \in Removing /\ work'.at \in (Removing \ {"keep"}) /\ work'.key = work.key
                \/ work.at \in Removing /\ work'.at = "retire"
                \/ work.at \in Placing \cup Removing /\ work'.at = "restore" /\ work'.key \in Keys
    <2>1. work.n > 0 /\ work.at \notin {"stage", "staged"}
      BY <1>1, <1>4, AtWork DEF Placing, Removing
    <2>2. NeedsBytes => staged'[work.id] = work.op.content
      BY <1>1, <2>1, AtWork
    <2>3. work.at \in Placing => work.n \in DOMAIN work.op.shape.targets /\ work.n \in DOMAIN work.op.outcomes
      BY <1>1, AtWrite DEF Placing
    <2>4. work.at \in Removing => work.key \in Keys \ (Outcomes(work.op) \cup work.op.shape.preserve) /\ Mirrors(work.key) # {}
      BY <1>1 DEF Removing, ShapeInv, WorkShaped
    <2>5. /\ work'.at \in Locked /\ work'.at # "drop"
          /\ work'.at \in {"write", "retain", "capture", "publish", "replace", "verify"} => work.at \in Placing
          /\ work'.at \in {"ask", "keep", "unlink", "delete"} => work.at \in Removing /\ work'.key = work.key
          /\ work'.at = "restore" => work'.key \in Keys
      BY <1>4 DEF Placing, Removing, Locked
    <2> DEFINE w == work'
    <2>6. work' = w
      OBVIOUS
    <2> HIDE DEF w
    <2> QED  BY <1>1, <1>2, <1>4, <2>1, <2>2, <2>3, <2>4, <2>5, <2>6, MoveShape
  <1> QED  BY <1>3, <1>4, SwapStep

LEMMA VerifyShape ==
  ASSUME ShapeInv, Verify
  PROVE  ShapeInv'
  <1> USE DEF Verify, At, Rest
  <1>0. work # None /\ work.at = "verify" /\ work.at \in Locked /\ work.n \in DOMAIN work.op.outcomes
    BY AtWrite DEF Locked
  <1>1. staged' \in [Ids -> Bytes] /\ placed' \subseteq Keys \X Contents
    BY DEF ShapeInv, TypeOK
  <1>2. CASE Verified /\ UNCHANGED <<lock, held>>
    BY <1>0, <1>1, <1>2, VerifiedShape
  <1>3. CASE Block
    BY <1>0, <1>1, <1>3, BlockShape
  <1> QED  BY <1>2, <1>3

LEMMA PlacedShape ==
  ASSUME ShapeInv, Placed
  PROVE  ShapeInv'
  <1> USE DEF Placed, At, Rest
  <1> DEFINE left == {r.key : r \in work.op.base.replicas}
  <1> DEFINE w == [[work EXCEPT !.at = "retire", !.left = left] EXCEPT !.op = work.op]
  <1>0. work # None /\ work.at = "target" /\ work.at \in Locked
    BY DEF Locked
  <1>1. /\ work \in Work /\ work.op \in Op /\ work.op.state = "running" /\ work.n > 0 /\ work.op.base # None
        /\ Len(work.op.outcomes) <= Len(work.op.shape.targets) /\ lock = "executor"
        /\ work.op.base.replicas \in SUBSET Replica
    BY <1>0, AtWork
  <1>2. left \in SUBSET Keys
    BY <1>1 DEF Replica
  <1>3. /\ disk' \in [Keys -> Bytes] /\ trash' \subseteq Item /\ touched' \in [Keys -> BOOLEAN] /\ staged' \in [Ids -> Bytes]
        /\ placed' \subseteq Keys \X Contents
    BY DEF ShapeInv, TypeOK
  <1>4. work' = w /\ ops' = [ops EXCEPT ![work.id] = work.op]
    BY DEF Save
  <1> HIDE DEF left
  <1>5. w \in Work /\ w.id = work.id /\ w.op = work.op /\ w.n = work.n /\ w.at = "retire"
    BY <1>1, <1>2 DEF Work, Steps
  <1> HIDE DEF w
  <1>6. work.op.shape.targets # <<>> \/ work.op.base.replicas # {} => staged'[work.id] = work.op.content
    BY <1>0, AtWork DEF NeedsBytes
  <1> QED  BY <1>0, <1>1, <1>3, <1>4, <1>5, <1>6, StepShape DEF Locked

\* The executor retires, checks or releases: the copies of the target are done.
LEMMA PastShape ==
  ASSUME ShapeInv, work # None, work.at \in Past, NEW w \in Work, work' = w, w.id = work.id, w.op = work.op, w.n > 0, w.at \in Past,
         UNCHANGED <<ops, lock, held, owners, ingress, cache, todo, placed, touched, spent, staged>>,
         disk' \in [Keys -> Bytes], trash' \subseteq Item,
         w.at \in {"ask", "keep", "unlink", "delete"} =>
           w.key \in Keys \ (Outcomes(work.op) \cup work.op.shape.preserve) /\ Mirrors(w.key) # {},
         w.at = "drop" => w.key \in ReleaseKeys(work.op)
  PROVE  ShapeInv'
  <1>1. /\ work.at \in Locked /\ work.at \notin {"stage", "staged"} /\ w.at \in Locked /\ w.at # "restore"
        /\ w.at \notin {"write", "retain", "capture", "publish", "replace", "verify"}
    BY DEF Past, Locked
  <1>2. NeedsBytes => staged'[work.id] = work.op.content
    BY <1>1, AtWork
  <1>3. /\ staged' \in [Ids -> Bytes] /\ placed' \subseteq Keys \X Contents /\ touched' \in [Keys -> BOOLEAN]
    BY DEF ShapeInv, TypeOK
  <1> QED  BY <1>1, <1>2, <1>3, MoveShape

LEMMA RetireShape ==
  ASSUME ShapeInv, Retire \/ Ask \/ Retired \/ Check \/ Release \/ Drop
  PROVE  ShapeInv'
  <1> USE DEF At, Rest
  <1>0. work # None /\ work.at \in Past /\ work.at \in Locked /\ UNCHANGED <<owners, ingress, cache, todo, placed, touched, spent, staged, trash>>
    BY DEF Past, Locked, Retire, Ask, Retired, Check, Release, Drop
  <1>1. work \in Work /\ work.op \in Op /\ work.n > 0 /\ work.n \in Nat /\ work.op.base.replicas \in SUBSET Replica
    BY <1>0, AtWork
  <1>2. disk \in [Keys -> Bytes] /\ staged' \in [Ids -> Bytes] /\ trash' \subseteq Item
    BY <1>0 DEF ShapeInv, TypeOK
  <1>3. CASE Block /\ UNCHANGED disk
    BY <1>0, <1>2, <1>3, BlockShape
  <1>4. CASE /\ UNCHANGED <<ops, lock, held, disk>>
             /\ \/ \E k \in work.left : work' = [work EXCEPT !.left = @ \ {k}]
                \/ work' = [work EXCEPT !.at = "check", !.n = 1]
                \/ work' = [work EXCEPT !.n = @ + 1]
                \/ \E left \in SUBSET Keys : work' = [work EXCEPT !.at = "release", !.left = left]
             /\ work.at \in {"retire", "check", "release"}
    <2>1. CASE \E k \in work.left : work' = [work EXCEPT !.left = @ \ {k}]
      <3>1. PICK left \in SUBSET Keys : work' = [work EXCEPT !.left = left]
        BY <1>1, <2>1 DEF Work
      <3> DEFINE w == [work EXCEPT !.left = left]
      <3>2. w \in Work /\ w.id = work.id /\ w.op = work.op /\ w.n = work.n /\ w.at = work.at
        BY <1>1 DEF Work
      <3> HIDE DEF w
      <3>3. work' = w
        BY <3>1 DEF w
      <3> QED  BY <1>0, <1>1, <1>2, <1>4, <3>2, <3>3, PastShape
    <2>2. CASE work' = [work EXCEPT !.at = "check", !.n = 1]
      <3> DEFINE w == [work EXCEPT !.at = "check", !.n = 1]
      <3>1. w \in Work /\ w.id = work.id /\ w.op = work.op /\ w.n = 1 /\ w.at = "check" /\ work' = w
        BY <1>1, <2>2 DEF Work, Steps
      <3> HIDE DEF w
      <3>2. w.n > 0 /\ w.at \in Past
        BY <3>1 DEF Past
      <3> QED  BY <1>0, <1>1, <1>2, <1>4, <3>1, <3>2, PastShape
    <2>3. CASE work' = [work EXCEPT !.n = @ + 1]
      <3>1. PICK n \in Nat : n = work.n + 1 /\ n > 0
        BY <1>1
      <3> DEFINE w == [work EXCEPT !.n = n]
      <3>2. w \in Work /\ w.id = work.id /\ w.op = work.op /\ w.n = n /\ w.at = work.at
        BY <1>1 DEF Work
      <3>3. work' = w
        BY <2>3, <3>1, <1>1 DEF Work
      <3> HIDE DEF w
      <3> QED  BY <1>0, <1>1, <1>2, <1>4, <3>1, <3>2, <3>3, PastShape
    <2>4. CASE \E left \in SUBSET Keys : work' = [work EXCEPT !.at = "release", !.left = left]
      <3>1. PICK left \in SUBSET Keys : work' = [work EXCEPT !.at = "release", !.left = left]
        BY <2>4
      <3> DEFINE w == [work EXCEPT !.at = "release", !.left = left]
      <3>2. w \in Work /\ w.id = work.id /\ w.op = work.op /\ w.n = work.n /\ w.at = "release" /\ work' = w
        BY <1>1, <3>1 DEF Work, Steps
      <3> HIDE DEF w
      <3>3. w.at \in Past
        BY <3>2 DEF Past
      <3> QED  BY <1>0, <1>1, <1>2, <1>4, <3>2, <3>3, PastShape
    <2> QED  BY <1>4, <2>1, <2>2, <2>3, <2>4
  <1>5. CASE Retire
    <2> USE DEF Retire
    <2>1. PICK k \in work.left :
            \/ work' = [work EXCEPT !.left = @ \ {k}] /\ UNCHANGED <<ops, lock, held>>
            \/ Block
            \/ Retires(k) /\ work' = [work EXCEPT !.at = "ask", !.key = k] /\ UNCHANGED <<ops, lock, held>>
      BY <1>5
    <2>2. CASE Retires(k) /\ work' = [work EXCEPT !.at = "ask", !.key = k] /\ UNCHANGED <<ops, lock, held>>
      <3> DEFINE w == [work EXCEPT !.at = "ask", !.key = k]
      <3>1. k \in Keys
        BY <1>1 DEF Work
      <3>2. w \in Work /\ w.id = work.id /\ w.op = work.op /\ w.n = work.n /\ w.at = "ask" /\ w.key = k /\ work' = w
        BY <1>1, <2>2, <3>1 DEF Work, Steps
      <3> HIDE DEF w
      <3>3. k \in Keys \ (Outcomes(work.op) \cup work.op.shape.preserve) /\ Mirrors(k) # {}
        BY <2>2, <3>1 DEF Retires
      <3>4. w.at \in Past
        BY <3>2 DEF Past
      <3> QED  BY <1>0, <1>1, <1>2, <1>5, <2>2, <3>2, <3>3, <3>4, PastShape
    <2> QED  BY <1>3, <1>4, <1>5, <2>1, <2>2
  <1>6. CASE Ask
    <2>1. work.key \in Keys \ (Outcomes(work.op) \cup work.op.shape.preserve) /\ Mirrors(work.key) # {}
      BY <1>6 DEF Ask, ShapeInv, WorkShaped
    <2>2. CASE work' = [work EXCEPT !.at = "keep"] /\ UNCHANGED <<ops, lock, held>>
      <3> DEFINE w == [work EXCEPT !.at = "keep"]
      <3>1. w \in Work /\ w.id = work.id /\ w.op = work.op /\ w.n = work.n /\ w.at = "keep" /\ w.key = work.key /\ work' = w
        BY <1>1, <2>2 DEF Work, Steps, Swaps
      <3> HIDE DEF w
      <3>2. w.at \in Past /\ UNCHANGED disk
        BY <1>6, <3>1 DEF Past, Ask
      <3> QED  BY <1>0, <1>1, <1>2, <2>1, <2>2, <3>1, <3>2, PastShape
    <2> QED  BY <1>3, <1>6, <2>2 DEF Ask
  <1>7. CASE Retired
    BY <1>4, <1>7 DEF Retired
  <1>8. CASE Check
    <2>1. (IF work.op.outcomes = <<>> THEN {} ELSE ReleaseKeys(work.op)) \in SUBSET Keys
      BY <1>1, OpFields DEF ReleaseKeys, Location
    <2> QED  BY <1>3, <1>4, <1>8, <2>1 DEF Check
  <1>9. CASE Release
    <2> USE DEF Release
    <2>1. PICK k \in work.left :
            \/ work' = [work EXCEPT !.left = @ \ {k}] /\ UNCHANGED <<ops, lock, held>>
            \/ Block
            \/ Released(k) /\ work' = [work EXCEPT !.at = "drop", !.key = k] /\ UNCHANGED <<ops, lock, held>>
      BY <1>9
    <2>2. CASE Released(k) /\ work' = [work EXCEPT !.at = "drop", !.key = k] /\ UNCHANGED <<ops, lock, held>>
      <3> DEFINE w == [work EXCEPT !.at = "drop", !.key = k]
      <3>1. k \in Keys
        BY <1>1 DEF Work
      <3>2. w \in Work /\ w.id = work.id /\ w.op = work.op /\ w.n = work.n /\ w.at = "drop" /\ w.key = k /\ work' = w
        BY <1>1, <2>2, <3>1 DEF Work, Steps
      <3> HIDE DEF w
      <3>3. k \in ReleaseKeys(work.op)
        <4>1. PICK l \in work.op.release : l = [key |-> k, content |-> disk[k]]
          BY <2>2 DEF Released
        <4>2. l.key = k
          BY <4>1
        <4> QED  BY <4>2 DEF ReleaseKeys
      <3>4. w.at \in Past
        BY <3>2 DEF Past
      <3> QED  BY <1>0, <1>1, <1>2, <1>9, <2>2, <3>2, <3>3, <3>4, PastShape
    <2> QED  BY <1>3, <1>4, <1>9, <2>1, <2>2
  <1>10. CASE Drop
    <2> USE DEF Drop
    <2>1. PICK left \in SUBSET Keys : work' = [work EXCEPT !.at = "release", !.left = left]
      BY <1>1, <1>10 DEF Work
    <2> DEFINE w == [work EXCEPT !.at = "release", !.left = left]
    <2>2. w \in Work /\ w.id = work.id /\ w.op = work.op /\ w.n = work.n /\ w.at = "release" /\ work' = w
      BY <1>1, <2>1 DEF Work, Steps
    <2> HIDE DEF w
    <2>3. disk' \in [Keys -> Bytes] /\ w.at \in Past
      BY <1>2, <1>10, <2>2 DEF Bytes, Past
    <2> QED  BY <1>0, <1>1, <1>2, <1>10, <2>2, <2>3, PastShape
  <1> QED  BY <1>5, <1>6, <1>7, <1>8, <1>9, <1>10

LEMMA ResultType ==
  ASSUME NEW op \in Op, op.base # None
  PROVE  Result(op) \in SUBSET Replica
  <1>1. /\ op.base.replicas \in SUBSET Replica /\ op.content \in Contents
        /\ \A n \in DOMAIN op.outcomes : op.outcomes[n] \in Outcome
    BY OpFields
  <1>2. Kept(op) \in SUBSET Replica
    <2>1. \A r \in Replica : [r EXCEPT !.mirror = FALSE] \in Replica
      BY DEF Replica
    <2> QED  BY <1>1, <2>1 DEF Kept
  <1>3. \A n \in DOMAIN op.outcomes :
          [key |-> op.outcomes[n].key, asked |-> op.outcomes[n].asked, content |-> op.content,
           managed |-> op.outcomes[n].managed, mirror |-> op.outcomes[n].mirror] \in Replica
    BY <1>1 DEF Outcome, Replica
  <1> QED  BY <1>2, <1>3 DEF Result

LEMMA CompleteShape ==
  ASSUME ShapeInv, Complete
  PROVE  ShapeInv'
  <1> USE DEF Complete, At
  <1> DEFINE op == [work.op EXCEPT !.state = "complete"]
  <1> DEFINE w == [[work EXCEPT !.at = "clean"] EXCEPT !.op = op]
  <1>0. work # None /\ work.at = "release" /\ work.at \in Locked
    BY DEF Locked
  <1>1. /\ work \in Work /\ work.op \in Op /\ work.op.heir = 0 /\ work.n > 0 /\ work.op.base # None
        /\ Len(work.op.outcomes) <= Len(work.op.shape.targets) /\ lock = "executor" /\ work.id \in Ids
        /\ work.op.shape.owner \in Owners
    BY <1>0, AtWork, OpFields
  <1>2. /\ disk' \in [Keys -> Bytes] /\ trash' \subseteq Item /\ touched' \in [Keys -> BOOLEAN] /\ staged' \in [Ids -> Bytes]
        /\ placed' \subseteq Keys \X Contents
    BY DEF ShapeInv, TypeOK
  <1>3. owners' \in [Owners -> Ledger \cup {None}]
    <2>1. Result(work.op) \in SUBSET Replica /\ work.id \in 0..MaxOps
      BY <1>1, ResultType DEF Ids
    <2>2. [op |-> work.id, replicas |-> Result(work.op)] \in Ledger
      BY <2>1 DEF Ledger
    <2> QED  BY <1>1, <2>2 DEF ShapeInv, TypeOK
  <1>4. ops' = [ops EXCEPT ![work.id] = op] /\ work' = w
    BY DEF Save
  <1>5. /\ op \in Op /\ op.shape = work.op.shape /\ op.content = work.op.content /\ op.pin = work.op.pin
        /\ op.heir = work.op.heir /\ op.release = work.op.release /\ op.state = "complete" /\ op.base = work.op.base
        /\ op.outcomes = work.op.outcomes
    BY <1>1 DEF Op
  <1> HIDE DEF op
  <1>6. w \in Work /\ w.id = work.id /\ w.op = op /\ w.n = work.n /\ w.at = "clean"
    BY <1>1, <1>5 DEF Work, Steps
  <1> HIDE DEF w
  <1>7. /\ TypeOK' /\ JournalShaped' /\ LockShaped' /\ todo' \subseteq DOMAIN ops'
        /\ DOMAIN ops' = DOMAIN ops /\ w.id \in DOMAIN ops' /\ Alike(op, ops'[w.id])
    BY <1>0, <1>1, <1>2, <1>3, <1>4, <1>5, <1>6, SaveShape
  <1>8. ops'[w.id] = op
    BY <1>1, <1>4, <1>5, <1>6, <1>7, PutOp, AtWork, <1>0 DEF ShapeInv
  <1>9. WorkShaped'
    <2>1. work'.at = "clean" /\ work'.op = op /\ work'.id = w.id /\ work'.n > 0 /\ Terminal(op)
      BY <1>1, <1>4, <1>5, <1>6 DEF Terminal
    <2>2. work'.at \notin Locked /\ work'.at # "queued"
      BY <2>1 DEF Locked
    <2> QED  BY <1>7, <1>8, <2>1, <2>2 DEF WorkShaped, Terminal, Locked
  <1> QED  BY <1>7, <1>9 DEF ShapeInv

\* Cleaning holds a row that is done, as the journal has it.
LEMMA AtClean ==
  ASSUME ShapeInv, work # None, work.at \in Cleaning
  PROVE  /\ work \in Work /\ work.op \in Op /\ work.id \in DOMAIN ops /\ work.n > 0
         /\ Terminal(work.op) /\ ops[work.id] = work.op /\ work.op.pin <= Len(ingress) /\ work.op.pin \in Nat
         /\ lock \in {"edit", "taken", "placed"} => work.op.pin < Len(ingress)
  <1>1. work \in Work /\ work.op \in Op /\ work.id \in DOMAIN ops /\ work.n > 0 /\ Terminal(work.op) /\ ops[work.id] = work.op
    BY WorkFields DEF ShapeInv, WorkShaped, TypeOK
  <1> QED  BY <1>1, OpFields DEF ShapeInv, JournalShaped, LockShaped

\* Cleaning ends, or the row is marked as clean.
LEMMA DoneShape ==
  ASSUME ShapeInv, work # None, work.at \in Cleaning, Done,
         ops' = ops \/ ops' = [ops EXCEPT ![work.id] = [work.op EXCEPT !.cleaned = TRUE]],
         UNCHANGED <<owners, ingress, disk, trash, todo, held, placed, touched, spent>>,
         staged' \in [Ids -> Bytes], cache' \in Seq(Bytes), Len(cache') = Len(cache)
  PROVE  ShapeInv'
  <1> USE DEF Done
  <1>1. work \in Work /\ work.op \in Op /\ work.id \in DOMAIN ops /\ Terminal(work.op) /\ ops[work.id] = work.op
    BY AtClean
  <1>2. lock' \in {"free", "edit", "taken", "placed"} /\ (lock' \in {"edit", "taken", "placed"} => lock' = lock)
    BY DEF ShapeInv, TypeOK
  <1>3. CASE ops' = ops
    <2>1. TypeOK'
      BY <1>2, <1>3 DEF ShapeInv, TypeOK
    <2> QED  BY <1>2, <1>3, <2>1 DEF ShapeInv, JournalShaped, WorkShaped, LockShaped
  <1>4. CASE ops' = [ops EXCEPT ![work.id] = [work.op EXCEPT !.cleaned = TRUE]]
    <2> DEFINE op == [work.op EXCEPT !.cleaned = TRUE]
    <2>1. /\ op \in Op /\ op.shape = work.op.shape /\ op.pin = work.op.pin /\ op.heir = work.op.heir
          /\ op.state = work.op.state /\ op.base = work.op.base /\ op.outcomes = work.op.outcomes
      BY <1>1 DEF Op
    <2>2. ops' = [ops EXCEPT ![work.id] = op]
      BY <1>4
    <2> HIDE DEF op
    <2>3. JournalShaped'
      BY <1>1, <2>1, <2>2, RowWritten DEF ShapeInv, JournalShaped
    <2>4. /\ ops' \in Seq(Op) /\ Len(ops') <= MaxOps /\ DOMAIN ops' = DOMAIN ops
          /\ \A j \in DOMAIN ops : ops'[j] = IF j = work.id THEN op ELSE ops[j]
      BY <1>1, <2>1, <2>2, PutOp DEF ShapeInv
    <2>5. TypeOK'
      BY <1>2, <2>4 DEF ShapeInv, TypeOK
    <2>6. LockShaped'
      BY <1>1, <1>2, <2>1, <2>4 DEF ShapeInv, LockShaped, Terminal
    <2> QED  BY <2>3, <2>4, <2>5, <2>6 DEF ShapeInv, WorkShaped
  <1> QED  BY <1>3, <1>4

LEMMA CleanShape ==
  ASSUME ShapeInv, Clean \/ DropIngress \/ DropPin
  PROVE  ShapeInv'
  <1> USE DEF At
  <1>0. work # None /\ work.at \in Cleaning /\ UNCHANGED <<owners, disk, trash, todo, held, placed, touched, spent>>
    BY DEF Cleaning, Clean, DropIngress, DropPin
  <1>1. /\ work \in Work /\ work.op \in Op /\ work.id \in DOMAIN ops /\ work.n > 0
        /\ Terminal(work.op) /\ ops[work.id] = work.op /\ work.op.pin <= Len(ingress) /\ work.op.pin \in Nat
        /\ work.id \in Ids
    BY <1>0, AtClean, OpIds DEF ShapeInv
  <1>2. staged \in [Ids -> Bytes] /\ cache \in Seq(Bytes) /\ Absent \in Bytes
    BY DEF ShapeInv, TypeOK, Bytes
  <1>3. ASSUME NEW w \in Work, work' = w, w.id = work.id, w.op = work.op, w.n = work.n, w.at \in Cleaning,
               w.at = "dropingress" => w.pin \in 1..work.op.pin /\ work.op.state = "complete",
               w.at = "droppin" => work.op.pin # 0,
               UNCHANGED <<ops, lock>>, TypeOK', Len(ingress') = Len(ingress),
               lock \in {"edit", "taken", "placed"} => ingress'[Len(ingress)] = ingress[Len(ingress)]
        PROVE  ShapeInv'
    <2>1. WorkShaped'
      <3>1. work'.at \notin Locked /\ work'.at # "queued" /\ work'.at \notin {"write", "retain", "capture", "publish", "replace", "restore", "verify", "ask", "keep", "unlink", "delete", "drop"}
        BY <1>3 DEF Locked, Cleaning
      <3> QED  BY <1>1, <1>3, <3>1 DEF WorkShaped, Alike, Locked, Terminal
    <2>2. LockShaped'
      BY <1>3, WorkFields DEF ShapeInv, LockShaped, Terminal, Cleaning
    <2>3. JournalShaped'
      BY <1>3 DEF ShapeInv, JournalShaped
    <2> QED  BY <1>0, <1>3, <2>1, <2>2, <2>3 DEF ShapeInv
  <1>4. CASE Clean
    <2>0. UNCHANGED <<ingress, cache>>
      BY <1>4 DEF Clean
    <2>1. CASE (\E p \in Leftover : work' = [work EXCEPT !.at = "dropingress", !.pin = p]) /\ UNCHANGED <<ops, staged, lock>>
      <3>1. PICK p \in 1..work.op.pin : work' = [work EXCEPT !.at = "dropingress", !.pin = p] /\ UNCHANGED <<ops, staged, lock>>
                                        /\ work.op.state = "complete"
        BY <2>1 DEF Leftover
      <3>2. work.op.pin \in 0..MaxEdits /\ p \in 0..MaxEdits
        <4>1. work.op.pin \in 0..MaxEdits /\ MaxEdits \in Nat
          BY <1>1, BoundsAssumption DEF Op
        <4>2. p \in 1..work.op.pin
          BY <3>1
        <4> QED  BY <4>1, <4>2
      <3> DEFINE w == [work EXCEPT !.at = "dropingress", !.pin = p]
      <3>3. /\ w \in Work /\ w.id = work.id /\ w.op = work.op /\ w.n = work.n /\ w.at = "dropingress" /\ w.pin = p /\ work' = w
        BY <1>1, <3>1, <3>2 DEF Work, Steps
      <3> HIDE DEF w
      <3>4. TypeOK' /\ w.at \in Cleaning
        BY <1>0, <2>0, <3>1, <3>3 DEF ShapeInv, TypeOK, Cleaning
      <3> QED  BY <1>3, <2>0, <3>1, <3>3, <3>4
    <2>2. CASE Done
      <3>1. staged' \in [Ids -> Bytes] /\ (ops' = ops \/ ops' = [ops EXCEPT ![work.id] = [work.op EXCEPT !.cleaned = TRUE]])
        <4>1. staged' = staged \/ staged' = [staged EXCEPT ![work.id] = Absent]
          BY <1>4, <2>2, <1>1 DEF Clean, Done
        <4>2. work' # [work EXCEPT !.at = "droppin"]
          <5>1. [work EXCEPT !.at = "droppin"] \in Work
            BY <1>1 DEF Work, Steps
          <5> QED  BY <2>2, <5>1, WorkFields DEF Done
        <4> QED  BY <1>2, <1>4, <4>1, <4>2 DEF Clean
      <3> QED  BY <1>0, <1>2, <2>0, <2>2, <3>1, DoneShape
    <2>3. CASE /\ work.op.pin # 0 /\ work' = [work EXCEPT !.at = "droppin"] /\ UNCHANGED <<ops, lock>>
               /\ staged' = IF work.op.pinned THEN [staged EXCEPT ![work.id] = Absent] ELSE staged
      <3> DEFINE w == [work EXCEPT !.at = "droppin"]
      <3>1. /\ w \in Work /\ w.id = work.id /\ w.op = work.op /\ w.n = work.n /\ w.at = "droppin" /\ work' = w
        BY <1>1, <2>3 DEF Work, Steps
      <3> HIDE DEF w
      <3>2. staged' \in [Ids -> Bytes]
        BY <1>2, <2>3
      <3>3. TypeOK' /\ w.at \in Cleaning
        BY <1>0, <2>0, <2>3, <3>1, <3>2 DEF ShapeInv, TypeOK, Cleaning
      <3> QED  BY <1>3, <2>0, <2>3, <3>1, <3>3
    <2> QED  BY <1>4, <2>1, <2>2, <2>3 DEF Clean
  <1>5. CASE DropIngress
    <2> USE DEF DropIngress
    <2>1. work.pin \in 1..work.op.pin /\ work.op.state = "complete"
      BY <1>5 DEF ShapeInv, WorkShaped
    <2>2. PICK p \in DOMAIN ingress : p = work.pin /\ (lock \in {"edit", "taken", "placed"} => p < Len(ingress))
      BY <1>0, <1>1, <2>1, AtClean, IngressIds DEF ShapeInv
    <2>3. /\ ingress' \in Seq(Ingress \cup {None}) /\ Len(ingress') = Len(ingress)
          /\ cache' \in Seq(Bytes) /\ Len(cache') = Len(ingress)
          /\ \A q \in DOMAIN ingress : ingress'[q] = IF q = p THEN None ELSE ingress[q]
      BY <1>5, <2>2, DiscardType DEF ShapeInv
    <2> DEFINE w == [work EXCEPT !.at = "clean"]
    <2>4. /\ w \in Work /\ w.id = work.id /\ w.op = work.op /\ w.n = work.n /\ w.at = "clean" /\ work' = w
      BY <1>1, <1>5 DEF Work, Steps
    <2> HIDE DEF w
    <2>5. TypeOK' /\ w.at \in Cleaning
      BY <1>0, <1>5, <2>3, <2>4 DEF ShapeInv, TypeOK, Cleaning
    <2>6. lock \in {"edit", "taken", "placed"} => ingress'[Len(ingress)] = ingress[Len(ingress)]
      BY <2>2, <2>3, EditFields
    <2> QED  BY <1>3, <1>5, <2>3, <2>4, <2>5, <2>6
  <1>6. CASE DropPin
    <2> USE DEF DropPin
    <2>1. work.op.pin # 0
      BY <1>6 DEF ShapeInv, WorkShaped
    <2>2. PICK p \in DOMAIN ingress : p = work.op.pin
      BY <1>1, <2>1, IngressIds DEF ShapeInv
    <2>3. cache' \in Seq(Bytes) /\ Len(cache') = Len(cache)
      BY <1>6, <2>2, PutCache DEF ShapeInv
    <2> QED  BY <1>0, <1>2, <1>6, <2>3, DoneShape
  <1> QED  BY <1>4, <1>5, <1>6

LEMMA NextShape == ShapeInv /\ [Next]_vars => ShapeInv'
  <1> SUFFICES ASSUME ShapeInv, [Next]_vars PROVE ShapeInv'
    OBVIOUS
  <1>1. CASE Callers
    BY <1>1, SubmitShape, SupersedeShape, RetryShape, AdoptShape, EditCaptureShape DEF Callers
  <1>2. CASE Environment
    BY <1>2, ForeignShape, TransientShape, CrashShape, DiskAssumption DEF Environment
  <1>3. CASE StartPass \/ Visit \/ Begin \/ Complete
    BY <1>3, StartPassShape, VisitShape, BeginShape, CompleteShape
  <1>4. CASE Stage \/ StageVerify \/ Resolve \/ Inspect \/ Swap \/ Verify \/ Placed
    BY <1>4, StageShape, ResolveShape, InspectShape, SwapShape, VerifyShape, PlacedShape
  <1>5. CASE Retire \/ Ask \/ Retired \/ Check \/ Release \/ Drop
    BY <1>5, RetireShape
  <1>6. CASE Clean \/ DropIngress \/ DropPin
    BY <1>6, CleanShape
  <1>7. CASE Edit \/ \E p \in DOMAIN ingress : Reclaim(p)
    BY <1>7, EditTakeShape, EditPlaceShape, EditCommitShape, EditRefusedShape, ReclaimShape DEF Edit
  <1>8. CASE \E i \in DOMAIN ops : Elapse(i)
    BY <1>8, ElapseShape
  <1>9. CASE UNCHANGED vars
    BY <1>9 DEF vars, durable, executor, ShapeInv, TypeOK, JournalShaped, WorkShaped, LockShaped, NeedsBytes, Mirrors,
                Outcomes, ReleaseKeys
  <1> QED  BY <1>1, <1>2, <1>3, <1>4, <1>5, <1>6, <1>7, <1>8, <1>9 DEF Next, Executor

\* The shape of the state: what the executor may rely on at each of its steps.
THEOREM ShapeCorrect == Spec => []ShapeInv
  BY InitShape, NextShape, PTL DEF Spec

\* The state keeps its type (ReplicaService.js, all of it).
THEOREM TypeCorrect == Spec => []TypeOK
  <1>1. ShapeInv => TypeOK
    BY DEF ShapeInv
  <1> QED  BY <1>1, ShapeCorrect, PTL

-----------------------------------------------------------------------------
(***************************************************************************)
(* What a step may do to the journal                                        *)
(***************************************************************************)
SamePlan(old, new) ==
  /\ new.shape = old.shape /\ new.content = old.content /\ new.source = old.source
  /\ new.pin = old.pin /\ new.release = old.release

SameProgress(old, new) == SamePlan(old, new) /\ new.base = old.base /\ new.outcomes = old.outcomes /\ new.pinned = old.pinned

\* A row keeps its plan; its base is set by Begin, an outcome is added by
\* Resolve and confirmed by Inspect or Verify.
RowKept(i) ==
  /\ i \in DOMAIN ops' /\ SamePlan(ops[i], ops'[i])
  /\ \/ ops'[i].base = ops[i].base
     \/ Begin /\ work # None /\ i = work.id /\ ops[i].base = None /\ ops'[i].base = Entry(ops[i].shape.owner)
  /\ \/ ops'[i].outcomes = ops[i].outcomes
     \/ /\ Resolve /\ work # None /\ i = work.id /\ work'.op = ops'[i]
        /\ \E x \in Outcome : Record(x) /\ ops'[i].outcomes = Append(ops[i].outcomes, x)
     \/ /\ Inspect \/ Verify
        /\ Verified /\ work # None /\ i = work.id /\ work'.op = ops'[i] /\ disk[Chosen.key] = work.op.content
  /\ ops[i].pinned => ops'[i].pinned
  /\ ~ops[i].pinned /\ ops'[i].pinned => (Stage \/ StageVerify) /\ i = work.id /\ staged'[i] = ops[i].content
  /\ ops[i].state = "complete" => ops'[i].state = "complete"
  /\ ops'[i].state = "complete" => ops[i].state = "complete" \/ (Complete /\ i = work.id)

\* The executor writes its row.
LEMMA Written ==
  ASSUME ShapeInv, work # None, NEW op \in Op, ops' = [ops EXCEPT ![work.id] = op], NEW i \in DOMAIN ops
  PROVE  i \in DOMAIN ops' /\ ops'[i] = IF i = work.id THEN op ELSE ops[i]
  <1>1. work.id \in DOMAIN ops
    BY DEF ShapeInv, WorkShaped
  <1> QED  BY <1>1, PutOp DEF ShapeInv

LEMMA LeftRow ==
  ASSUME ShapeInv, work # None, work.at \in Locked, NEW s \in {"pending", "blocked"}, NEW w \in BOOLEAN,
         Leave([work.op EXCEPT !.state = s, !.waiting = w]), NEW i \in DOMAIN ops
  PROVE  /\ i \in DOMAIN ops' /\ SameProgress(ops[i], ops'[i])
         /\ i # work.id => ops'[i] = ops[i]
         /\ i = work.id => ops'[i].state = s /\ ops'[i].waiting = w /\ ops'[i].heir = 0 /\ ops'[i].cleaned = ops[i].cleaned
         /\ ops[i].state = "complete" <=> ops'[i].state = "complete"
  <1> DEFINE op == [work.op EXCEPT !.state = s, !.waiting = w]
  <1>1. work.op \in Op /\ Alike(work.op, ops[work.id]) /\ ops[work.id].state # "complete" /\ work.op.heir = 0
    BY AtWork
  <1>2. op \in Op
    BY <1>1 DEF Op
  <1>3. SameProgress(work.op, op) /\ op.state = s /\ op.waiting = w /\ op.heir = work.op.heir /\ op.cleaned = work.op.cleaned
    BY <1>1 DEF Op, SameProgress, SamePlan
  <1>4. ops' = [ops EXCEPT ![work.id] = op]
    BY DEF Leave
  <1> HIDE DEF op
  <1>5. i \in DOMAIN ops' /\ ops'[i] = IF i = work.id THEN op ELSE ops[i]
    BY <1>2, <1>4, Written
  <1> QED  BY <1>1, <1>3, <1>5 DEF Alike, SameProgress, SamePlan

LEMMA BlockedRow ==
  ASSUME ShapeInv, work # None, work.at \in Locked, Block, NEW i \in DOMAIN ops
  PROVE  /\ i \in DOMAIN ops' /\ SameProgress(ops[i], ops'[i])
         /\ i # work.id => ops'[i] = ops[i]
         /\ i = work.id => ops'[i].state = "blocked" /\ ~ops'[i].waiting /\ ops'[i].heir = 0 /\ ops'[i].cleaned = ops[i].cleaned
         /\ ops[i].state = "complete" <=> ops'[i].state = "complete"
  <1>1. \E w \in BOOLEAN : w = FALSE /\ Leave([work.op EXCEPT !.state = "blocked", !.waiting = w])
    BY DEF Block
  <1> QED  BY <1>1, LeftRow

LEMMA KeptByCallers ==
  ASSUME ShapeInv, Callers \/ StartPass \/ Visit \/ Edit \/ (\E p \in DOMAIN ingress : Reclaim(p))
                     \/ (\E j \in DOMAIN ops : Elapse(j)) \/ Crash \/ (\E k \in Keys, b \in Bytes : Foreign(k, b)),
         NEW i \in DOMAIN ops
  PROVE  /\ i \in DOMAIN ops' /\ SameProgress(ops[i], ops'[i]) /\ (ops[i].state = "complete" <=> ops'[i].state = "complete")
         /\ ops[i].state = "complete" => ops'[i] = ops[i] \/ (\E j \in DOMAIN ops : Elapse(j))
  <1>0. ops[i] \in Op /\ ops \in Seq(Op)
    BY OpIds DEF ShapeInv, TypeOK
  <1>1. CASE \E r \in NewReceipts : Submit(r)
    <2>1. PICK r \in NewReceipts : Submit(r)
      BY <1>1
    <2>2. ops' = Append(ops, r) /\ Len(ops) < MaxOps /\ r \in Op
      BY <2>1, Receipts DEF Submit, ShapeInv
    <2>3. i \in DOMAIN ops' /\ ops'[i] = ops[i]
      BY <2>2, <1>0, AddOp DEF ShapeInv
    <2> QED  BY <2>3 DEF SameProgress, SamePlan
  <1>2. CASE \E r \in NewReceipts : \E j \in DOMAIN ops : Supersede(j, r)
    <2>1. PICK r \in NewReceipts, j \in DOMAIN ops : Supersede(j, r)
      BY <1>2
    <2> DEFINE g == [r EXCEPT !.release = @ \cup ops[j].release]
    <2>2. g \in Op /\ Len(ops) < MaxOps
      <3>1. r \in Op /\ ops[j].release \in SUBSET Location
        BY Receipts, OpIds, OpFields DEF ShapeInv
      <3> QED  BY <2>1, <3>1, ReceiptGrown DEF Supersede
    <2>3. CASE ops' = Append(ops, g)
      <3> HIDE DEF g
      <3>1. i \in DOMAIN ops' /\ ops'[i] = ops[i]
        BY <2>2, <2>3, <1>0, AddOp DEF ShapeInv
      <3> QED  BY <3>1 DEF SameProgress, SamePlan
    <2>4. CASE j \in Open /\ ops' = Append([ops EXCEPT ![j].state = "cancelled", ![j].heir = Len(ops) + 1], g)
      <3> HIDE DEF g
      <3> DEFINE row == [ops[j] EXCEPT !.state = "cancelled", !.heir = Len(ops) + 1]
      <3>1. ops[j] \in Op /\ Len(ops) + 1 \in 0..MaxOps
        BY <2>2, OpIds, BoundsAssumption DEF ShapeInv
      <3>2. row \in Op /\ SameProgress(ops[j], row) /\ row.state = "cancelled"
        BY <3>1 DEF Op, SameProgress, SamePlan
      <3>3. ops' = Append([ops EXCEPT ![j] = row], g)
        BY <2>4
      <3> HIDE DEF row
      <3> DEFINE rows == [ops EXCEPT ![j] = row]
      <3>4. rows \in Seq(Op) /\ Len(rows) = Len(ops) /\ rows[i] = IF i = j THEN row ELSE ops[i]
        BY <1>0, <3>2, ExceptSeq
      <3>5. ops' = Append(rows, g)
        BY <3>3
      <3> HIDE DEF rows
      <3>6. i \in DOMAIN ops' /\ ops'[i] = rows[i]
        BY <2>2, <3>4, <3>5, AddOp DEF ShapeInv
      <3>7. ops[j].state # "complete"
        BY <2>4 DEF Open, Terminal
      <3> QED  BY <3>2, <3>4, <3>6, <3>7 DEF SameProgress, SamePlan
    <2> QED  BY <2>1, <2>3, <2>4 DEF Supersede
  <1>3. CASE \E j \in DOMAIN ops : Retry(j) \/ Elapse(j)
    <2>1. PICK j \in DOMAIN ops : Retry(j) \/ Elapse(j)
      BY <1>3
    <2>2. CASE Retry(j)
      <3> DEFINE row == [ops[j] EXCEPT !.state = "pending", !.waiting = FALSE]
      <3>1. row \in Op /\ SameProgress(ops[j], row) /\ row.state = "pending" /\ ops[j].state # "complete"
        BY <2>2, OpIds DEF ShapeInv, Op, SameProgress, SamePlan, Retry, Open, Terminal
      <3>2. ops' = [ops EXCEPT ![j] = row]
        BY <2>2 DEF Retry
      <3> HIDE DEF row
      <3>3. i \in DOMAIN ops' /\ ops'[i] = IF i = j THEN row ELSE ops[i]
        BY <3>1, <3>2, PutOp DEF ShapeInv
      <3> QED  BY <3>1, <3>3 DEF SameProgress, SamePlan
    <2>3. CASE Elapse(j)
      <3> DEFINE row == [ops[j] EXCEPT !.waiting = FALSE]
      <3>1. row \in Op /\ SameProgress(ops[j], row) /\ row.state = ops[j].state
        BY OpIds DEF ShapeInv, Op, SameProgress, SamePlan
      <3>2. ops' = [ops EXCEPT ![j] = row]
        BY <2>3 DEF Elapse
      <3> HIDE DEF row
      <3>3. i \in DOMAIN ops' /\ ops'[i] = IF i = j THEN row ELSE ops[i]
        BY <3>1, <3>2, PutOp DEF ShapeInv
      <3> QED  BY <2>3, <3>1, <3>3 DEF SameProgress, SamePlan
    <2> QED  BY <2>1, <2>2, <2>3
  <1>4. CASE Visit
    <2>1. PICK j \in DOMAIN ops : j = Row
      BY <1>4, RowIsLeast DEF Visit, ShapeInv
    <2>2. CASE ~Terminal(ops[j]) /\ ops' = [ops EXCEPT ![j].state = "running"]
      <3> DEFINE row == [ops[j] EXCEPT !.state = "running"]
      <3>1. row \in Op /\ SameProgress(ops[j], row) /\ row.state = "running" /\ ops[j].state # "complete"
        BY <2>2, OpIds DEF ShapeInv, Op, SameProgress, SamePlan, Terminal
      <3>2. ops' = [ops EXCEPT ![j] = row]
        BY <2>2
      <3> HIDE DEF row
      <3>3. i \in DOMAIN ops' /\ ops'[i] = IF i = j THEN row ELSE ops[i]
        BY <3>1, <3>2, PutOp DEF ShapeInv
      <3> QED  BY <3>1, <3>3 DEF SameProgress, SamePlan
    <2> QED  BY <1>4, <2>1, <2>2 DEF Visit, SameProgress, SamePlan
  <1>5. CASE Crash
    BY <1>0, <1>5 DEF Crash, Op, SameProgress, SamePlan
  <1>6. CASE UNCHANGED ops
    BY <1>6 DEF SameProgress, SamePlan
  <1>7. CASE \/ StartPass \/ Edit \/ (\E p \in DOMAIN ingress : Reclaim(p)) \/ (\E k \in Keys, b \in Bytes : Foreign(k, b))
             \/ (\E o \in Owners : \E r \in Replicas(o) : Adopt(o, r))
             \/ (\E o \in Owners, k \in Keys, c \in Contents : EditCapture(o, k, c))
    BY <1>6, <1>7 DEF StartPass, durable, Edit, EditTake, EditPlace, EditCommit, EditRefused, Reclaim, Foreign, Adopt, EditCapture
  <1> QED  BY <1>1, <1>2, <1>3, <1>4, <1>5, <1>7 DEF Callers

LEMMA RowStep ==
  ASSUME ShapeInv, [Next]_vars, NEW i \in DOMAIN ops
  PROVE  RowKept(i)
  <1>0. ops[i] \in Op
    BY OpIds DEF ShapeInv
  <1>1. ASSUME i \in DOMAIN ops', SameProgress(ops[i], ops'[i]), ops[i].state = "complete" <=> ops'[i].state = "complete"
        PROVE  RowKept(i)
    BY <1>1 DEF RowKept, SameProgress
  <1>2. ASSUME UNCHANGED ops  PROVE RowKept(i)
    BY <1>1, <1>2 DEF SameProgress, SamePlan
  <1>3. ASSUME work # None, work.at \in Locked, Block  PROVE RowKept(i)
    BY <1>1, <1>3, BlockedRow
  <1>4. CASE Callers \/ StartPass \/ Visit \/ Edit \/ (\E p \in DOMAIN ingress : Reclaim(p))
                     \/ (\E j \in DOMAIN ops : Elapse(j)) \/ Crash \/ (\E k \in Keys, b \in Bytes : Foreign(k, b))
    BY <1>1, <1>4, KeptByCallers
  <1>5. CASE Transient
    <2>1. work # None /\ work.at \in Locked /\ Leave([work.op EXCEPT !.state = "pending", !.waiting = TRUE])
      BY <1>5 DEF Transient, Steps, Locked
    <2>2. \E w \in BOOLEAN : w = TRUE /\ Leave([work.op EXCEPT !.state = "pending", !.waiting = w])
      BY <2>1
    <2> QED  BY <1>1, <2>1, <2>2, LeftRow
  <1>6. CASE Begin
    <2>0. work # None /\ work.at = "queued"
      BY <1>6 DEF Begin, At
    <2>1. /\ work.op \in Op /\ Alike(work.op, ops[work.id]) /\ work.op.state = "running" /\ ops[work.id].state # "complete"
          /\ work.op.shape.owner \in Owners
      BY <2>0, AtWork, OpFields DEF Locked
    <2>2. CASE UNCHANGED ops
      BY <1>2, <2>2
    <2>3. CASE work.op.base = None /\ Save([work.op EXCEPT !.base = Entry(work.op.shape.owner)], [work EXCEPT !.at = "stage"])
      <3> DEFINE op == [work.op EXCEPT !.base = Entry(work.op.shape.owner)]
      <3>1. Entry(work.op.shape.owner) \in Ledger
        BY <2>1, EntryType DEF ShapeInv
      <3>2. /\ op \in Op /\ SamePlan(work.op, op) /\ op.outcomes = work.op.outcomes /\ op.pinned = work.op.pinned
            /\ op.base = Entry(work.op.shape.owner) /\ op.state = work.op.state
        BY <2>1, <3>1 DEF Op, SamePlan
      <3>3. ops' = [ops EXCEPT ![work.id] = op]
        BY <2>3 DEF Save
      <3> HIDE DEF op
      <3>4. i \in DOMAIN ops' /\ ops'[i] = IF i = work.id THEN op ELSE ops[i]
        BY <2>0, <3>2, <3>3, Written
      <3>5. CASE i = work.id
        BY <1>6, <2>0, <2>1, <2>3, <3>2, <3>4, <3>5 DEF RowKept, Alike, SamePlan
      <3>6. CASE i # work.id
        BY <1>1, <3>4, <3>6 DEF SameProgress, SamePlan
      <3> QED  BY <3>5, <3>6
    <2> QED  BY <1>6, <2>2, <2>3 DEF Begin
  <1>7. CASE Stage \/ StageVerify
    <2>0. work # None /\ work.at \in {"stage", "staged"} /\ work.at \in Locked
      BY <1>7 DEF Stage, StageVerify, At, Locked
    <2>1. work.op \in Op /\ Alike(work.op, ops[work.id]) /\ work.op.state = "running" /\ ops[work.id].state # "complete"
      BY <2>0, AtWork
    <2>2. CASE /\ staged[work.id] = work.op.content /\ UNCHANGED staged
               /\ Save([work.op EXCEPT !.pinned = TRUE], [work EXCEPT !.at = "target"])
      <3> DEFINE op == [work.op EXCEPT !.pinned = TRUE]
      <3>1. /\ op \in Op /\ SamePlan(work.op, op) /\ op.base = work.op.base /\ op.outcomes = work.op.outcomes /\ op.pinned
            /\ op.state = work.op.state
        BY <2>1, Pinned DEF SamePlan
      <3>2. ops' = [ops EXCEPT ![work.id] = op]
        BY <2>2 DEF Save
      <3> HIDE DEF op
      <3>3. i \in DOMAIN ops' /\ ops'[i] = IF i = work.id THEN op ELSE ops[i]
        BY <2>0, <3>1, <3>2, Written
      <3>4. CASE i = work.id
        BY <1>7, <2>0, <2>1, <2>2, <3>1, <3>3, <3>4 DEF RowKept, Alike, SamePlan
      <3>5. CASE i # work.id
        BY <1>1, <3>3, <3>5 DEF SameProgress, SamePlan
      <3> QED  BY <3>4, <3>5
    <2> QED  BY <1>2, <1>3, <1>7, <2>0, <2>2 DEF Stage, StageVerify
  <1>8. CASE Resolve
    <2>0. work # None /\ work.at = "target" /\ work.at \in Locked /\ More /\ ~Resolved
      BY <1>8 DEF Resolve, At, Locked
    <2>1. /\ work.op \in Op /\ work \in Work /\ Alike(work.op, ops[work.id]) /\ work.op.state = "running"
          /\ ops[work.id].state # "complete" /\ Len(work.op.outcomes) < Len(work.op.shape.targets)
      BY <2>0, AtWork, AtTarget
    <2>2. ASSUME NEW x \in Outcome, Record(x)  PROVE RowKept(i)
      <3> DEFINE op == [work.op EXCEPT !.outcomes = Append(@, x)]
      <3>1. /\ op \in Op /\ SamePlan(work.op, op) /\ op.base = work.op.base /\ op.pinned = work.op.pinned
            /\ op.outcomes = Append(work.op.outcomes, x) /\ op.state = work.op.state
        BY <2>1, Recorded DEF SamePlan
      <3>2. ops' = [ops EXCEPT ![work.id] = op] /\ work' = [work EXCEPT !.op = op]
        BY <2>2 DEF Record, Save
      <3> HIDE DEF op
      <3>3. work'.op = op
        BY <2>1, <3>2 DEF Work
      <3>4. i \in DOMAIN ops' /\ ops'[i] = IF i = work.id THEN op ELSE ops[i]
        BY <2>0, <3>1, <3>2, Written
      <3>5. CASE i = work.id
        BY <1>8, <2>0, <2>1, <2>2, <3>1, <3>3, <3>4, <3>5 DEF RowKept, Alike, SamePlan
      <3>6. CASE i # work.id
        BY <1>1, <3>4, <3>6 DEF SameProgress, SamePlan
      <3> QED  BY <3>5, <3>6
    <2> DEFINE k == IF Wanted.onConflict = "rename" /\ Prior # {} THEN Previous.key ELSE Wanted.key
    <2>3. k \in Keys /\ Spare[Wanted.key] \subseteq Keys
      BY <2>0, ResolveKey
    <2>4. \/ Block
          \/ Record(Resolution(k))
          \/ \E free \in Spare[Wanted.key] : Record([Resolution(k) EXCEPT !.key = free, !.expected = Absent, !.managed = TRUE])
      BY <1>8 DEF Resolve
    <2> HIDE DEF k
    <2>5. CASE Record(Resolution(k))
      BY <2>0, <2>2, <2>3, <2>5, ResolutionType
    <2>6. CASE \E free \in Spare[Wanted.key] : Record([Resolution(k) EXCEPT !.key = free, !.expected = Absent, !.managed = TRUE])
      <3>1. PICK free \in Keys : Record([Resolution(k) EXCEPT !.key = free, !.expected = Absent, !.managed = TRUE])
        BY <2>3, <2>6
      <3> QED  BY <2>0, <2>2, <2>3, <3>1, ResolutionType
    <2> QED  BY <1>3, <2>0, <2>4, <2>5, <2>6
  <1>9. CASE Inspect \/ Verify
    <2>0. work # None /\ work.at \in {"target", "verify"} /\ work.at \in Locked /\ work.n \in DOMAIN work.op.outcomes
      BY <1>9, AtTarget, AtWrite DEF Inspect, Verify, At, Locked
    <2>1. work.op \in Op /\ work \in Work /\ Alike(work.op, ops[work.id]) /\ work.op.state = "running" /\ ops[work.id].state # "complete"
      BY <2>0, AtWork
    <2>2. CASE Verified /\ disk[Chosen.key] = work.op.content
      <3> DEFINE op == [work.op EXCEPT !.outcomes[work.n].verified = TRUE]
      <3>1. /\ op \in Op /\ SamePlan(work.op, op) /\ op.base = work.op.base /\ op.pinned = work.op.pinned /\ op.state = work.op.state
        <4>1. PICK old \in Op, n \in DOMAIN work.op.outcomes : old = work.op /\ n = work.n
          BY <2>0, <2>1
        <4>2. op = [old EXCEPT !.outcomes[n].verified = TRUE]
          BY <4>1
        <4> HIDE DEF op
        <4> QED  BY <4>1, <4>2, Confirmed DEF SamePlan
      <3>2. ops' = [ops EXCEPT ![work.id] = op] /\ work' = [[work EXCEPT !.at = "target", !.n = @ + 1] EXCEPT !.op = op]
        BY <2>2 DEF Verified, Save
      <3> HIDE DEF op
      <3>3. work'.op = op
        BY <2>1, <3>2 DEF Work
      <3>4. i \in DOMAIN ops' /\ ops'[i] = IF i = work.id THEN op ELSE ops[i]
        BY <2>0, <3>1, <3>2, Written
      <3>5. CASE i = work.id
        BY <1>9, <2>0, <2>1, <2>2, <3>1, <3>3, <3>4, <3>5 DEF RowKept, Alike, SamePlan
      <3>6. CASE i # work.id
        BY <1>1, <3>4, <3>6 DEF SameProgress, SamePlan
      <3> QED  BY <3>5, <3>6
    <2> QED  BY <1>2, <1>3, <1>9, <2>0, <2>2 DEF Inspect, Verify
  <1>10. CASE Placed
    <2>0. work # None /\ work.at \in Locked
      BY <1>10 DEF Placed, At, Locked
    <2>1. CASE Save(work.op, [work EXCEPT !.at = "retire", !.left = {r.key : r \in work.op.base.replicas}])
      <3>1. work.op \in Op /\ Alike(work.op, ops[work.id]) /\ work.op.state = "running" /\ ops[work.id].state # "complete"
        BY <2>0, AtWork
      <3>2. i \in DOMAIN ops' /\ ops'[i] = IF i = work.id THEN work.op ELSE ops[i]
        BY <2>0, <2>1, <3>1, Written DEF Save
      <3> QED  BY <1>1, <3>1, <3>2 DEF SameProgress, SamePlan, Alike
    <2> QED  BY <1>2, <1>3, <1>10, <2>0, <2>1 DEF Placed
  <1>11. CASE Retire \/ Ask \/ Retired \/ Check \/ Release \/ Drop
    <2>0. work # None /\ work.at \in Locked
      BY <1>11 DEF Retire, Ask, Retired, Check, Release, Drop, At, Locked
    <2> QED  BY <1>2, <1>3, <1>11, <2>0 DEF Retire, Ask, Retired, Check, Release, Drop
  <1>15. CASE Swap
    BY <1>2, <1>3, <1>15, SwapFrame
  <1>12. CASE Complete
    <2>0. work # None /\ work.at \in Locked
      BY <1>12 DEF Complete, At, Locked
    <2> DEFINE op == [work.op EXCEPT !.state = "complete"]
    <2>1. work.op \in Op /\ Alike(work.op, ops[work.id]) /\ ops[work.id].state # "complete"
      BY <2>0, AtWork
    <2>2. op \in Op /\ SameProgress(work.op, op) /\ op.state = "complete"
      BY <2>1 DEF Op, SameProgress, SamePlan
    <2>3. ops' = [ops EXCEPT ![work.id] = op]
      BY <1>12 DEF Complete, Save
    <2> HIDE DEF op
    <2>4. i \in DOMAIN ops' /\ ops'[i] = IF i = work.id THEN op ELSE ops[i]
      BY <2>0, <2>2, <2>3, Written
    <2>5. CASE i = work.id
      BY <1>12, <2>0, <2>1, <2>2, <2>4, <2>5 DEF RowKept, Alike, SamePlan, SameProgress
    <2>6. CASE i # work.id
      BY <1>1, <2>4, <2>6 DEF SameProgress, SamePlan
    <2> QED  BY <2>5, <2>6
  <1>13. CASE Clean \/ DropIngress \/ DropPin
    <2>0. work # None /\ work.at \in Cleaning
      BY <1>13 DEF Clean, DropIngress, DropPin, At, Cleaning
    <2>1. work.op \in Op /\ ops[work.id] = work.op
      BY <2>0, AtClean
    <2>2. CASE ops' = [ops EXCEPT ![work.id] = [work.op EXCEPT !.cleaned = TRUE]]
      <3> DEFINE op == [work.op EXCEPT !.cleaned = TRUE]
      <3>1. op \in Op /\ SameProgress(work.op, op) /\ op.state = work.op.state
        BY <2>1 DEF Op, SameProgress, SamePlan
      <3>2. ops' = [ops EXCEPT ![work.id] = op]
        BY <2>2
      <3> HIDE DEF op
      <3>3. i \in DOMAIN ops' /\ ops'[i] = IF i = work.id THEN op ELSE ops[i]
        BY <2>0, <3>1, <3>2, Written
      <3> QED  BY <1>1, <2>1, <3>1, <3>3 DEF SameProgress, SamePlan
    <2> QED  BY <1>2, <1>13, <2>2 DEF Clean, DropIngress, DropPin
  <1>14. CASE UNCHANGED vars
    BY <1>2, <1>14 DEF vars, durable
  <1> QED  BY <1>4, <1>5, <1>6, <1>7, <1>8, <1>9, <1>10, <1>11, <1>12, <1>13, <1>14, <1>15, DiskAssumption
             DEF Next, Environment, Executor

\* A new row is a receipt, with what the plan it replaces had to release.
LEMMA NewRow ==
  ASSUME ShapeInv, [Next]_vars, NEW i \in DOMAIN ops' \ DOMAIN ops
  PROVE  \E r \in NewReceipts :
           /\ r \in Op /\ i = Len(ops) + 1 /\ Len(ops) < MaxOps
           /\ \/ Submit(r) /\ ops'[i] = r
              \/ \E j \in DOMAIN ops :
                   /\ Supersede(j, r) /\ ops'[i] = [r EXCEPT !.release = @ \cup ops[j].release]
                   /\ ops'[i] \in Op /\ ops'[i].release = r.release \cup ops[j].release
                   /\ ops'[i].shape = r.shape /\ ops'[i].content = r.content /\ ops'[i].source = r.source /\ ops'[i].pin = r.pin
                   /\ ops'[i].state = r.state /\ ops'[i].base = r.base /\ ops'[i].outcomes = r.outcomes /\ ops'[i].heir = r.heir
                   /\ ops'[i].pinned = r.pinned /\ ops'[i].waiting = r.waiting
  <1>0. ops \in Seq(Op)
    BY DEF ShapeInv, TypeOK
  <1>1. CASE DOMAIN ops' = DOMAIN ops
    BY <1>1
  <1>2. CASE \E r \in NewReceipts : Submit(r)
    <2>1. PICK r \in NewReceipts : Submit(r)
      BY <1>2
    <2>2. ops' = Append(ops, r) /\ Len(ops) < MaxOps /\ r \in Op
      BY <2>1, Receipts DEF Submit, ShapeInv
    <2>3. i = Len(ops) + 1 /\ ops'[i] = r
      BY <2>2, <1>0, AddOp DEF ShapeInv
    <2> QED  BY <2>1, <2>2, <2>3
  <1>3. CASE \E r \in NewReceipts : \E j \in DOMAIN ops : Supersede(j, r)
    <2>1. PICK r \in NewReceipts, j \in DOMAIN ops : Supersede(j, r)
      BY <1>3
    <2> DEFINE g == [r EXCEPT !.release = @ \cup ops[j].release]
    <2>2. r \in Op /\ ops[j] \in Op /\ ops[j].release \in SUBSET Location /\ Len(ops) < MaxOps
      BY <2>1, Receipts, OpIds, OpFields DEF ShapeInv, Supersede
    <2>3. /\ g \in Op /\ g.release = r.release \cup ops[j].release
          /\ g.shape = r.shape /\ g.content = r.content /\ g.source = r.source /\ g.pin = r.pin
          /\ g.state = r.state /\ g.base = r.base /\ g.outcomes = r.outcomes /\ g.heir = r.heir
          /\ g.pinned = r.pinned /\ g.waiting = r.waiting /\ g.cleaned = r.cleaned
      BY <2>2, ReceiptGrown
    <2>4. PICK rows \in Seq(Op) : Len(rows) = Len(ops) /\ ops' = Append(rows, g)
      <3>1. CASE ops' = Append(ops, g)
        BY <1>0, <3>1
      <3>2. CASE ops' = Append([ops EXCEPT ![j].state = "cancelled", ![j].heir = Len(ops) + 1], g)
        <4> DEFINE row == [ops[j] EXCEPT !.state = "cancelled", !.heir = Len(ops) + 1]
        <4>0. Len(ops) + 1 \in 0..MaxOps
          BY <2>2, OpIds, BoundsAssumption DEF ShapeInv
        <4>1. row \in Op
          BY <2>2, <4>0 DEF Op
        <4>2. ops' = Append([ops EXCEPT ![j] = row], g)
          BY <3>2
        <4> HIDE DEF row
        <4>3. [ops EXCEPT ![j] = row] \in Seq(Op) /\ Len([ops EXCEPT ![j] = row]) = Len(ops)
          BY <1>0, <4>1, ExceptSeq
        <4> HIDE DEF g
        <4> QED  BY <4>2, <4>3
      <3> QED  BY <2>1, <3>1, <3>2 DEF Supersede
    <2> HIDE DEF g
    <2>5. i = Len(ops) + 1 /\ ops'[i] = g
      BY <2>2, <2>3, <2>4, AddOp DEF ShapeInv
    <2> QED  BY <2>1, <2>2, <2>3, <2>5 DEF g
  <1>4. CASE Transient \/ Crash \/ (\E k \in ForeignKeys, b \in Bytes : Foreign(k, b))
    BY <1>1, <1>4 DEF Transient, Leave, Crash, Foreign, durable
  <1>5. CASE \/ \E j \in DOMAIN ops : Retry(j) \/ Elapse(j)
             \/ \E o \in Owners : \E r \in Replicas(o) : Adopt(o, r)
             \/ \E o \in Owners, k \in Keys, c \in Contents : EditCapture(o, k, c)
    BY <1>1, <1>5 DEF Retry, Adopt, EditCapture, Elapse
  <1>6. CASE StartPass \/ Visit \/ Begin \/ Complete \/ Edit \/ \E p \in DOMAIN ingress : Reclaim(p)
    BY <1>1, <1>6 DEF StartPass, durable, Visit, Begin, Complete, Save, Edit, EditTake, EditPlace, EditCommit, EditRefused, Reclaim
  <1>7. CASE Stage \/ StageVerify \/ Resolve \/ Inspect \/ Verify \/ Placed
    BY <1>1, <1>7 DEF Stage, StageVerify, Resolve, Record, Inspect, Verified, Verify, Placed, Save, Block, Leave
  <1>8. CASE Retire \/ Ask \/ Retired \/ Check \/ Release \/ Drop
    BY <1>1, <1>8 DEF Retire, Ask, Retired, Check, Release, Drop, Block, Leave
  <1>11. CASE Swap
    BY <1>1, <1>11, SwapFrame DEF Block, Leave
  <1>9. CASE Clean \/ DropIngress \/ DropPin
    BY <1>1, <1>9 DEF Clean, DropIngress, DropPin
  <1>10. CASE UNCHANGED vars
    BY <1>1, <1>10 DEF vars, durable
  <1> QED  BY <1>2, <1>3, <1>4, <1>5, <1>6, <1>7, <1>8, <1>9, <1>10, <1>11 DEF Next, Callers, Environment, Executor

\* Who writes the owner ledger.
LEMMA OwnersStep ==
  ASSUME [Next]_vars
  PROVE  \/ UNCHANGED owners
         \/ Complete
         \/ \E o \in Owners : \E r \in Replicas(o) : Adopt(o, r)
         \/ \E r \in NewReceipts : \E i \in Open :
              /\ Supersede(i, r)
              /\ owners' = [owners EXCEPT ![r.shape.owner] = [Entry(r.shape.owner) EXCEPT !.replicas = Inherited(ops[i])]]
  <1>1. CASE Callers
    BY <1>1 DEF Callers, Submit, Supersede, Retry, EditCapture
  <1>2. CASE Environment
    BY <1>2 DEF Environment, Transient, Crash, Foreign, durable
  <1>3. CASE StartPass \/ Visit \/ Begin
    BY <1>3 DEF StartPass, durable, Visit, Begin, Rest
  <1>4. CASE Stage \/ StageVerify \/ Resolve \/ Inspect \/ Verify \/ Placed
    BY <1>4 DEF Stage, StageVerify, Resolve, Inspect, Verify, Placed, Rest
  <1>5. CASE Retire \/ Ask \/ Retired \/ Check \/ Release \/ Drop
    BY <1>5 DEF Retire, Ask, Retired, Check, Release, Drop, Rest
  <1>9. CASE Swap
    BY <1>9, SwapFrame
  <1>6. CASE Clean \/ DropIngress \/ DropPin
    BY <1>6 DEF Clean, DropIngress, DropPin
  <1>7. CASE Edit \/ (\E p \in DOMAIN ingress : Reclaim(p)) \/ \E i \in DOMAIN ops : Elapse(i)
    BY <1>7 DEF Edit, EditTake, EditPlace, EditCommit, EditRefused, Reclaim, Elapse, durable
  <1>8. CASE UNCHANGED vars
    BY <1>8 DEF vars, durable
  <1> QED  BY <1>1, <1>2, <1>3, <1>4, <1>5, <1>6, <1>7, <1>8, <1>9 DEF Next, Executor

\* Who writes an endpoint, and what it says of other writers.
LEMMA DiskStep ==
  ASSUME ShapeInv, [Next]_vars
  PROVE  \/ UNCHANGED <<disk, touched>>
         \/ (\E k \in ForeignKeys, b \in Bytes : Foreign(k, b)) \/ EditTake \/ EditPlace
         \/ EditRefused /\ lock = "taken" /\ PutsBack(Edited.key) /\ UNCHANGED touched
         \/ Puts /\ UNCHANGED ops
         \/ Capture /\ Takes(Chosen.key) /\ UNCHANGED <<touched, ops>> /\ (Caught(Chosen.key) \/ disk[Chosen.key] = work.found)
         \/ Unlink /\ Takes(work.key) /\ UNCHANGED <<touched, ops>> /\ (Caught(work.key) \/ disk[work.key] = Old(work.key).content)
         \/ Delete /\ disk' = [disk EXCEPT ![work.key] = Absent] /\ UNCHANGED <<touched, ops>>
         \/ Restore /\ PutsBack(work.key) /\ UNCHANGED touched
         \/ Drop /\ disk' = [disk EXCEPT ![work.key] = Absent] /\ UNCHANGED touched
  <1>1. CASE Callers
    BY <1>1 DEF Callers, Submit, Supersede, Retry, EditCapture, Adopt
  <1>2. CASE Environment
    BY <1>2 DEF Environment, Transient, Crash
  <1>3. CASE StartPass \/ Visit \/ Begin \/ Complete
    BY <1>3 DEF StartPass, Visit, Begin, Complete, Rest
  <1>4. CASE Stage \/ StageVerify \/ Resolve \/ Inspect \/ Verify \/ Placed
    BY <1>4 DEF Stage, StageVerify, Resolve, Inspect, Verify, Placed, Rest
  <1>5. CASE Retire \/ Ask \/ Retired \/ Check \/ Release \/ Drop
    BY <1>5 DEF Retire, Ask, Retired, Check, Release, Drop, Rest
  <1>9. CASE Swap
    <2>1. CASE Write \/ Publish \/ Replace
      BY <2>1 DEF Write, Publish, Replace, Puts, Publishes, StillThere, At, Placing
    <2>2. CASE Retain \/ Keep
      BY <2>2 DEF Retain, Keep, Retained, Rest
    <2>3. ASSUME work # None, work.at \in {"capture", "unlink"}, NEW k, NEW version, NEW next,
                 Captured(k, version, next), UNCHANGED touched
          PROVE  \/ UNCHANGED <<disk, touched>>
                 \/ Takes(k) /\ UNCHANGED <<touched, ops>> /\ (Caught(k) \/ disk[k] = version)
      <3>1. CASE /\ Takes(k) /\ UNCHANGED ops /\ disk[k] # version
                 /\ work' = [work EXCEPT !.at = "restore", !.key = k, !.found = disk[k]]
        <4>1. work \in Work
          BY <2>3 DEF ShapeInv, TypeOK
        <4>2. work'.at = "restore" /\ work'.found = disk[k]
          BY <3>1, <4>1 DEF Work
        <4>3. [key |-> k, content |-> disk[k], op |-> work.id, pin |-> 0] \in trash'
          BY <3>1 DEF Takes
        <4> QED  BY <2>3, <3>1, <4>2, <4>3 DEF Caught
      <3> QED  BY <2>3, <3>1 DEF Captured, Takes, Differs
    <2>4. CASE Capture
      BY <2>3, <2>4 DEF Capture, Rest, At
    <2>5. CASE Unlink
      BY <2>3, <2>5 DEF Unlink, Rest, At
    <2>6. CASE Delete
      BY <2>6 DEF Delete, Rest
    <2>7. CASE Restore
      BY <2>7 DEF Restore, Rest, PutsBack
    <2> QED  BY <1>9, <2>1, <2>2, <2>4, <2>5, <2>6, <2>7 DEF Swap
  <1>6. CASE Clean \/ DropIngress \/ DropPin
    BY <1>6 DEF Clean, DropIngress, DropPin
  <1>7. CASE Edit \/ (\E p \in DOMAIN ingress : Reclaim(p)) \/ \E i \in DOMAIN ops : Elapse(i)
    BY <1>7 DEF Edit, EditCommit, EditRefused, PutsBack, Reclaim, Elapse, durable
  <1>8. CASE UNCHANGED vars
    BY <1>8 DEF vars, durable
  <1> QED  BY <1>1, <1>2, <1>3, <1>4, <1>5, <1>6, <1>7, <1>8, <1>9 DEF Next, Executor

\* What the service put somewhere stays on record.
LEMMA PlacedGrows ==
  ASSUME [Next]_vars
  PROVE  placed \subseteq placed'
  <1>1. CASE Callers
    BY <1>1 DEF Callers, Submit, Supersede, Retry, EditCapture, Adopt
  <1>2. CASE Environment
    BY <1>2 DEF Environment, Transient, Crash, Foreign
  <1>3. CASE StartPass \/ Visit \/ Begin \/ Complete
    BY <1>3 DEF StartPass, Visit, Begin, Complete, Rest
  <1>4. CASE Stage \/ StageVerify \/ Resolve \/ Inspect \/ Verify \/ Placed
    BY <1>4 DEF Stage, StageVerify, Resolve, Inspect, Verify, Placed, Rest
  <1>5. CASE Retire \/ Ask \/ Retired \/ Check \/ Release \/ Drop
    BY <1>5 DEF Retire, Ask, Retired, Check, Release, Drop, Rest
  <1>9. CASE Swap
    BY <1>9, SwapFrame
  <1>6. CASE Clean \/ DropIngress \/ DropPin
    BY <1>6 DEF Clean, DropIngress, DropPin
  <1>7. CASE Edit \/ (\E p \in DOMAIN ingress : Reclaim(p)) \/ \E i \in DOMAIN ops : Elapse(i)
    BY <1>7 DEF Edit, EditTake, EditPlace, EditCommit, EditRefused, Reclaim, Elapse
  <1>8. CASE UNCHANGED vars
    BY <1>8 DEF vars
  <1> QED  BY <1>1, <1>2, <1>3, <1>4, <1>5, <1>6, <1>7, <1>8, <1>9 DEF Next, Executor

\* ... and nothing has been done for it yet.
LEMMA NewRowFields ==
  ASSUME ShapeInv, [Next]_vars, NEW i \in DOMAIN ops' \ DOMAIN ops
  PROVE  /\ i = Len(ops) + 1 /\ ops'[i].base = None /\ ops'[i].outcomes = <<>> /\ ops'[i].state = "pending"
         /\ ops'[i].heir = 0 /\ ~ops'[i].pinned /\ ~ops'[i].waiting
  <1>1. \A r \in NewReceipts : /\ r.base = None /\ r.outcomes = <<>> /\ r.state = "pending" /\ r.heir = 0
                               /\ ~r.pinned /\ ~r.waiting
    BY DEF NewReceipts, Receipt
  <1>2. PICK r \in NewReceipts :
           /\ i = Len(ops) + 1
           /\ \/ ops'[i] = r
              \/ /\ ops'[i].state = r.state /\ ops'[i].base = r.base /\ ops'[i].outcomes = r.outcomes
                 /\ ops'[i].heir = r.heir /\ ops'[i].pinned = r.pinned /\ ops'[i].waiting = r.waiting
    BY NewRow
  <1> QED  BY <1>1, <1>2

=============================================================================
