---------------------------- MODULE ReplicaLineProofs ----------------------------
(* The line of an owner: its plans are carried out one after the other in the   *)
(* order they were accepted (LineInv), and with that the journal and the ledger   *)
(* carry out the promise of ReplicaPromise, step by step (PromiseKept).            *)
EXTENDS ReplicaDiskProofs

-----------------------------------------------------------------------------
(***************************************************************************)
(* How the state of a row changes                                           *)
(***************************************************************************)
Executing == work # None /\ work.at \notin Cleaning

Live(i) == ~Terminal(ops[i]) \/ (Executing /\ work.id = i)

\* A row is withdrawn by Supersede, ends by Complete, and is opened again when
\* the executor saves the copy it took before.
StatusKept(i) ==
  \/ Status(ops'[i]) = Status(ops[i])
  \/ i \in Open /\ ops'[i].state = "cancelled" /\ \E r \in NewReceipts : Supersede(i, r)
  \/ Complete /\ i = work.id /\ ops'[i].state = "complete"
  \/ /\ Executing /\ i = work.id /\ ops[i].state = "cancelled" /\ ~Terminal(ops'[i])
     /\ DOMAIN ops' = DOMAIN ops /\ ~Complete /\ ~(\E j \in DOMAIN ops : \E r \in NewReceipts : Supersede(j, r))

\* The executor's writes are none of the callers'.
LEMMA Writer ==
  ASSUME ShapeInv, DOMAIN ops' = DOMAIN ops
  PROVE  ~(\E j \in DOMAIN ops : \E r \in NewReceipts : Supersede(j, r))
  <1> SUFFICES ASSUME NEW j \in DOMAIN ops, NEW r \in NewReceipts, Supersede(j, r)  PROVE FALSE
    OBVIOUS
  <1>1. PICK rows, g : ops' = Append(rows, g) /\ rows \in Seq(Op) /\ Len(rows) = Len(ops) /\ g \in Op /\ Len(ops) < MaxOps
    <2>1. r \in Op /\ ops[j] \in Op /\ ops[j].release \in SUBSET Location /\ Len(ops) < MaxOps /\ ops \in Seq(Op)
      BY Receipts, OpIds, OpFields DEF ShapeInv, TypeOK, Supersede
    <2> DEFINE g == [r EXCEPT !.release = @ \cup ops[j].release]
    <2>2. g \in Op
      BY <2>1, ReceiptGrown
    <2> DEFINE row == [ops[j] EXCEPT !.state = "cancelled", !.heir = Len(ops) + 1]
    <2>3. row \in Op
      <3>1. Len(ops) + 1 \in 0..MaxOps
        BY <2>1, OpIds, BoundsAssumption DEF ShapeInv
      <3> QED  BY <2>1, <3>1 DEF Op
    <2>4. ops' = Append(ops, g) \/ ops' = Append([ops EXCEPT ![j] = row], g)
      BY DEF Supersede
    <2> HIDE DEF g, row
    <2>5. [ops EXCEPT ![j] = row] \in Seq(Op) /\ Len([ops EXCEPT ![j] = row]) = Len(ops)
      BY <2>1, <2>3, ExceptSeq
    <2> QED  BY <2>1, <2>2, <2>4, <2>5
  <1> QED  BY <1>1, AddOp DEF ShapeInv

\* The executor saves its copy while it works on it.
LEMMA SavedStatus ==
  ASSUME ShapeInv, work # None, work.at \in Locked \cup {"queued"}, ~Complete,
         NEW op \in Op, ops' = [ops EXCEPT ![work.id] = op], ~Terminal(op), NEW i \in DOMAIN ops
  PROVE  StatusKept(i)
  <1>1. i \in DOMAIN ops' /\ ops'[i] = (IF i = work.id THEN op ELSE ops[i]) /\ DOMAIN ops' = DOMAIN ops
    BY Written
  <1>2. ops[work.id].state # "complete"
    BY AtWork
  <1>3. Executing
    BY DEF Executing, Locked, Cleaning
  <1>4. CASE i # work.id
    BY <1>1, <1>4 DEF StatusKept
  <1>5. CASE i = work.id /\ ops[i].state # "cancelled"
    <2>1. Status(ops'[i]) = Status(ops[i])
      BY <1>1, <1>2, <1>5 DEF Status, Terminal
    <2> QED  BY <2>1 DEF StatusKept
  <1>6. CASE i = work.id /\ ops[i].state = "cancelled"
    BY <1>1, <1>3, <1>6, Writer DEF StatusKept
  <1> QED  BY <1>4, <1>5, <1>6

LEMMA LeftStatus ==
  ASSUME ShapeInv, work # None, work.at \in Locked, ~Complete,
         NEW s \in {"pending", "blocked"}, NEW w \in BOOLEAN,
         Leave([work.op EXCEPT !.state = s, !.waiting = w]), NEW i \in DOMAIN ops
  PROVE  StatusKept(i)
  <1> DEFINE op == [work.op EXCEPT !.state = s, !.waiting = w]
  <1>1. work.op \in Op
    BY AtWork
  <1>2. op \in Op /\ ~Terminal(op)
    BY <1>1 DEF Op, Terminal
  <1>3. ops' = [ops EXCEPT ![work.id] = op]
    BY DEF Leave
  <1> HIDE DEF op
  <1> QED  BY <1>2, <1>3, SavedStatus

LEMMA BlockedStatus ==
  ASSUME ShapeInv, work # None, work.at \in Locked, ~Complete, Block, NEW i \in DOMAIN ops
  PROVE  StatusKept(i)
  <1>1. \E w \in BOOLEAN : w = FALSE /\ Leave([work.op EXCEPT !.state = "blocked", !.waiting = w])
    BY DEF Block
  <1> QED  BY <1>1, LeftStatus

LEMMA StatusStep ==
  ASSUME AlignedInv, [Next]_vars, NEW i \in DOMAIN ops
  PROVE  StatusKept(i)
  <1>0. ShapeInv /\ ops[i] \in Op /\ ops \in Seq(Op)
    BY OpIds DEF AlignedInv, ShapeInv, TypeOK
  <1>1. ASSUME ops'[i].state = ops[i].state  PROVE StatusKept(i)
    BY <1>1 DEF StatusKept, Status
  <1>2. CASE UNCHANGED ops
    BY <1>1, <1>2
  <1>3. CASE \E r \in NewReceipts : Submit(r)
    <2>1. PICK r \in NewReceipts : Submit(r)
      BY <1>3
    <2>2. ops' = Append(ops, r) /\ Len(ops) < MaxOps /\ r \in Op
      BY <1>0, <2>1, Receipts DEF Submit, ShapeInv
    <2>3. ops'[i] = ops[i]
      BY <1>0, <2>2, AddOp DEF ShapeInv
    <2> QED  BY <1>1, <2>3
  <1>4. CASE \E r \in NewReceipts : \E j \in DOMAIN ops : Supersede(j, r)
    <2>1. PICK r \in NewReceipts, j \in DOMAIN ops : Supersede(j, r)
      BY <1>4
    <2> DEFINE g == [r EXCEPT !.release = @ \cup ops[j].release]
    <2>2. g \in Op /\ Len(ops) < MaxOps
      <3>1. r \in Op /\ ops[j].release \in SUBSET Location
        BY <1>0, Receipts, OpIds, OpFields DEF ShapeInv
      <3> QED  BY <2>1, <3>1, ReceiptGrown DEF Supersede
    <2>3. CASE ops' = Append(ops, g)
      <3> HIDE DEF g
      <3>1. ops'[i] = ops[i]
        BY <1>0, <2>2, <2>3, AddOp DEF ShapeInv
      <3> QED  BY <1>1, <3>1
    <2>4. CASE j \in Open /\ ops' = Append([ops EXCEPT ![j].state = "cancelled", ![j].heir = Len(ops) + 1], g)
      <3> HIDE DEF g
      <3> DEFINE row == [ops[j] EXCEPT !.state = "cancelled", !.heir = Len(ops) + 1]
      <3>1. ops[j] \in Op /\ Len(ops) + 1 \in 0..MaxOps
        BY <1>0, <2>2, OpIds, BoundsAssumption DEF ShapeInv
      <3>2. row \in Op /\ row.state = "cancelled"
        BY <3>1 DEF Op
      <3>3. ops' = Append([ops EXCEPT ![j] = row], g)
        BY <2>4
      <3> HIDE DEF row
      <3> DEFINE rows == [ops EXCEPT ![j] = row]
      <3>4. rows \in Seq(Op) /\ Len(rows) = Len(ops) /\ rows[i] = IF i = j THEN row ELSE ops[i]
        BY <1>0, <3>2, ExceptSeq
      <3>5. ops' = Append(rows, g)
        BY <3>3
      <3> HIDE DEF rows
      <3>6. ops'[i] = rows[i]
        BY <1>0, <2>2, <3>4, <3>5, AddOp DEF ShapeInv
      <3>7. CASE i # j
        BY <1>1, <3>4, <3>6, <3>7
      <3>8. CASE i = j
        BY <2>1, <2>4, <3>2, <3>4, <3>6, <3>8 DEF StatusKept
      <3> QED  BY <3>7, <3>8
    <2> QED  BY <2>1, <2>3, <2>4 DEF Supersede
  <1>5. CASE \E j \in DOMAIN ops : Retry(j) \/ Elapse(j)
    <2>1. PICK j \in DOMAIN ops : Retry(j) \/ Elapse(j)
      BY <1>5
    <2>2. CASE Retry(j)
      <3> DEFINE row == [ops[j] EXCEPT !.state = "pending", !.waiting = FALSE]
      <3>1. row \in Op /\ row.state = "pending" /\ ops[j].state \notin {"complete", "cancelled"}
        BY <1>0, <2>2, OpIds DEF ShapeInv, Op, Retry, Open, Terminal
      <3>2. ops' = [ops EXCEPT ![j] = row]
        BY <2>2 DEF Retry
      <3> HIDE DEF row
      <3>3. ops'[i] = IF i = j THEN row ELSE ops[i]
        BY <1>0, <3>1, <3>2, PutOp DEF ShapeInv
      <3> QED  BY <3>1, <3>3 DEF StatusKept, Status
    <2>3. CASE Elapse(j)
      <3> DEFINE row == [ops[j] EXCEPT !.waiting = FALSE]
      <3>1. row \in Op /\ row.state = ops[j].state
        BY <1>0, OpIds DEF ShapeInv, Op
      <3>2. ops' = [ops EXCEPT ![j] = row]
        BY <2>3 DEF Elapse
      <3> HIDE DEF row
      <3>3. ops'[i] = IF i = j THEN row ELSE ops[i]
        BY <1>0, <3>1, <3>2, PutOp DEF ShapeInv
      <3> QED  BY <1>1, <3>1, <3>3
    <2> QED  BY <2>1, <2>2, <2>3
  <1>6. CASE Visit
    <2>1. PICK j \in DOMAIN ops : j = Row
      BY <1>0, <1>6, RowIsLeast DEF Visit, ShapeInv
    <2>2. CASE ~Terminal(ops[j]) /\ ops' = [ops EXCEPT ![j].state = "running"]
      <3> DEFINE row == [ops[j] EXCEPT !.state = "running"]
      <3>1. row \in Op /\ row.state = "running" /\ ops[j].state \notin {"complete", "cancelled"}
        BY <1>0, <2>2, OpIds DEF ShapeInv, Op, Terminal
      <3>2. ops' = [ops EXCEPT ![j] = row]
        BY <2>2
      <3> HIDE DEF row
      <3>3. ops'[i] = IF i = j THEN row ELSE ops[i]
        BY <1>0, <3>1, <3>2, PutOp DEF ShapeInv
      <3> QED  BY <3>1, <3>3 DEF StatusKept, Status
    <2> QED  BY <1>2, <1>6, <2>1, <2>2 DEF Visit
  <1>7. CASE Crash
    <2>1. ops'[i].state = ops[i].state \/ (ops[i].state = "running" /\ ops'[i].state = "pending")
      BY <1>0, <1>7 DEF Crash, Op
    <2> QED  BY <2>1 DEF StatusKept, Status
  <1>8. CASE Transient
    <2>1. work # None /\ work.at \in Locked /\ Leave([work.op EXCEPT !.state = "pending", !.waiting = TRUE])
      BY <1>8 DEF Transient, Steps, Locked
    <2>2. \E w \in BOOLEAN : w = TRUE /\ Leave([work.op EXCEPT !.state = "pending", !.waiting = w])
      BY <2>1
    <2>3. ~Complete
      <3>1. work' = None
        BY <2>1 DEF Leave
      <3>2. SUFFICES ASSUME Complete  PROVE FALSE
        OBVIOUS
      <3>3. work.op \in Op /\ work \in Work
        BY <1>0, <2>1, AtWork
      <3>4. [work.op EXCEPT !.state = "complete"] \in Op
        BY <3>3 DEF Op
      <3>5. work' \in Work
        BY <3>2, <3>3, <3>4 DEF Complete, Save, Work, Steps
      <3> QED  BY <3>1, <3>5, RecordAssumption
    <2> QED  BY <1>0, <2>1, <2>2, <2>3, LeftStatus
  <1>9. CASE Begin \/ Stage \/ StageVerify
    <2>0. work # None /\ work.at \in {"queued", "stage", "staged"} /\ work.at \in Locked \cup {"queued"}
      BY <1>9 DEF Begin, Stage, StageVerify, At, Locked
    <2>1. work.op \in Op /\ work.op.state = "running" /\ work.op.shape.owner \in Owners /\ ~Complete
      BY <1>0, <2>0, AtWork, OpFields DEF Complete, At
    <2>2. CASE Block
      <3>1. work.at \in Locked \/ Begin
        BY <1>9, <2>0 DEF Locked, Stage, StageVerify, At
      <3>2. CASE work.at \in Locked
        BY <1>0, <2>0, <2>1, <2>2, <3>2, BlockedStatus
      <3>3. CASE Begin /\ UNCHANGED ops
        BY <1>2, <3>3
      <3>4. CASE Begin /\ Save([work.op EXCEPT !.base = Entry(work.op.shape.owner)], [work EXCEPT !.at = "stage"])
        <4>1. [work.op EXCEPT !.base = Entry(work.op.shape.owner)] \in Op
          <5>1. Entry(work.op.shape.owner) \in Ledger
            BY <1>0, <2>1, EntryType DEF ShapeInv
          <5> QED  BY <2>1, <5>1 DEF Op
        <4>2. ~Terminal([work.op EXCEPT !.base = Entry(work.op.shape.owner)])
          BY <2>1 DEF Op, Terminal
        <4> QED  BY <1>0, <2>0, <2>1, <3>4, <4>1, <4>2, SavedStatus DEF Save
      <3> QED  BY <3>1, <3>2, <3>3, <3>4 DEF Begin
    <2>3. CASE Begin /\ Save([work.op EXCEPT !.base = Entry(work.op.shape.owner)], [work EXCEPT !.at = "stage"])
      <3>1. Entry(work.op.shape.owner) \in Ledger
        BY <1>0, <2>1, EntryType DEF ShapeInv
      <3>2. [work.op EXCEPT !.base = Entry(work.op.shape.owner)] \in Op
        BY <2>1, <3>1 DEF Op
      <3>3. ~Terminal([work.op EXCEPT !.base = Entry(work.op.shape.owner)])
        BY <2>1 DEF Op, Terminal
      <3> QED  BY <1>0, <2>0, <2>1, <2>3, <3>2, <3>3, SavedStatus DEF Save
    <2>4. CASE Save([work.op EXCEPT !.pinned = TRUE], [work EXCEPT !.at = "target"])
      <3>1. [work.op EXCEPT !.pinned = TRUE] \in Op /\ ~Terminal([work.op EXCEPT !.pinned = TRUE])
        BY <2>1 DEF Op, Terminal
      <3> QED  BY <1>0, <2>0, <2>1, <2>4, <3>1, SavedStatus DEF Save
    <2> QED  BY <1>2, <1>9, <2>2, <2>3, <2>4 DEF Begin, Stage, StageVerify
  <1>10. CASE Resolve
    <2>0. work # None /\ work.at = "target" /\ work.at \in Locked /\ ~Complete
      BY <1>10 DEF Resolve, At, Locked, Complete
    <2>1. work.op \in Op /\ work.op.state = "running"
      BY <1>0, <2>0, AtWork
    <2>2. CASE More /\ ~Resolved /\ \E x \in Outcome : Record(x)
      <3>1. PICK x \in Outcome : Record(x)
        BY <2>2
      <3> DEFINE op == [work.op EXCEPT !.outcomes = Append(@, x)]
      <3>2. op \in Op /\ op.state = "running"
        BY <1>0, <2>0, <2>1, <2>2, AtTarget, Recorded
      <3>3. ops' = [ops EXCEPT ![work.id] = op]
        BY <3>1 DEF Record, Save
      <3> HIDE DEF op
      <3> QED  BY <1>0, <2>0, <3>2, <3>3, SavedStatus DEF Terminal
    <2> QED  BY <1>0, <1>10, <2>0, <2>2, BlockedStatus, ResolveStep
  <1>11. CASE Inspect \/ Verify
    <2>0. /\ work # None /\ work.at \in {"target", "verify"} /\ work.at \in Locked /\ work.n \in DOMAIN work.op.outcomes
          /\ ~Complete
      BY <1>0, <1>11, AtTarget, AtWrite DEF Inspect, Verify, At, Locked, Complete
    <2>1. work.op \in Op /\ work.op.state = "running"
      BY <1>0, <2>0, AtWork
    <2>2. CASE Verified
      <3> DEFINE op == [work.op EXCEPT !.outcomes[work.n].verified = TRUE]
      <3>1. PICK old \in Op, n \in DOMAIN work.op.outcomes : old = work.op /\ n = work.n
        BY <2>0, <2>1
      <3>2. op = [old EXCEPT !.outcomes[n].verified = TRUE]
        BY <3>1
      <3>3. ops' = [ops EXCEPT ![work.id] = op]
        BY <2>2 DEF Verified, Save
      <3> HIDE DEF op
      <3>4. op \in Op /\ op.state = "running"
        BY <2>1, <3>1, <3>2, Confirmed
      <3> QED  BY <1>0, <2>0, <3>3, <3>4, SavedStatus DEF Terminal
    <2> QED  BY <1>0, <1>2, <1>11, <2>0, <2>2, BlockedStatus DEF Inspect, Verify
  <1>12. CASE Placed \/ Retire \/ Ask \/ Retired \/ Check \/ Release \/ Drop
    <2>0. work # None /\ work.at \in Locked
      BY <1>12 DEF Placed, Retire, Ask, Retired, Check, Release, Drop, At, Locked
    <2>1. work.op \in Op /\ work.op.state = "running" /\ work \in Work
      BY <1>0, <2>0, AtWork
    <2>2. CASE Placed
      <3>1. ops' = [ops EXCEPT ![work.id] = work.op] /\ ~Complete
        BY <2>2 DEF Placed, Save, Complete, At
      <3> QED  BY <1>0, <2>0, <2>1, <3>1, SavedStatus DEF Terminal
    <2>3. CASE Block
      <3>1. ~Complete
        <4>1. work' = None
          BY <2>3 DEF Block, Leave
        <4>2. SUFFICES ASSUME Complete  PROVE FALSE
          OBVIOUS
        <4>3. [work.op EXCEPT !.state = "complete"] \in Op
          BY <2>1 DEF Op
        <4>4. work' \in Work
          BY <2>1, <4>2, <4>3 DEF Complete, Save, Work, Steps
        <4> QED  BY <4>1, <4>4, RecordAssumption
      <3> QED  BY <1>0, <2>0, <2>3, <3>1, BlockedStatus
    <2> QED  BY <1>2, <1>12, <2>2, <2>3 DEF Retire, Ask, Retired, Check, Release, Drop
  <1>13. CASE Complete
    <2>0. work # None /\ work.at \in Locked
      BY <1>13 DEF Complete, At, Locked
    <2> DEFINE op == [work.op EXCEPT !.state = "complete"]
    <2>1. work.op \in Op
      BY <1>0, <2>0, AtWork
    <2>2. op \in Op /\ op.state = "complete"
      BY <2>1 DEF Op
    <2>3. ops' = [ops EXCEPT ![work.id] = op]
      BY <1>13 DEF Complete, Save
    <2> HIDE DEF op
    <2>4. ops'[i] = IF i = work.id THEN op ELSE ops[i]
      BY <1>0, <2>0, <2>2, <2>3, Written
    <2>5. CASE i = work.id
      BY <1>13, <2>2, <2>4, <2>5 DEF StatusKept
    <2>6. CASE i # work.id
      BY <1>1, <2>4, <2>6
    <2> QED  BY <2>5, <2>6
  <1>14. CASE Clean \/ DropIngress \/ DropPin
    <2>0. work # None /\ work.at \in Cleaning
      BY <1>14 DEF Clean, DropIngress, DropPin, At, Cleaning
    <2>1. work.op \in Op /\ ops[work.id] = work.op
      BY <1>0, <2>0, AtClean
    <2>2. CASE ops' = [ops EXCEPT ![work.id] = [work.op EXCEPT !.cleaned = TRUE]]
      <3> DEFINE op == [work.op EXCEPT !.cleaned = TRUE]
      <3>1. op \in Op /\ op.state = work.op.state
        BY <2>1 DEF Op
      <3>2. ops' = [ops EXCEPT ![work.id] = op]
        BY <2>2
      <3> HIDE DEF op
      <3>3. ops'[i] = IF i = work.id THEN op ELSE ops[i]
        BY <1>0, <2>0, <3>1, <3>2, Written
      <3> QED  BY <1>1, <2>1, <3>1, <3>3
    <2> QED  BY <1>2, <1>14, <2>2 DEF Clean, DropIngress, DropPin
  <1>15. CASE \/ StartPass \/ Edit \/ (\E p \in DOMAIN ingress : Reclaim(p)) \/ (\E k \in Keys, b \in Bytes : Foreign(k, b))
              \/ (\E o \in Owners : \E r \in Replicas(o) : Adopt(o, r))
              \/ (\E o \in Owners, k \in Keys, c \in Contents : EditCapture(o, k, c)) \/ UNCHANGED vars
    BY <1>2, <1>15 DEF StartPass, durable, Edit, EditTake, EditPlace, EditCommit, EditRefused, Reclaim, Foreign, Adopt, EditCapture, vars
  <1>16. CASE Swap
    <2>0. work # None /\ work.at \in Locked /\ (Block \/ UNCHANGED ops)
      BY <1>16, SwapFrame
    <2>1. ~Complete
      BY <1>16, SwapFrame DEF Complete, At, Placing, Removing
    <2> QED  BY <1>0, <1>2, <2>0, <2>1, BlockedStatus
  <1> QED  BY <1>3, <1>4, <1>5, <1>6, <1>7, <1>8, <1>9, <1>10, <1>11, <1>12, <1>13, <1>14, <1>15, <1>16, DiskAssumption
             DEF Next, Callers, Environment, Executor

-----------------------------------------------------------------------------
(***************************************************************************)
(* How the executor moves along the journal                                 *)
(***************************************************************************)
GoesOn ==
  /\ work # None /\ work' # None /\ work'.id = work.id /\ UNCHANGED <<todo, held>>
  /\ work.at \in Cleaning => work'.at \in Cleaning
  /\ work'.at \in Past => work.at \in Past \/ Placed

LeavesRow ==
  /\ work # None /\ work' = None /\ work.at \notin Cleaning /\ UNCHANGED todo
  /\ held' = held \cup {ops[work.id].shape.owner}

LeavesClean == work # None /\ work' = None /\ work.at \in Cleaning /\ UNCHANGED <<todo, held>>

LEMMA Moved ==
  ASSUME NEW w \in Work, work' = w, work # None, w.id = work.id, UNCHANGED <<todo, held>>,
         work.at \in Cleaning => w.at \in Cleaning, w.at \in Past => work.at \in Past \/ Placed
  PROVE  GoesOn
  BY RecordAssumption DEF GoesOn

LEMMA Left ==
  ASSUME ShapeInv, work # None, work.at \in Locked \cup {"queued"}, UNCHANGED todo, NEW s, NEW w,
         Leave([work.op EXCEPT !.state = s, !.waiting = w])
  PROVE  LeavesRow
  <1>1. work.op \in Op /\ Alike(work.op, ops[work.id])
    BY AtWork
  <1>2. [work.op EXCEPT !.state = s, !.waiting = w].shape = ops[work.id].shape
    BY <1>1 DEF Op, Alike
  <1>3. work' = None /\ held' = held \cup {ops[work.id].shape.owner}
    BY <1>2 DEF Leave
  <1> QED  BY <1>3 DEF LeavesRow, Locked, Cleaning

LEMMA LeftBlocked ==
  ASSUME ShapeInv, work # None, work.at \in Locked \cup {"queued"}, UNCHANGED todo, Block
  PROVE  LeavesRow
  BY Left DEF Block

LEMMA PassStep ==
  ASSUME ShapeInv, [Next]_vars
  PROVE  \/ StartPass
         \/ Crash
         \/ Visit
         \/ UNCHANGED executor
         \/ GoesOn \/ LeavesRow \/ LeavesClean
  <1>1. CASE Callers
    BY <1>1 DEF Callers, Submit, Supersede, Retry, Adopt, EditCapture
  <1>2. CASE Environment
    <2>1. CASE Transient
      <3>1. work # None /\ work.at \in Locked /\ Leave([work.op EXCEPT !.state = "pending", !.waiting = TRUE]) /\ UNCHANGED todo
        BY <2>1 DEF Transient, Steps, Locked
      <3> QED  BY <3>1, Left
    <2> QED  BY <1>2, <2>1 DEF Environment, Foreign
  <1>3. CASE Edit \/ (\E p \in DOMAIN ingress : Reclaim(p)) \/ \E i \in DOMAIN ops : Elapse(i)
    BY <1>3 DEF Edit, EditTake, EditPlace, EditCommit, EditRefused, Reclaim, Elapse
  <1>4. CASE Begin \/ Stage \/ StageVerify
    <2>0. work # None /\ work.at \in {"queued", "stage", "staged"} /\ work.at \in Locked \cup {"queued"} /\ UNCHANGED todo
      BY <1>4 DEF Begin, Stage, StageVerify, At, Locked, Rest
    <2>1. work \in Work /\ work.op \in Op /\ work.op.shape.owner \in Owners
      BY <2>0, AtWork, OpFields
    <2>2. CASE Block
      BY <2>0, <2>2, LeftBlocked
    <2>3. ASSUME NEW at \in {"stage", "staged", "target"}, NEW op \in Op, UNCHANGED held,
                 work' = [work EXCEPT !.at = at] \/ work' = [[work EXCEPT !.at = at] EXCEPT !.op = op]
          PROVE  GoesOn
      <3>1. work' \in Work /\ work'.id = work.id /\ work'.at = at
        BY <2>1, <2>3 DEF Work, Steps
      <3> QED  BY <2>0, <2>3, <3>1, Moved DEF Past, Cleaning
    <2>4. Entry(work.op.shape.owner) \in Ledger
      BY <2>1, EntryType DEF ShapeInv
    <2>5. [work.op EXCEPT !.base = Entry(work.op.shape.owner)] \in Op /\ [work.op EXCEPT !.pinned = TRUE] \in Op
      BY <2>1, <2>4 DEF Op
    <2> QED  BY <1>4, <2>1, <2>2, <2>3, <2>5 DEF Begin, Stage, StageVerify, Save
  <1>5. CASE Resolve
    <2>0. work # None /\ work.at = "target" /\ More /\ ~Resolved /\ UNCHANGED todo /\ work.at \in Locked
      BY <1>5 DEF Resolve, At, Rest, Locked
    <2> DEFINE k == IF Wanted.onConflict = "rename" /\ Prior # {} THEN Previous.key ELSE Wanted.key
    <2>1. k \in Keys /\ Spare[Wanted.key] \subseteq Keys
      BY <2>0, ResolveKey
    <2>2. \/ Block
          \/ Record(Resolution(k))
          \/ \E free \in Spare[Wanted.key] : Record([Resolution(k) EXCEPT !.key = free, !.expected = Absent, !.managed = TRUE])
      BY <1>5 DEF Resolve
    <2> HIDE DEF k
    <2>3. ASSUME NEW x \in Outcome, Record(x)  PROVE GoesOn
      <3> DEFINE op == [work.op EXCEPT !.outcomes = Append(@, x)]
      <3>1. work \in Work /\ op \in Op
        BY <2>0, AtWork, AtTarget, Recorded
      <3>2. work' = [work EXCEPT !.op = op] /\ UNCHANGED held
        BY <2>3 DEF Record, Save
      <3> HIDE DEF op
      <3>3. work' \in Work /\ work'.id = work.id /\ work'.at = "target"
        BY <2>0, <3>1, <3>2 DEF Work
      <3> QED  BY <2>0, <3>2, <3>3, Moved DEF Past, Cleaning
    <2>4. CASE \E free \in Spare[Wanted.key] : Record([Resolution(k) EXCEPT !.key = free, !.expected = Absent, !.managed = TRUE])
      <3>1. PICK free \in Keys : Record([Resolution(k) EXCEPT !.key = free, !.expected = Absent, !.managed = TRUE])
        BY <2>1, <2>4
      <3>2. [Resolution(k) EXCEPT !.key = free, !.expected = Absent, !.managed = TRUE] \in Outcome
        BY <2>0, <2>1, ResolutionType
      <3> QED  BY <2>3, <3>1, <3>2
    <2>5. CASE Record(Resolution(k))
      <3>1. Resolution(k) \in Outcome
        BY <2>0, <2>1, ResolutionType
      <3> QED  BY <2>3, <2>5, <3>1
    <2> QED  BY <2>0, <2>2, <2>4, <2>5, LeftBlocked
  <1>6. CASE Inspect \/ Verify
    <2>0. /\ work # None /\ work.at \in {"target", "verify"} /\ work.at \in Locked /\ UNCHANGED todo
          /\ work.n \in DOMAIN work.op.outcomes
      BY <1>6, AtTarget, AtWrite DEF Inspect, Verify, At, Locked, Rest
    <2>1. work \in Work /\ work.op \in Op /\ work.n \in Nat /\ disk \in [Keys -> Bytes]
      BY <2>0, AtWork DEF ShapeInv, TypeOK
    <2>2. CASE Block
      BY <2>0, <2>2, LeftBlocked
    <2>3. CASE Verified /\ UNCHANGED held
      <3> DEFINE op == [work.op EXCEPT !.outcomes[work.n].verified = TRUE]
      <3>1. PICK old \in Op, n \in DOMAIN work.op.outcomes : old = work.op /\ n = work.n
        BY <2>0, <2>1
      <3>2. op = [old EXCEPT !.outcomes[n].verified = TRUE]
        BY <3>1
      <3>3. work' = [[work EXCEPT !.at = "target", !.n = @ + 1] EXCEPT !.op = op]
        BY <2>3 DEF Verified, Save
      <3> HIDE DEF op
      <3>4. op \in Op
        BY <2>1, <3>1, <3>2, Confirmed
      <3>5. PICK next \in Nat : next = work.n + 1
        BY <2>1
      <3>6. work' = [work EXCEPT !.at = "target", !.n = next, !.op = op]
        BY <2>1, <3>3, <3>5 DEF Work
      <3>7. work' \in Work /\ work'.id = work.id /\ work'.at = "target"
        BY <2>1, <3>4, <3>6 DEF Work, Steps
      <3> QED  BY <2>0, <2>3, <3>7, Moved DEF Past, Cleaning
    <2>4. CASE work' = [work EXCEPT !.at = "write", !.found = disk[Chosen.key]] /\ UNCHANGED held
      <3>1. disk[Chosen.key] \in Bytes
        BY <2>0, <2>1, OpFields DEF Chosen, Outcome
      <3>2. work' \in Work /\ work'.id = work.id /\ work'.at = "write"
        BY <2>1, <2>4, <3>1 DEF Work, Steps, Swaps
      <3> QED  BY <2>0, <2>4, <3>2, Moved DEF Past, Cleaning
    <2> QED  BY <1>6, <2>2, <2>3, <2>4 DEF Inspect, Verify
  <1>7. CASE Placed
    <2>0. work # None /\ work.at = "target" /\ work.at \in Locked /\ UNCHANGED <<todo, held>>
      BY <1>7 DEF Placed, At, Rest, Locked
    <2>1. work \in Work /\ work.op \in Op /\ work.op.base.replicas \in SUBSET Replica
      BY <2>0, AtWork
    <2> DEFINE left == {r.key : r \in work.op.base.replicas}
    <2>2. left \in SUBSET Keys
      BY <2>1 DEF Replica
    <2>3. work' = [[work EXCEPT !.at = "retire", !.left = left] EXCEPT !.op = work.op]
      BY <1>7 DEF Placed, Save
    <2> HIDE DEF left
    <2>4. work' \in Work /\ work'.id = work.id
      BY <2>1, <2>2, <2>3 DEF Work, Steps
    <2> QED  BY <1>7, <2>0, <2>4, Moved DEF Cleaning
  <1>8. CASE Retire \/ Ask \/ Retired \/ Check \/ Release \/ Drop
    <2>0. work # None /\ work.at \in Past /\ work.at \in Locked /\ UNCHANGED todo
      BY <1>8 DEF Retire, Ask, Retired, Check, Release, Drop, At, Past, Locked, Rest
    <2>1. work \in Work /\ work.op \in Op /\ work.n \in Nat /\ work.n + 1 \in Nat
      BY <2>0, AtWork
    <2>2. CASE Block
      BY <2>0, <2>2, LeftBlocked
    <2>3. ReleaseKeys(work.op) \in SUBSET Keys
      BY <2>1, OpFields DEF ReleaseKeys, Location
    <2>4. \A k \in work.left : k \in Keys
      BY <2>1, WorkFields
    <2>5. CASE ~Block
      <3>1. work' \in Work /\ work'.id = work.id
        <4>1. CASE Retire
          BY <1>8, <2>1, <2>4, <2>5, <4>1 DEF Retire, Work, Steps
        <4>2. CASE Ask \/ Retired
          <5>1. work' = [work EXCEPT !.at = "keep"] \/ work' = [work EXCEPT !.at = "check", !.n = 1]
            BY <2>5, <4>2 DEF Ask, Retired
          <5>2. PICK n \in Nat : n = 1
            OBVIOUS
          <5>3. CASE work' = [work EXCEPT !.at = "keep"]
            BY <2>1, <5>3 DEF Work, Steps, Swaps
          <5>4. CASE work' = [work EXCEPT !.at = "check", !.n = n]
            BY <2>1, <5>4 DEF Work, Steps
          <5> QED  BY <5>1, <5>2, <5>3, <5>4
        <4>3. CASE Drop
          BY <1>8, <2>1, <2>5, <4>3 DEF Drop, Work, Steps
        <4>4. CASE Check
          <5>1. PICK n \in Nat : n = work.n + 1
            BY <2>1
          <5>2. \/ work' = [work EXCEPT !.n = n]
                \/ work' = [work EXCEPT !.at = "release", !.left = IF work.op.outcomes = <<>> THEN {} ELSE ReleaseKeys(work.op)]
            BY <2>1, <2>5, <4>4, <5>1 DEF Check
          <5> QED  BY <2>1, <2>3, <5>2 DEF Work, Steps
        <4>5. CASE Release
          BY <1>8, <2>1, <2>4, <2>5, <4>5 DEF Release, Work, Steps
        <4> QED  BY <1>8, <4>1, <4>2, <4>3, <4>4, <4>5
      <3>2. UNCHANGED held
        BY <1>8, <2>5 DEF Retire, Ask, Retired, Check, Release, Drop
      <3> QED  BY <2>0, <3>1, <3>2, Moved DEF Past, Cleaning
    <2> QED  BY <2>2, <2>5
  <1>9. CASE Complete
    <2>0. work # None /\ work.at = "release" /\ work.at \in Locked /\ UNCHANGED <<todo, held>>
      BY <1>9 DEF Complete, At, Locked
    <2>1. work \in Work /\ work.op \in Op
      BY <2>0, AtWork
    <2>2. [work.op EXCEPT !.state = "complete"] \in Op
      BY <2>1 DEF Op
    <2>3. work' \in Work /\ work'.id = work.id /\ work'.at = "clean"
      BY <1>9, <2>1, <2>2 DEF Complete, Save, Work, Steps
    <2> QED  BY <2>0, <2>3, Moved DEF Past, Cleaning
  <1>10. CASE Clean \/ DropIngress \/ DropPin
    <2>0. work # None /\ work.at \in Cleaning /\ UNCHANGED <<todo, held>>
      BY <1>10 DEF Clean, DropIngress, DropPin, At, Cleaning
    <2>1. work \in Work /\ work.op \in Op /\ work.op.pin \in 0..MaxEdits /\ 1..work.op.pin \subseteq 0..MaxEdits
      <3>1. work \in Work /\ work.op \in Op
        BY <2>0, AtClean
      <3>2. work.op.pin \in 0..MaxEdits /\ MaxEdits \in Nat
        BY <3>1, BoundsAssumption DEF Op
      <3> QED  BY <3>1, <3>2
    <2>2. CASE work' = None
      BY <2>0, <2>2 DEF LeavesClean
    <2>3. CASE \/ \E p \in Leftover : work' = [work EXCEPT !.at = "dropingress", !.pin = p]
               \/ work' = [work EXCEPT !.at = "droppin"] \/ work' = [work EXCEPT !.at = "clean"]
      <3>1. Leftover \subseteq 0..MaxEdits
        BY <2>1 DEF Leftover
      <3>2. work' \in Work /\ work'.id = work.id /\ work'.at \in Cleaning
        BY <2>1, <2>3, <3>1 DEF Work, Steps, Cleaning
      <3> QED  BY <2>0, <3>2, Moved DEF Past, Cleaning
    <2> QED  BY <1>10, <2>2, <2>3 DEF Clean, DropIngress, DropPin, Done
  <1>11. CASE UNCHANGED vars
    BY <1>11 DEF vars
  <1>12. CASE Swap
    <2>0. work # None /\ work.at \in Locked /\ UNCHANGED todo
      BY <1>12, SwapFrame
    <2>1. CASE Block
      BY <2>0, <2>1, LeftBlocked
    <2>2. CASE ~Block
      <3>1. /\ UNCHANGED <<todo, held>> /\ work' \in Work /\ work'.id = work.id /\ work.at \notin Cleaning
            /\ work'.at \in Past => work.at \in Past
        BY <1>12, <2>0, <2>2, SwapStep DEF Past, Cleaning, Locked, Placing, Removing
      <3> QED  BY <2>0, <3>1, Moved
    <2> QED  BY <2>1, <2>2
  <1> QED  BY <1>1, <1>2, <1>3, <1>4, <1>5, <1>6, <1>7, <1>8, <1>9, <1>10, <1>11, <1>12 DEF Next, Executor

-----------------------------------------------------------------------------
(***************************************************************************)
(* One operation of an owner after the other                                *)
(***************************************************************************)

\* What is open, or being applied, is newer than what the ledger holds; what is
\* complete is not.
Newest ==
  \A i \in DOMAIN ops :
    /\ Live(i) => i > Entry(ops[i].shape.owner).op
    /\ ops[i].state = "complete" => i <= Entry(ops[i].shape.owner).op

LedgerInJournal == \A o \in Owners : Entry(o).op <= Len(ops)

\* An open row a pass has gone by holds its owner, or is the one it works on; a
\* row is worked on when all the earlier ones of its owner are done, and is not
\* withdrawn once its destinations are verified.
PassInLine ==
  /\ \A i \in todo : \A j \in DOMAIN ops \ todo :
       j < i /\ ~Terminal(ops[j]) => ops[j].shape.owner \in held \/ (work # None /\ work.id = j)
  /\ work # None => \A i \in todo : work.id < i
  /\ Executing => /\ ops[work.id].shape.owner \notin held
                  /\ \A j \in DOMAIN ops :
                       j < work.id /\ ops[j].shape.owner = ops[work.id].shape.owner => Terminal(ops[j])

NotWithdrawn == work # None /\ work.at \in Past => ops[work.id].state # "cancelled"

LineInv == AlignedInv /\ Newest /\ LedgerInJournal /\ PassInLine /\ NotWithdrawn

\* The generation in the ledger changes when an operation completes.
LEMMA CurrentStep ==
  ASSUME ShapeInv, [Next]_vars, NEW o \in Owners
  PROVE  \/ Entry(o)'.op = Entry(o).op /\ ~(Complete /\ o = ops[work.id].shape.owner)
         \/ Complete /\ o = ops[work.id].shape.owner /\ Entry(o)'.op = work.id
  <1>0. owners \in [Owners -> Ledger \cup {None}] /\ Entry(o) \in Ledger
    BY EntryType DEF ShapeInv, TypeOK
  <1>1. CASE Complete
    <2>0. work # None /\ work.at \in Locked
      BY <1>1 DEF Complete, At, Locked
    <2>1. /\ work.op \in Op /\ work.op.base # None /\ work.id \in 0..MaxOps /\ work.op.shape = ops[work.id].shape
          /\ work.op.shape.owner \in Owners
      BY <2>0, AtWork, OpFields DEF Alike, Ids
    <2> DEFINE new == [op |-> work.id, replicas |-> Result(work.op)]
    <2>2. new \in Ledger /\ new.op = work.id
      BY <2>1, ResultType DEF Ledger
    <2>3. owners' = [owners EXCEPT ![work.op.shape.owner] = new]
      BY <1>1 DEF Complete
    <2> HIDE DEF new
    <2>4. owners'[o] = IF o = work.op.shape.owner THEN new ELSE owners[o]
      BY <1>0, <2>3
    <2> QED  BY <1>1, <2>1, <2>2, <2>4, RecordAssumption DEF Entry
  <1>2. ASSUME owners'[o] = owners[o], ~Complete
        PROVE  Entry(o)'.op = Entry(o).op /\ ~Complete
    BY <1>2 DEF Entry
  <1>3. CASE UNCHANGED owners /\ ~Complete
    BY <1>2, <1>3
  <1>4. CASE (\E p \in Owners : \E r \in Replicas(p) : Adopt(p, r)) /\ ~Complete
    <2>1. PICK p \in Owners : \E r \in Replicas(p) : Adopt(p, r)
      BY <1>4
    <2>2. PICK r \in Replicas(p) : Adopt(p, r)
      BY <2>1
    <2>3. CASE o = p
      <3>1. owners[o] \in Ledger /\ owners[o] # None
        BY <1>0, <2>2, <2>3 DEF Replicas, Entry
      <3> DEFINE rs == (owners[o].replicas \ {r}) \cup {[r EXCEPT !.managed = TRUE]}
      <3>2. owners'[o] = [owners[o] EXCEPT !.replicas = rs]
        BY <1>0, <2>2, <2>3, <3>1 DEF Adopt
      <3>3. rs \in SUBSET Replica
        <4>1. owners[o].replicas \in SUBSET Replica /\ r \in Replica
          BY <2>2, <2>3, <3>1, RecordAssumption DEF Ledger, Replicas, Entry
        <4>2. [r EXCEPT !.managed = TRUE] \in Replica
          BY <4>1 DEF Replica
        <4> QED  BY <4>1, <4>2
      <3> HIDE DEF rs
      <3>4. owners'[o] \in Ledger /\ owners'[o].op = owners[o].op
        BY <3>1, <3>2, <3>3 DEF Ledger
      <3> QED  BY <1>4, <3>1, <3>4, RecordAssumption DEF Entry
    <2>4. CASE o # p
      BY <1>0, <1>2, <1>4, <2>2, <2>4 DEF Adopt
    <2> QED  BY <2>3, <2>4
  <1>5. CASE /\ ~Complete
             /\ \E r \in NewReceipts : \E i \in Open :
                  /\ Supersede(i, r)
                  /\ owners' = [owners EXCEPT ![r.shape.owner] = [Entry(r.shape.owner) EXCEPT !.replicas = Inherited(ops[i])]]
    <2>1. PICK r \in NewReceipts, i \in Open :
            owners' = [owners EXCEPT ![r.shape.owner] = [Entry(r.shape.owner) EXCEPT !.replicas = Inherited(ops[i])]]
                 /\ Supersede(i, r)
      BY <1>5
    <2>2. ops[i] \in Op
      BY OpIds DEF Open, ShapeInv
    <2>3. Inherited(ops[i]) \in SUBSET Replica
      BY <2>1, <2>2, InheritedType, OpFields DEF ShapeInv, Open
    <2>4. CASE o = r.shape.owner
      <3> DEFINE rs == Inherited(ops[i])
      <3>1. owners'[o] = [Entry(o) EXCEPT !.replicas = rs]
        BY <1>0, <2>1, <2>4
      <3> HIDE DEF rs
      <3>2. owners'[o] \in Ledger /\ owners'[o].op = Entry(o).op
        BY <1>0, <2>3, <3>1 DEF Ledger, rs
      <3> QED  BY <1>5, <3>2, RecordAssumption DEF Entry
    <2>5. CASE o # r.shape.owner
      BY <1>0, <1>2, <1>5, <2>1, <2>5
    <2> QED  BY <2>4, <2>5
  <1> QED  BY <1>1, <1>3, <1>4, <1>5, OwnersStep

\* The journal only grows, and a row keeps its plan.
LEMMA Grows ==
  ASSUME ShapeInv, [Next]_vars
  PROVE  /\ DOMAIN ops = 1..Len(ops) /\ DOMAIN ops' = 1..Len(ops') /\ Len(ops) \in Nat /\ Len(ops') \in Nat
         /\ Len(ops) <= Len(ops') /\ DOMAIN ops \subseteq DOMAIN ops'
         /\ \A i \in DOMAIN ops : SamePlan(ops[i], ops'[i]) /\ ops[i].shape.owner \in Owners
         /\ \A i \in DOMAIN ops' \ DOMAIN ops : i = Len(ops) + 1 /\ ops'[i].state = "pending"
         /\ \A i \in DOMAIN ops' : ops'[i].shape.owner \in Owners /\ i \in Nat
  <1>1. ShapeInv'
    BY NextShape
  <1>2. /\ DOMAIN ops = 1..Len(ops) /\ DOMAIN ops' = 1..Len(ops') /\ Len(ops) \in Nat /\ Len(ops') \in Nat
        /\ \A i \in DOMAIN ops : ops[i] \in Op
        /\ \A i \in DOMAIN ops' : ops'[i] \in Op
    <2>1. ops \in Seq(Op) /\ ops' \in Seq(Op)
      BY <1>1 DEF ShapeInv, TypeOK
    <2> QED  BY <2>1, LenProperties, ElementOfSeq
  <1>3. \A i \in DOMAIN ops : i \in DOMAIN ops' /\ SamePlan(ops[i], ops'[i])
    BY RowStep DEF RowKept
  <1>4. \A i \in DOMAIN ops' \ DOMAIN ops : i = Len(ops) + 1 /\ ops'[i].state = "pending"
    BY NewRowFields
  <1>5. Len(ops) <= Len(ops')
    <2>1. Len(ops) > 0 => Len(ops) \in DOMAIN ops
      BY <1>2
    <2> QED  BY <1>2, <1>3, <2>1
  <1> QED  BY <1>2, <1>3, <1>4, <1>5, OpFields

LEMMA Completed ==
  ASSUME ShapeInv, Complete
  PROVE  /\ work # None /\ work.at = "release" /\ work.id \in DOMAIN ops /\ Executing /\ DOMAIN ops' = DOMAIN ops
         /\ ops'[work.id].state = "complete" /\ ~Executing' /\ work.op.shape = ops[work.id].shape
         /\ \A i \in DOMAIN ops : i # work.id => ops'[i] = ops[i]
         /\ Len(ops') = Len(ops) /\ ops' \in Seq(Op)
  <1>1. work # None /\ work.at = "release" /\ work.at \in Locked
    BY DEF Complete, At, Locked
  <1>2. work \in Work /\ work.op \in Op /\ work.id \in DOMAIN ops /\ Alike(work.op, ops[work.id])
    BY <1>1, AtWork
  <1> DEFINE op == [work.op EXCEPT !.state = "complete"]
  <1>3. op \in Op /\ op.state = "complete"
    BY <1>2 DEF Op
  <1>4. ops' = [ops EXCEPT ![work.id] = op] /\ work' = [[work EXCEPT !.at = "clean"] EXCEPT !.op = op]
    BY DEF Complete, Save
  <1> HIDE DEF op
  <1>5. work'.at = "clean"
    BY <1>2, <1>4 DEF Work
  <1>6. /\ ops' \in Seq(Op) /\ Len(ops') = Len(ops) /\ DOMAIN ops' = DOMAIN ops
        /\ \A j \in DOMAIN ops : ops'[j] = IF j = work.id THEN op ELSE ops[j]
    BY <1>2, <1>3, <1>4, PutOp DEF ShapeInv
  <1> QED  BY <1>1, <1>2, <1>3, <1>5, <1>6 DEF Executing, Cleaning, Alike

LEMMA Visited ==
  ASSUME ShapeInv, Visit
  PROVE  /\ work = None /\ Row \in todo /\ Row \in DOMAIN ops /\ todo' = todo \ {Row} /\ \A j \in todo : Row <= j
         /\ DOMAIN ops' = DOMAIN ops /\ \A j \in DOMAIN ops : j # Row => ops'[j] = ops[j]
         /\ \/ /\ UNCHANGED <<ops, held>> /\ Terminal(ops[Row])
               /\ work' # None /\ work'.id = Row /\ work'.at = "clean"
            \/ UNCHANGED <<ops, work>> /\ ~Terminal(ops[Row]) /\ held' = held \cup {ops[Row].shape.owner}
            \/ /\ UNCHANGED held /\ ~Terminal(ops[Row]) /\ ~Terminal(ops'[Row]) /\ ops[Row].shape.owner \notin held
               /\ work' # None /\ work'.id = Row /\ work'.at = "queued"
  <1>0. todo # {} /\ work = None /\ todo' = todo \ {Row} /\ TypeOK
    BY DEF Visit, ShapeInv
  <1>1. Row \in todo /\ Row \in DOMAIN ops /\ \A j \in todo : Row <= j
    BY <1>0, RowIsLeast DEF ShapeInv
  <1>2. PICK i \in DOMAIN ops : i = Row
    BY <1>1
  <1>3. ops[i] \in Op /\ i \in Ids
    BY <1>0, OpIds
  <1>4. CASE Terminal(ops[i]) /\ work' = Begun(i, "clean") /\ UNCHANGED <<ops, held>>
    <2>1. Begun(i, "clean") \in Work
      BY <1>3, BegunType DEF Begun, Steps
    <2>2. Begun(i, "clean").id = i /\ Begun(i, "clean").at = "clean"
      BY DEF Begun
    <2> QED  BY <1>0, <1>1, <1>2, <1>4, <2>1, <2>2, RecordAssumption
  <1>5. CASE ~Terminal(ops[i]) /\ held' = held \cup {ops[i].shape.owner} /\ UNCHANGED <<ops, work>>
    BY <1>0, <1>1, <1>2, <1>5
  <1>6. CASE /\ ~Terminal(ops[i]) /\ ops[i].shape.owner \notin held /\ UNCHANGED held
             /\ ops' = [ops EXCEPT ![i].state = "running"]
             /\ work' = [Begun(i, "queued") EXCEPT !.op.state = "running"]
    <2> DEFINE row == [ops[i] EXCEPT !.state = "running"]
    <2>1. row \in Op /\ row.state = "running"
      BY <1>3 DEF Op
    <2>2. ops' = [ops EXCEPT ![i] = row]
      BY <1>6
    <2>3. work' = [id |-> i, op |-> row, at |-> "queued", n |-> 1, found |-> Absent, left |-> {}, key |-> None, pin |-> 0]
      BY <1>6 DEF Begun
    <2> HIDE DEF row
    <2>4. DOMAIN ops' = DOMAIN ops /\ \A j \in DOMAIN ops : ops'[j] = IF j = i THEN row ELSE ops[j]
      BY <1>0, <2>1, <2>2, PutOp
    <2>5. work' # None /\ work'.id = i /\ work'.at = "queued"
      <3>1. work' \in Work
        BY <1>3, <2>1, <2>3, BegunType DEF Steps
      <3> QED  BY <2>3, <3>1, RecordAssumption
    <2> QED  BY <1>0, <1>1, <1>2, <1>6, <2>1, <2>4, <2>5 DEF Terminal
  <1> QED  BY <1>2, <1>4, <1>5, <1>6 DEF Visit

\* Nothing comes to life by itself, and what completes is over.
LEMMA LiveStep ==
  ASSUME AlignedInv, [Next]_vars, NEW i \in DOMAIN ops, Live(i)'
  PROVE  Live(i) /\ ~(Complete /\ i = work.id)
  <1>0. ShapeInv /\ StatusKept(i)
    BY StatusStep DEF AlignedInv
  <1>1. CASE ~Terminal(ops'[i])
    <2>1. ~(Complete /\ i = work.id)
      BY <1>0, <1>1, Completed DEF Terminal
    <2>2. Status(ops'[i]) = Status(ops[i]) => ~Terminal(ops[i])
      BY <1>1 DEF Status, Terminal
    <2>3. i \in Open => ~Terminal(ops[i])
      BY DEF Open
    <2> QED  BY <1>0, <1>1, <2>1, <2>2, <2>3 DEF StatusKept, Live, Terminal
  <1>2. CASE Executing' /\ work'.id = i
    <2>1. ~Complete
      BY <1>0, <1>2, Completed
    <2>2. CASE Visit
      BY <1>0, <1>2, <2>1, <2>2, Visited DEF Executing, Cleaning, Live
    <2>3. CASE StartPass \/ Crash \/ LeavesRow \/ LeavesClean
      BY <1>2, <2>3 DEF StartPass, Crash, LeavesRow, LeavesClean, Executing
    <2>4. CASE UNCHANGED executor
      BY <1>2, <2>1, <2>4 DEF executor, Executing, Live
    <2>5. CASE GoesOn
      BY <1>2, <2>1, <2>5 DEF GoesOn, Executing, Live
    <2> QED  BY <1>0, <2>2, <2>3, <2>4, <2>5, PassStep
  <1> QED  BY <1>1, <1>2 DEF Live

LEMMA NewestStep ==
  ASSUME LineInv, [Next]_vars
  PROVE  Newest' /\ LedgerInJournal'
  <1>0. ShapeInv /\ AlignedInv /\ Newest /\ LedgerInJournal /\ PassInLine
    BY DEF LineInv, AlignedInv
  <1>1. /\ DOMAIN ops = 1..Len(ops) /\ DOMAIN ops' = 1..Len(ops') /\ Len(ops) \in Nat /\ Len(ops') \in Nat
        /\ Len(ops) <= Len(ops') /\ DOMAIN ops \subseteq DOMAIN ops'
        /\ \A i \in DOMAIN ops : ops'[i].shape = ops[i].shape /\ ops[i].shape.owner \in Owners
        /\ \A i \in DOMAIN ops' \ DOMAIN ops : i = Len(ops) + 1 /\ ops'[i].state = "pending"
        /\ \A i \in DOMAIN ops' : ops'[i].shape.owner \in Owners /\ i \in Nat
    BY <1>0, Grows DEF SamePlan
  <1> DEFINE now == [o \in Owners |-> IF owners'[o] = None THEN 0 ELSE owners'[o].op]
  <1>2. \A o \in Owners : Entry(o).op \in Nat /\ now[o] \in Nat
    <2>1. owners' \in [Owners -> Ledger \cup {None}] /\ MaxOps \in Nat
      BY <1>0, NextShape, BoundsAssumption DEF ShapeInv, TypeOK
    <2>2. \A o \in Owners : owners'[o] # None => owners'[o].op \in 0..MaxOps
      BY <2>1 DEF Ledger
    <2> QED  BY <1>0, <2>1, <2>2, EntryType DEF ShapeInv
  <1>3. \A o \in Owners : \/ now[o] = Entry(o).op /\ ~(Complete /\ o = ops[work.id].shape.owner)
                          \/ Complete /\ o = ops[work.id].shape.owner /\ now[o] = work.id
    <2> SUFFICES ASSUME NEW o \in Owners
                 PROVE  \/ now[o] = Entry(o).op /\ ~(Complete /\ o = ops[work.id].shape.owner)
                        \/ Complete /\ o = ops[work.id].shape.owner /\ now[o] = work.id
      OBVIOUS
    <2>1. Entry(o)'.op = now[o]
      BY DEF Entry
    <2> QED  BY <1>0, <2>1, CurrentStep
  <1> HIDE DEF now
  <1>4. Complete => /\ work # None /\ work.id \in DOMAIN ops /\ Executing /\ DOMAIN ops' = DOMAIN ops /\ Live(work.id)
                    /\ work.id > Entry(ops[work.id].shape.owner).op
    <2>1. Complete => work # None /\ work.id \in DOMAIN ops /\ Executing /\ DOMAIN ops' = DOMAIN ops /\ Live(work.id)
      BY <1>0, Completed DEF Live
    <2> QED  BY <1>0, <2>1 DEF Newest
  <1>5. ASSUME NEW o \in Owners  PROVE now[o] <= Len(ops')
    <2>1. Entry(o).op <= Len(ops)
      BY <1>0, <1>5 DEF LedgerInJournal
    <2>2. ASSUME Complete  PROVE work.id \in Nat /\ work.id <= Len(ops)
      <3>1. work.id \in DOMAIN ops
        BY <1>4, <2>2
      <3> QED  BY <1>1, <3>1
    <2>3. now[o] = Entry(o).op \/ (Complete /\ now[o] = work.id)
      BY <1>3, <1>5
    <2> QED  BY <1>1, <1>2, <1>5, <2>1, <2>2, <2>3
  <1>6. ASSUME NEW i \in DOMAIN ops', Live(i)'  PROVE i > now[ops'[i].shape.owner]
    <2>1. CASE i \notin DOMAIN ops
      <3>1. ops'[i].shape.owner \in Owners /\ i = Len(ops) + 1 /\ ~Complete
        BY <1>1, <1>4, <2>1
      <3> QED  BY <1>0, <1>1, <1>2, <1>3, <3>1 DEF LedgerInJournal
    <2>2. CASE i \in DOMAIN ops
      <3>1. Live(i) /\ ~(Complete /\ i = work.id)
        BY <1>0, <1>6, <2>2, LiveStep
      <3>2. ops'[i].shape.owner = ops[i].shape.owner /\ ops[i].shape.owner \in Owners
        BY <1>1, <2>2
      <3>3. i > Entry(ops[i].shape.owner).op
        BY <1>0, <2>2, <3>1 DEF Newest
      <3>4. CASE Complete /\ ops[i].shape.owner = ops[work.id].shape.owner
        <4>1. i # work.id /\ ~(i < work.id)
          <5>1. i < work.id => Terminal(ops[i])
            BY <1>0, <1>4, <2>2, <3>4 DEF PassInLine
          <5> QED  BY <1>4, <3>1, <3>4, <5>1 DEF Live
        <4>2. now[ops[i].shape.owner] = work.id
          BY <1>3, <3>2, <3>4
        <4>3. i \in Nat /\ work.id \in Nat
          BY <1>1, <1>4, <2>2, <3>4
        <4> QED  BY <3>2, <4>1, <4>2, <4>3
      <3>5. CASE ~(Complete /\ ops[i].shape.owner = ops[work.id].shape.owner)
        BY <1>3, <3>2, <3>3, <3>5
      <3> QED  BY <3>4, <3>5
    <2> QED  BY <2>1, <2>2
  <1>7. ASSUME NEW i \in DOMAIN ops', ops'[i].state = "complete"  PROVE i <= now[ops'[i].shape.owner]
    <2>1. i \in DOMAIN ops
      BY <1>1, <1>7
    <2>2. ops[i].state = "complete" \/ (Complete /\ i = work.id)
      BY <1>0, <1>7, <2>1, RowStep DEF RowKept
    <2>3. ops'[i].shape.owner = ops[i].shape.owner /\ ops[i].shape.owner \in Owners
      BY <1>1, <2>1
    <2>4. CASE Complete /\ i = work.id
      BY <1>1, <1>2, <1>3, <2>1, <2>3, <2>4
    <2>5. CASE ops[i].state = "complete"
      <3>1. i <= Entry(ops[i].shape.owner).op
        BY <1>0, <2>1, <2>5 DEF Newest
      <3>2. \/ now[ops[i].shape.owner] = Entry(ops[i].shape.owner).op
            \/ /\ Complete /\ ops[i].shape.owner = ops[work.id].shape.owner
               /\ now[ops[i].shape.owner] = work.id
        BY <1>3, <2>3
      <3>3. Complete /\ ops[i].shape.owner = ops[work.id].shape.owner =>
              work.id \in Nat /\ work.id > Entry(ops[i].shape.owner).op
        BY <1>1, <1>4
      <3>4. i \in Nat /\ Entry(ops[i].shape.owner).op \in Nat
        BY <1>1, <1>2, <2>1, <2>3
      <3> QED  BY <2>3, <3>1, <3>2, <3>3, <3>4
    <2> QED  BY <2>2, <2>4, <2>5
  <1>8. \A o \in Owners : now[o] = (IF owners'[o] = None THEN [op |-> 0, replicas |-> {}] ELSE owners'[o]).op
    BY DEF now
  <1>9. LedgerInJournal'
    BY <1>5, <1>8 DEF LedgerInJournal, Entry
  <1>10. Newest'
    <2> SUFFICES ASSUME NEW i \in DOMAIN ops'
                 PROVE  /\ Live(i)' => i > (Entry(ops[i].shape.owner).op)'
                        /\ ops'[i].state = "complete" => i <= (Entry(ops[i].shape.owner).op)'
      BY DEF Newest
    <2>1. (Entry(ops[i].shape.owner).op)' = now[ops'[i].shape.owner]
      BY <1>1, <1>8 DEF Entry
    <2> QED  BY <1>6, <1>7, <2>1
  <1> QED  BY <1>9, <1>10

LEMMA PassStepKept ==
  ASSUME LineInv, [Next]_vars
  PROVE  PassInLine' /\ NotWithdrawn'
  <1>0. ShapeInv /\ AlignedInv /\ PassInLine /\ NotWithdrawn
    BY DEF LineInv, AlignedInv
  <1>1. /\ DOMAIN ops = 1..Len(ops) /\ DOMAIN ops' = 1..Len(ops') /\ Len(ops) \in Nat /\ Len(ops') \in Nat
        /\ Len(ops) <= Len(ops') /\ DOMAIN ops \subseteq DOMAIN ops'
        /\ \A i \in DOMAIN ops : ops'[i].shape = ops[i].shape /\ ops[i].shape.owner \in Owners
        /\ \A i \in DOMAIN ops' \ DOMAIN ops : i = Len(ops) + 1 /\ ops'[i].state = "pending"
        /\ \A i \in DOMAIN ops' : ops'[i].shape.owner \in Owners /\ i \in Nat
    BY <1>0, Grows DEF SamePlan
  <1>2. todo \subseteq DOMAIN ops /\ todo' \subseteq DOMAIN ops' /\ (work # None => work.id \in DOMAIN ops) /\ ShapeInv'
    BY <1>0, NextShape DEF ShapeInv, WorkShaped
  <1>3. work # None /\ work.at \in Cleaning => Terminal(ops[work.id])
    BY <1>0, AtClean
  \* A row that is open was open, or is the one being applied.
  <1>4. ASSUME NEW j \in DOMAIN ops, ~Terminal(ops'[j])  PROVE ~Terminal(ops[j]) \/ (Executing /\ j = work.id)
    <2>1. StatusKept(j)
      BY <1>0, StatusStep
    <2>2. Status(ops'[j]) = Status(ops[j]) => ~Terminal(ops[j])
      BY <1>4 DEF Status, Terminal
    <2> QED  BY <1>4, <2>1, <2>2 DEF StatusKept, Open, Terminal
  <1>5. CASE StartPass
    <2>1. todo' = DOMAIN ops /\ UNCHANGED <<ops, work>> /\ work = None
      BY <1>5 DEF StartPass, durable
    <2> QED  BY <2>1 DEF PassInLine, NotWithdrawn, Executing
  <1>6. CASE Crash
    BY <1>6 DEF Crash, PassInLine, NotWithdrawn, Executing
  <1>7. CASE Visit
    <2> USE <1>0, <1>7
    <2>1. /\ work = None /\ Row \in todo /\ Row \in DOMAIN ops /\ todo' = todo \ {Row} /\ \A j \in todo : Row <= j
          /\ DOMAIN ops' = DOMAIN ops /\ \A j \in DOMAIN ops : j # Row => ops'[j] = ops[j]
      BY Visited
    <2>2. \/ /\ UNCHANGED <<ops, held>> /\ Terminal(ops[Row])
             /\ work' # None /\ work'.id = Row /\ work'.at = "clean"
          \/ UNCHANGED <<ops, work>> /\ ~Terminal(ops[Row]) /\ held' = held \cup {ops[Row].shape.owner}
          \/ /\ UNCHANGED held /\ ~Terminal(ops[Row]) /\ ~Terminal(ops'[Row]) /\ ops[Row].shape.owner \notin held
             /\ work' # None /\ work'.id = Row /\ work'.at = "queued"
      BY Visited
    <2>3. \A i \in todo : \A j \in DOMAIN ops \ todo : j < i /\ ~Terminal(ops[j]) => ops[j].shape.owner \in held
      BY <2>1 DEF PassInLine
    <2>4. ASSUME NEW i \in todo', NEW j \in DOMAIN ops' \ todo', j < i, ~Terminal(ops'[j])
          PROVE  ops'[j].shape.owner \in held' \/ (work' # None /\ work'.id = j)
      <3>1. CASE j = Row
        BY <1>1, <2>1, <2>2, <2>4, <3>1
      <3>2. CASE j # Row
        BY <1>1, <2>1, <2>2, <2>3, <2>4, <3>2
      <3> QED  BY <3>1, <3>2
    <2>5. ASSUME work' # None, NEW i \in todo'  PROVE work'.id < i
      BY <1>1, <1>2, <2>1, <2>2, <2>5
    <2>6. ASSUME Executing'
          PROVE  /\ ops'[work'.id].shape.owner \notin held'
                 /\ \A j \in DOMAIN ops' :
                      j < work'.id /\ ops'[j].shape.owner = ops'[work'.id].shape.owner => Terminal(ops'[j])
      <3>1. /\ UNCHANGED held /\ ~Terminal(ops[Row]) /\ ~Terminal(ops'[Row]) /\ ops[Row].shape.owner \notin held
            /\ work' # None /\ work'.id = Row
        BY <2>1, <2>2, <2>6 DEF Executing, Cleaning
      <3>2. ASSUME NEW j \in DOMAIN ops', j < Row, ops'[j].shape.owner = ops'[Row].shape.owner  PROVE Terminal(ops'[j])
        <4>1. j \in DOMAIN ops \ todo /\ j # Row /\ ops'[j] = ops[j]
          BY <1>1, <2>1, <3>2
        <4> QED  BY <1>1, <2>1, <2>3, <3>1, <3>2, <4>1
      <3> QED  BY <1>1, <2>1, <3>1, <3>2
    <2>7. NotWithdrawn'
      BY <2>1, <2>2 DEF NotWithdrawn, Past
    <2> QED  BY <2>4, <2>5, <2>6, <2>7 DEF PassInLine
  <1>8. CASE UNCHANGED executor \/ GoesOn \/ LeavesRow \/ LeavesClean
    <2>1. UNCHANGED todo /\ held \subseteq held'
      BY <1>8 DEF executor, GoesOn, LeavesRow, LeavesClean
    <2>2. \/ UNCHANGED <<work, held>>
          \/ work # None /\ work' # None /\ work'.id = work.id /\ UNCHANGED held
          \/ work' = None
      BY <1>8 DEF executor, GoesOn, LeavesRow, LeavesClean
    <2>3. ASSUME NEW i \in todo', NEW j \in DOMAIN ops' \ todo', j < i, ~Terminal(ops'[j])
          PROVE  ops'[j].shape.owner \in held' \/ (work' # None /\ work'.id = j)
      <3>1. i \in todo /\ j \in DOMAIN ops \ todo
        BY <1>1, <1>2, <2>1, <2>3
      <3>2. ~Terminal(ops[j]) \/ (Executing /\ j = work.id)
        BY <1>4, <2>3, <3>1
      <3>3. ops[j].shape.owner \in held \/ (work # None /\ work.id = j)
        BY <1>0, <2>3, <3>1, <3>2 DEF PassInLine, Executing
      <3>4. CASE work # None /\ work.id = j
        <4>1. CASE LeavesRow
          BY <1>1, <3>1, <3>4, <4>1 DEF LeavesRow
        <4>2. CASE LeavesClean
          BY <1>3, <3>2, <3>4, <4>2 DEF LeavesClean, Executing
        <4> QED  BY <1>8, <3>4, <4>1, <4>2 DEF executor, GoesOn
      <3> QED  BY <1>1, <2>1, <3>1, <3>3, <3>4
    <2>4. ASSUME work' # None, NEW i \in todo'  PROVE work'.id < i
      BY <1>0, <2>1, <2>2, <2>4 DEF PassInLine
    <2>5. ASSUME Executing'
          PROVE  /\ ops'[work'.id].shape.owner \notin held'
                 /\ \A j \in DOMAIN ops' :
                      j < work'.id /\ ops'[j].shape.owner = ops'[work'.id].shape.owner => Terminal(ops'[j])
      <3>1. Executing /\ work'.id = work.id /\ UNCHANGED held /\ work.id \in DOMAIN ops
        BY <1>2, <1>8, <2>5 DEF executor, GoesOn, LeavesRow, LeavesClean, Executing
      <3>2. ASSUME NEW j \in DOMAIN ops', j < work.id, ops'[j].shape.owner = ops'[work.id].shape.owner  PROVE Terminal(ops'[j])
        <4>1. j \in DOMAIN ops
          BY <1>1, <3>1, <3>2
        <4>2. Terminal(ops[j])
          BY <1>0, <1>1, <3>1, <3>2, <4>1 DEF PassInLine
        <4> QED  BY <1>1, <1>4, <3>1, <3>2, <4>1, <4>2
      <3> QED  BY <1>0, <1>1, <3>1, <3>2 DEF PassInLine
    <2>6. ASSUME work' # None, work'.at \in Past  PROVE ops'[work'.id].state # "cancelled"
      <3>1. work # None /\ work'.id = work.id /\ (work.at \in Past \/ Placed)
        BY <1>8, <2>6 DEF executor, GoesOn, LeavesRow, LeavesClean
      <3>2. CASE work.at \in Past
        <4>1. lock = "executor" /\ ops[work.id].state # "cancelled" /\ StatusKept(work.id)
          BY <1>0, <1>2, <3>1, <3>2, AtWork, StatusStep DEF NotWithdrawn, Past, Locked
        <4>2. \A r \in NewReceipts : ~Supersede(work.id, r)
          BY <4>1 DEF Supersede
        <4> QED  BY <3>1, <4>1, <4>2 DEF StatusKept, Status, Terminal
      <3>3. CASE Placed
        <4>1. ops' = [ops EXCEPT ![work.id] = work.op]
          BY <3>3 DEF Placed, Save
        <4>2. work.op \in Op /\ work.op.state = "running" /\ work.id \in DOMAIN ops
          BY <1>0, <3>1, <3>3, AtWork DEF Placed, At, Locked
        <4>3. ops'[work.id] = work.op
          BY <1>0, <3>1, <4>1, <4>2, Written
        <4> QED  BY <3>1, <4>2, <4>3
      <3> QED  BY <3>1, <3>2, <3>3
    <2> QED  BY <2>3, <2>4, <2>5, <2>6 DEF PassInLine, NotWithdrawn
  <1> QED  BY <1>0, <1>5, <1>6, <1>7, <1>8, PassStep

LEMMA InitLine == Init => Newest /\ LedgerInJournal /\ PassInLine /\ NotWithdrawn
  <1> SUFFICES ASSUME Init  PROVE Newest /\ LedgerInJournal /\ PassInLine /\ NotWithdrawn
    OBVIOUS
  <1>1. DOMAIN ops = {} /\ todo = {} /\ work = None /\ Len(ops) = 0 /\ \A o \in Owners : Entry(o).op = 0
    BY EmptySeq DEF Init, Entry
  <1> QED  BY <1>1 DEF Newest, LedgerInJournal, PassInLine, NotWithdrawn, Executing

\* The plans of an owner are carried out in the order they were accepted.
THEOREM LineCorrect == Spec => []LineInv
  <1>1. Init => LineInv
    BY InitShape, InitAligned, InitWatched, InitLine DEF LineInv, AlignedInv
  <1>2. LineInv /\ [Next]_vars => LineInv'
    BY NextShape, AlignedStep, WatchedStep, NewestStep, PassStepKept DEF LineInv, AlignedInv
  <1> QED  BY <1>1, <1>2, PTL DEF Spec

-----------------------------------------------------------------------------
(***************************************************************************)
(* The promise                                                              *)
(***************************************************************************)

\* The journal and the ledger, as ReplicaPromise sees them.
Generation(op) == [owner |-> op.shape.owner, content |-> op.content, status |-> Status(op)]
Gens == [i \in DOMAIN ops |-> Generation(ops[i])]
Current == [o \in Owners |-> IF owners[o] = None THEN 0 ELSE owners[o].op]
Accepting(o, c) == [owner |-> o, content |-> c, status |-> "open"]

AcceptStep == \E o \in Owners, c \in Contents : Gens' = Append(Gens, Accepting(o, c)) /\ UNCHANGED Current

SupersedeStep ==
  \E i \in DOMAIN Gens, c \in Contents :
    /\ Gens[i].status = "open" /\ c # Gens[i].content
    /\ Gens' = Append([Gens EXCEPT ![i].status = "withdrawn"], Accepting(Gens[i].owner, c))
    /\ UNCHANGED Current

ReopenStep ==
  \E i \in DOMAIN Gens :
    /\ Gens[i].status = "withdrawn" /\ i > Current[Gens[i].owner]
    /\ Gens' = [Gens EXCEPT ![i].status = "open"]
    /\ UNCHANGED Current

CommitStep ==
  \E i \in DOMAIN Gens :
    /\ Gens[i].status = "open" /\ i > Current[Gens[i].owner]
    /\ \A j \in 1..(i - 1) : Gens[j].owner = Gens[i].owner => Gens[j].status # "open"
    /\ Gens' = [Gens EXCEPT ![i].status = "done"]
    /\ Current' = [Current EXCEPT ![Gens[i].owner] = i]

Generations == [owner: Owners, content: Contents, status: {"open", "withdrawn", "done"}]

\* What the abstract specification sees of a state.
LEMMA GensType ==
  ASSUME TypeOK
  PROVE  /\ Gens \in Seq(Generations) /\ Len(Gens) = Len(ops) /\ DOMAIN Gens = DOMAIN ops /\ DOMAIN ops = 1..Len(ops)
         /\ \A i \in DOMAIN ops : /\ Gens[i].owner = ops[i].shape.owner /\ Gens[i].content = ops[i].content
                                  /\ Gens[i].status = Status(ops[i])
         /\ Len(ops) \in Nat
  <1>1. Len(ops) \in Nat /\ DOMAIN ops = 1..Len(ops) /\ \A i \in DOMAIN ops : ops[i] \in Op
    BY OpIds
  <1>2. \A i \in DOMAIN ops : Generation(ops[i]) \in Generations
    BY <1>1, OpFields DEF Generation, Generations, Status
  <1>3. Gens \in [1..Len(ops) -> Generations]
    BY <1>1, <1>2 DEF Gens
  <1>4. Gens \in Seq(Generations) /\ Len(Gens) = Len(ops)
    <2>1. Gens \in Seq(Generations)
      BY <1>1, <1>3, SeqDef
    <2> QED  BY <1>1, <1>3, <2>1, LenProperties
  <1> QED  BY <1>1, <1>3, <1>4 DEF Gens, Generation

LEMMA CurrentOf ==
  ASSUME TypeOK, NEW o \in Owners
  PROVE  Current[o] = Entry(o).op /\ Current[o] \in Nat
  BY EntryType DEF Current, Entry

LEMMA CurrentKept ==
  ASSUME ShapeInv, [Next]_vars, ~Complete
  PROVE  UNCHANGED Current
  <1>1. \A o \in Owners : Entry(o)'.op = Entry(o).op
    BY CurrentStep
  <1>2. \A o \in Owners : Current'[o] = Entry(o)'.op
    BY DEF Current, Entry
  <1>3. \A o \in Owners : Current[o] = Entry(o).op
    BY DEF Current, Entry
  <1> QED  BY <1>1, <1>2, <1>3 DEF Current

LEMMA Grown ==
  ASSUME ShapeInv, NEW rows \in Seq(Op), NEW g \in Op, Len(rows) = Len(ops), Len(ops) < MaxOps,
         ops' = Append(rows, g), g.state = "pending",
         NEW gens \in Seq(Generations), Len(gens) = Len(ops), \A i \in DOMAIN ops : gens[i] = Generation(rows[i])
  PROVE  Gens' = Append(gens, Accepting(g.shape.owner, g.content))
  <1> DEFINE e == Accepting(g.shape.owner, g.content)
  <1>1. /\ DOMAIN ops' = 1..(Len(ops) + 1) /\ DOMAIN ops = 1..Len(ops) /\ Len(ops) \in Nat
        /\ ops'[Len(ops) + 1] = g /\ \A j \in DOMAIN ops : ops'[j] = rows[j]
    <2>1. TypeOK /\ Len(ops) \in Nat /\ DOMAIN ops = 1..Len(ops)
      BY OpIds DEF ShapeInv
    <2> QED  BY <2>1, AddOp
  <1>2. e \in Generations /\ e = Generation(g)
    BY OpFields DEF Accepting, Generations, Generation, Status
  <1> HIDE DEF e
  <1>3. /\ Append(gens, e) \in Seq(Generations) /\ Len(Append(gens, e)) = Len(ops) + 1
        /\ \A i \in 1..Len(ops) : Append(gens, e)[i] = gens[i]
        /\ Append(gens, e)[Len(ops) + 1] = e
    BY <1>1, <1>2, AppendProperties
  <1>4. \A i \in DOMAIN ops' : Append(gens, e)[i] = Generation(ops'[i])
    BY <1>1, <1>2, <1>3
  <1>5. DOMAIN Append(gens, e) = DOMAIN ops' /\ Append(gens, e) = [i \in DOMAIN Append(gens, e) |-> Append(gens, e)[i]]
    BY <1>1, <1>3, LenProperties, SeqDef
  <1>6. Append(gens, e) = [i \in DOMAIN ops' |-> Generation(ops'[i])]
    BY <1>4, <1>5
  <1>7. Gens' = [i \in DOMAIN ops' |-> Generation(ops'[i])]
    BY DEF Gens, Generation, Status
  <1> QED  BY <1>6, <1>7 DEF e

LEMMA AcceptsPlan ==
  ASSUME LineInv, [Next]_vars, \E r \in NewReceipts : Submit(r) \/ \E i \in DOMAIN ops : Supersede(i, r)
  PROVE  AcceptStep \/ SupersedeStep
  <1>0. ShapeInv /\ TypeOK /\ ops \in Seq(Op) /\ Gens \in Seq(Generations) /\ Len(Gens) = Len(ops) /\ DOMAIN Gens = DOMAIN ops
    <2>1. ShapeInv /\ TypeOK
      BY DEF LineInv, AlignedInv, ShapeInv
    <2> QED  BY <2>1, GensType DEF TypeOK
  <1>1. UNCHANGED Current
    <2>1. ~Complete
      <3> SUFFICES ASSUME Complete  PROVE FALSE
        OBVIOUS
      <3>1. work # None /\ lock = "executor" /\ work.id \in DOMAIN ops /\ work' # work /\ work.at = "release"
        <4>1. work # None /\ work.at = "release"
          BY DEF Complete, At
        <4>2. lock = "executor" /\ work.id \in DOMAIN ops
          BY <1>0, <4>1, AtWork DEF Locked
        <4>3. ~Executing' /\ Executing
          BY <1>0, Completed
        <4> QED  BY <4>1, <4>2, <4>3 DEF Executing
      <3>2. UNCHANGED work
        BY DEF Submit, Supersede, executor
      <3> QED  BY <3>1, <3>2
    <2> QED  BY <1>0, <2>1, CurrentKept
  <1>2. \A i \in DOMAIN ops : Gens[i] = Generation(ops[i])
    BY DEF Gens
  <1>3. PICK r \in NewReceipts : Submit(r) \/ \E i \in DOMAIN ops : Supersede(i, r)
    OBVIOUS
  <1>4. r \in Op /\ r.state = "pending" /\ r.shape.owner \in Owners /\ r.content \in Contents
    <2>1. r \in Op
      BY <1>0, Receipts
    <2> QED  BY <2>1, OpFields DEF NewReceipts, Receipt
  <1>5. CASE Submit(r)
    <2>1. ops' = Append(ops, r) /\ Len(ops) < MaxOps
      BY <1>5 DEF Submit
    <2>2. Gens' = Append(Gens, Accepting(r.shape.owner, r.content))
      BY <1>0, <1>2, <1>4, <2>1, Grown
    <2> QED  BY <1>1, <1>4, <2>2 DEF AcceptStep
  <1>6. CASE \E i \in DOMAIN ops : Supersede(i, r)
    <2>1. PICK j \in DOMAIN ops : Supersede(j, r)
      BY <1>6
    <2> DEFINE g == [r EXCEPT !.release = @ \cup ops[j].release]
    <2>2. /\ g \in Op /\ g.state = "pending" /\ g.shape = r.shape /\ g.content = r.content /\ Len(ops) < MaxOps
          /\ ops[j] \in Op /\ Len(ops) + 1 \in 0..MaxOps
      <3>1. ops[j] \in Op /\ ops[j].release \in SUBSET Location
        BY <1>0, OpIds, OpFields
      <3>2. Len(ops) < MaxOps /\ Len(ops) + 1 \in 0..MaxOps
        <4>1. Len(ops) \in Nat /\ MaxOps \in Nat
          BY <1>0, OpIds, BoundsAssumption
        <4>2. Len(ops) < MaxOps
          BY <2>1 DEF Supersede
        <4> QED  BY <4>1, <4>2
      <3> QED  BY <1>4, <3>1, <3>2, ReceiptGrown
    <2>3. CASE ops' = Append(ops, g)
      <3> HIDE DEF g
      <3>1. Gens' = Append(Gens, Accepting(g.shape.owner, g.content))
        BY <1>0, <1>2, <2>2, <2>3, Grown
      <3> QED  BY <1>1, <1>4, <2>2, <3>1 DEF AcceptStep
    <2>4. CASE j \in Open /\ ops' = Append([ops EXCEPT ![j].state = "cancelled", ![j].heir = Len(ops) + 1], g)
      <3> HIDE DEF g
      <3> DEFINE row == [ops[j] EXCEPT !.state = "cancelled", !.heir = Len(ops) + 1]
      <3>1. row \in Op /\ row.state = "cancelled" /\ row.shape = ops[j].shape /\ row.content = ops[j].content
        BY <2>2 DEF Op
      <3>2. ops' = Append([ops EXCEPT ![j] = row], g)
        BY <2>4
      <3> HIDE DEF row
      <3> DEFINE rows == [ops EXCEPT ![j] = row]
      <3>3. rows \in Seq(Op) /\ Len(rows) = Len(ops) /\ \A i \in DOMAIN ops : rows[i] = IF i = j THEN row ELSE ops[i]
        BY <1>0, <3>1, ExceptSeq
      <3>4. ops' = Append(rows, g)
        BY <3>2
      <3> HIDE DEF rows
      <3> DEFINE e == Generation(row)
      <3>5. /\ e \in Generations /\ e = [Gens[j] EXCEPT !.status = "withdrawn"] /\ Gens[j].status = "open"
            /\ Gens[j].content = ops[j].content /\ Gens[j].owner = ops[j].shape.owner
        <4>1. row.shape.owner \in Owners /\ row.content \in Contents
          BY <3>1, OpFields
        <4>2. Status(row) = "withdrawn" /\ Status(ops[j]) = "open"
          BY <2>4, <3>1 DEF Status, Open, Terminal
        <4>3. e = [owner |-> ops[j].shape.owner, content |-> ops[j].content, status |-> "withdrawn"]
          BY <3>1, <4>2 DEF Generation
        <4>4. Gens[j] = [owner |-> ops[j].shape.owner, content |-> ops[j].content, status |-> "open"]
          BY <1>2, <4>2 DEF Generation
        <4> HIDE DEF e
        <4> QED  BY <3>1, <4>1, <4>3, <4>4 DEF Generations
      <3> HIDE DEF e
      <3> DEFINE gens == [Gens EXCEPT ![j] = e]
      <3>6. gens \in Seq(Generations) /\ Len(gens) = Len(Gens) /\ \A i \in DOMAIN ops : gens[i] = IF i = j THEN e ELSE Gens[i]
        BY <1>0, <3>5, ExceptSeq
      <3>7. gens = [Gens EXCEPT ![j].status = "withdrawn"]
        BY <3>5
      <3>8. \A i \in DOMAIN ops : gens[i] = Generation(rows[i])
        BY <1>2, <3>3, <3>6 DEF e
      <3> HIDE DEF gens
      <3>9. Gens' = Append(gens, Accepting(g.shape.owner, g.content))
        BY <1>0, <2>2, <3>3, <3>4, <3>6, <3>8, Grown
      <3>10. g.shape.owner = Gens[j].owner /\ g.content = r.content /\ r.content # Gens[j].content
        BY <2>1, <2>2, <3>5 DEF Supersede
      <3> QED  BY <1>0, <1>1, <1>4, <3>5, <3>7, <3>9, <3>10 DEF SupersedeStep
    <2> QED  BY <2>1, <2>3, <2>4 DEF Supersede
  <1> QED  BY <1>3, <1>5, <1>6

LEMMA CommitsPlan ==
  ASSUME LineInv, [Next]_vars, Complete
  PROVE  CommitStep
  <1>0. ShapeInv /\ TypeOK /\ Newest /\ PassInLine /\ NotWithdrawn
    BY DEF LineInv, AlignedInv, ShapeInv
  <1>1. /\ work # None /\ work.at = "release" /\ work.id \in DOMAIN ops /\ Executing /\ DOMAIN ops' = DOMAIN ops
        /\ ops'[work.id].state = "complete"
        /\ \A i \in DOMAIN ops : i # work.id => ops'[i] = ops[i]
    BY <1>0, Completed
  <1>2. PICK i \in DOMAIN ops : i = work.id
    BY <1>1
  <1>3. /\ Gens \in Seq(Generations) /\ DOMAIN Gens = DOMAIN ops /\ DOMAIN ops = 1..Len(ops) /\ Len(ops) \in Nat
        /\ \A j \in DOMAIN ops : /\ Gens[j].owner = ops[j].shape.owner /\ Gens[j].content = ops[j].content
                                 /\ Gens[j].status = Status(ops[j])
    BY <1>0, GensType
  <1>4. ops[i].shape.owner \in Owners /\ SamePlan(ops[i], ops'[i])
    BY <1>0, Grows
  <1>5. Gens[i].status = "open"
    <2>1. ops[i].state \notin {"complete", "cancelled"}
      BY <1>0, <1>1, <1>2, AtWork DEF NotWithdrawn, Past, Locked
    <2> QED  BY <1>3, <2>1 DEF Status
  <1>6. i > Current[Gens[i].owner]
    BY <1>0, <1>1, <1>2, <1>3, <1>4, CurrentOf DEF Newest, Live
  <1>7. \A j \in 1..(i - 1) : Gens[j].owner = Gens[i].owner => Gens[j].status # "open"
    <2> SUFFICES ASSUME NEW j \in 1..(i - 1), Gens[j].owner = Gens[i].owner  PROVE Gens[j].status # "open"
      OBVIOUS
    <2>1. j \in DOMAIN ops /\ j < i
      BY <1>3
    <2>2. Terminal(ops[j])
      BY <1>0, <1>1, <1>2, <1>3, <2>1 DEF PassInLine
    <2> QED  BY <1>3, <2>1, <2>2 DEF Terminal, Status
  <1>8. Gens' = [Gens EXCEPT ![i].status = "done"]
    <2>1. Gens' = [j \in DOMAIN ops |-> Generation(ops'[j])]
      BY <1>1 DEF Gens, Generation, Status
    <2>2. Gens = [j \in DOMAIN ops |-> Generation(ops[j])]
      BY DEF Gens
    <2>3. Generation(ops'[i]) = [Generation(ops[i]) EXCEPT !.status = "done"]
      <3>1. Generation(ops'[i]) = [owner |-> ops[i].shape.owner, content |-> ops[i].content, status |-> "done"]
        BY <1>1, <1>2, <1>4 DEF Generation, SamePlan, Status
      <3> QED  BY <3>1 DEF Generation
    <2>4. \A j \in DOMAIN ops : j # i => Generation(ops'[j]) = Generation(ops[j])
      BY <1>1, <1>2
    <2> QED  BY <2>1, <2>2, <2>3, <2>4
  <1>9. Current' = [Current EXCEPT ![Gens[i].owner] = i]
    <2>1. \A o \in Owners : Current'[o] = Entry(o)'.op
      BY DEF Current, Entry
    <2>2. \A o \in Owners : Current[o] = Entry(o).op
      BY DEF Current, Entry
    <2>3. \A o \in Owners : Current'[o] = IF o = Gens[i].owner THEN i ELSE Current[o]
      BY <1>0, <1>2, <1>3, <2>1, <2>2, CurrentStep
    <2> QED  BY <1>3, <1>4, <2>3 DEF Current
  <1> QED  BY <1>3, <1>5, <1>6, <1>7, <1>8, <1>9 DEF CommitStep

LEMMA OtherwiseKept ==
  ASSUME LineInv, [Next]_vars, ~Complete, ~(\E r \in NewReceipts : Submit(r) \/ \E i \in DOMAIN ops : Supersede(i, r))
  PROVE  ReopenStep \/ UNCHANGED <<Gens, Current>>
  <1>0. ShapeInv /\ TypeOK /\ AlignedInv /\ Newest
    BY DEF LineInv, AlignedInv, ShapeInv
  <1>1. UNCHANGED Current
    BY <1>0, CurrentKept
  <1>2. DOMAIN ops' = DOMAIN ops
    <2>1. DOMAIN ops \subseteq DOMAIN ops'
      BY <1>0, Grows
    <2>2. \A i \in DOMAIN ops' \ DOMAIN ops : FALSE
      BY <1>0, NewRow
    <2> QED  BY <2>1, <2>2
  <1>3. /\ Gens \in Seq(Generations) /\ DOMAIN Gens = DOMAIN ops
        /\ \A j \in DOMAIN ops : /\ Gens[j].owner = ops[j].shape.owner /\ Gens[j].content = ops[j].content
                                 /\ Gens[j].status = Status(ops[j])
    BY <1>0, GensType
  <1>4. Gens' = [j \in DOMAIN ops |-> Generation(ops'[j])] /\ Gens = [j \in DOMAIN ops |-> Generation(ops[j])]
    BY <1>2 DEF Gens, Generation, Status
  <1>5. \A j \in DOMAIN ops : SamePlan(ops[j], ops'[j]) /\ ops[j].shape.owner \in Owners
    BY <1>0, Grows
  <1>6. ASSUME NEW j \in DOMAIN ops
        PROVE  Status(ops'[j]) = Status(ops[j]) \/ (Executing /\ j = work.id /\ ops[j].state = "cancelled" /\ ~Terminal(ops'[j]))
    BY <1>0, StatusStep DEF StatusKept
  <1>7. CASE \A j \in DOMAIN ops : Status(ops'[j]) = Status(ops[j])
    <2>1. \A j \in DOMAIN ops : Generation(ops'[j]) = Generation(ops[j])
      BY <1>5, <1>7 DEF Generation, SamePlan
    <2> QED  BY <1>1, <1>4, <2>1
  <1>8. CASE \E j \in DOMAIN ops : Status(ops'[j]) # Status(ops[j])
    <2>1. PICK i \in DOMAIN ops : Status(ops'[i]) # Status(ops[i])
      BY <1>8
    <2>2. Executing /\ i = work.id /\ ops[i].state = "cancelled" /\ ~Terminal(ops'[i])
      BY <1>6, <2>1
    <2>3. \A j \in DOMAIN ops : j # i => Generation(ops'[j]) = Generation(ops[j])
      BY <1>5, <1>6, <2>2 DEF Generation, SamePlan
    <2>4. Generation(ops'[i]) = [Generation(ops[i]) EXCEPT !.status = "open"]
      <3>1. Generation(ops'[i]) = [owner |-> ops[i].shape.owner, content |-> ops[i].content, status |-> "open"]
        BY <1>5, <2>2 DEF Generation, SamePlan, Status, Terminal
      <3> QED  BY <3>1 DEF Generation
    <2>5. Gens' = [Gens EXCEPT ![i].status = "open"]
      BY <1>4, <2>3, <2>4
    <2>6. Gens[i].status = "withdrawn"
      BY <1>3, <2>2 DEF Status
    <2>7. i > Current[Gens[i].owner]
      BY <1>0, <1>3, <1>5, <2>2, CurrentOf DEF Newest, Live
    <2> QED  BY <1>1, <1>3, <2>5, <2>6, <2>7 DEF ReopenStep
  <1> QED  BY <1>7, <1>8

LEMMA PromiseStep ==
  ASSUME LineInv, [Next]_vars
  PROVE  AcceptStep \/ SupersedeStep \/ ReopenStep \/ CommitStep \/ UNCHANGED <<Gens, Current>>
  BY AcceptsPlan, CommitsPlan, OtherwiseKept

\* The journal and the ledger implement the promise: plans become current in the
\* order they were accepted, each at most once (drain, apply and supersede).
THEOREM PromiseKept == Spec => KeepsPromise
  <1>1. Init => Promise!Init
    <2> SUFFICES ASSUME Init  PROVE Promise!Init
      OBVIOUS
    <2>1. ops = <<>> /\ \A o \in Owners : owners[o] = None
      BY DEF Init
    <2>2. [i \in DOMAIN ops |-> [owner |-> ops[i].shape.owner, content |-> ops[i].content, status |-> Status(ops[i])]] = <<>>
      BY <2>1
    <2> QED  BY <2>1, <2>2 DEF Promise!Init
  <1>2. LineInv /\ [Next]_vars => [Promise!Next]_(Promise!vars)
    <2> SUFFICES ASSUME LineInv, [Next]_vars  PROVE Promise!Next \/ UNCHANGED Promise!vars
      OBVIOUS
    <2>1. CASE AcceptStep
      BY <2>1 DEF AcceptStep, Promise!Next, Promise!Accept, Promise!Accepted, Accepting, Gens, Current, Generation
    <2>2. CASE SupersedeStep
      BY <2>2 DEF SupersedeStep, Promise!Next, Promise!Supersede, Promise!Accepted, Accepting, Gens, Current, Generation
    <2>3. CASE ReopenStep
      BY <2>3 DEF ReopenStep, Promise!Next, Promise!Reopen, Gens, Current, Generation
    <2>4. CASE CommitStep
      BY <2>4 DEF CommitStep, Promise!Next, Promise!Commit, Gens, Current, Generation
    <2>5. CASE UNCHANGED <<Gens, Current>>
      BY <2>5 DEF Promise!vars, Gens, Current, Generation
    <2> QED  BY <2>1, <2>2, <2>3, <2>4, <2>5, PromiseStep
  <1> QED  BY <1>1, <1>2, LineCorrect, PTL DEF Spec, KeepsPromise, Promise!Spec

=============================================================================
