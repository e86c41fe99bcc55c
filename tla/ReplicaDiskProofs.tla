---------------------------- MODULE ReplicaDiskProofs ----------------------------
(* What the replica service does to the endpoints, for every number of owners,   *)
(* plans and faults: it replaces and removes only versions it put there itself    *)
(* or was asked to release, but for what appears between the last look at a file   *)
(* and its capture (OthersBytesKept), and removes the old generation and the       *)
(* staging locations after every destination is verified (RemovesLast). The first  *)
(* needs to know where outcomes and replicas may be and what was put there; the    *)
(* second, how far the executor is with its targets; both, that what it finds is    *)
(* what it saw unless another writer came (Watched).                                *)
EXTENDS ReplicaServiceProofs

-----------------------------------------------------------------------------
(***************************************************************************)
(* How far the executor is                                                  *)
(***************************************************************************)

\* The steps that work on the targets.
Targeting == Placing \cup {"target", "verify"}

USE DEF Targeting, Placing, Removing

\* Every target before the current one has its outcome, and it is verified.
Aligned ==
  work # None =>
    /\ work.at \in {"queued", "stage", "staged"} => work.n = 1
    /\ work.at \in Targeting =>
         \A m \in 1..(work.n - 1) : m \in DOMAIN work.op.outcomes /\ work.op.outcomes[m].verified
    /\ work.at \in Past => AllVerified(work.op)

\* A target that has no outcome yet is the next one to get one.
LEMMA NextOutcome ==
  ASSUME ShapeInv, Aligned, work # None, work.at = "target", More, ~Resolved
  PROVE  work.n = Len(work.op.outcomes) + 1
  <1>1. work.n \in Nat /\ work.n > 0 /\ work.op \in Op /\ work.n > Len(work.op.outcomes)
    BY AtWork, OpFields DEF Locked, Resolved
  <1>2. Len(work.op.outcomes) \in Nat /\ DOMAIN work.op.outcomes = 1..Len(work.op.outcomes)
    BY <1>1, OpFields
  <1>3. work.n > 1 => work.n - 1 \in DOMAIN work.op.outcomes
    BY <1>1 DEF Aligned
  <1> QED  BY <1>1, <1>2, <1>3

LEMMA VerifiedAligned ==
  ASSUME ShapeInv, Aligned, work # None, work.at \in {"target", "verify"}, work.n \in DOMAIN work.op.outcomes, Verified
  PROVE  /\ Aligned' /\ work'.op \in Op /\ work'.at = "target" /\ work'.n = work.n + 1 /\ work'.id = work.id /\ work' # None
         /\ work'.op.content = work.op.content /\ DOMAIN work'.op.outcomes = DOMAIN work.op.outcomes
         /\ work'.op.outcomes[work.n].verified
         /\ \A m \in DOMAIN work.op.outcomes :
              /\ work'.op.outcomes[m].key = work.op.outcomes[m].key
              /\ work.op.outcomes[m].verified => work'.op.outcomes[m].verified
  <1> DEFINE op == [work.op EXCEPT !.outcomes[work.n].verified = TRUE]
  <1>1. work \in Work /\ work.op \in Op /\ work.n \in Nat /\ work.n > 0
    BY AtWork DEF Locked
  <1>2. PICK old \in Op, n \in DOMAIN work.op.outcomes : old = work.op /\ n = work.n
    BY <1>1
  <1>3. op = [old EXCEPT !.outcomes[n].verified = TRUE]
    BY <1>2
  <1>4. work' = [[work EXCEPT !.at = "target", !.n = @ + 1] EXCEPT !.op = op]
    BY DEF Verified, Save
  <1> HIDE DEF op
  <1>5. /\ op \in Op /\ DOMAIN op.outcomes = DOMAIN work.op.outcomes /\ op.outcomes[work.n].verified
        /\ op.content = work.op.content
        /\ \A m \in DOMAIN work.op.outcomes : /\ op.outcomes[m].key = work.op.outcomes[m].key
                                              /\ work.op.outcomes[m].verified => op.outcomes[m].verified
    <2>0. n \in DOMAIN old.outcomes /\ op = [old EXCEPT !.outcomes[n].verified = TRUE]
      BY <1>2, <1>3
    <2>1. op \in Op /\ op.content = old.content
      BY <2>0, Confirmed
    <2>2. DOMAIN op.outcomes = DOMAIN old.outcomes /\ op.outcomes[n].verified
      BY <2>0, Confirmed
    <2>3. \A m \in DOMAIN old.outcomes : /\ op.outcomes[m].key = old.outcomes[m].key
                                         /\ old.outcomes[m].verified => op.outcomes[m].verified
      BY <2>0, Confirmed
    <2> QED  BY <1>2, <2>1, <2>2, <2>3
  <1>6. PICK next \in Nat : next = work.n + 1
    BY <1>1
  <1>7. work' = [work EXCEPT !.at = "target", !.n = next, !.op = op]
    BY <1>1, <1>4, <1>6 DEF Work
  <1>8. work'.at = "target" /\ work'.n = next /\ work'.op = op /\ work'.id = work.id
    BY <1>1, <1>7 DEF Work
  <1>9. \A m \in 1..(work.n - 1) : m \in DOMAIN work.op.outcomes /\ work.op.outcomes[m].verified
    BY DEF Aligned
  <1>10. \A m \in 1..(next - 1) : m \in DOMAIN op.outcomes /\ op.outcomes[m].verified
    <2>1. SUFFICES ASSUME NEW m \in 1..(next - 1) PROVE m \in DOMAIN op.outcomes /\ op.outcomes[m].verified
      OBVIOUS
    <2>2. m = work.n \/ m \in 1..(work.n - 1)
      BY <1>1, <1>6
    <2> QED  BY <1>5, <1>9, <2>2
  <1>11. work' # None
    BY <1>1, <1>5, <1>7, RecordAssumption DEF Work, Steps
  <1> QED  BY <1>5, <1>6, <1>8, <1>10, <1>11 DEF Aligned, Past

LEMMA RecordAligned ==
  ASSUME ShapeInv, Aligned, work # None, work.at = "target", More, ~Resolved, NEW x \in Outcome, Record(x)
  PROVE  /\ Aligned' /\ work'.at = "target" /\ work'.n = work.n /\ work'.id = work.id /\ work'.op \in Op
         /\ work'.op.content = work.op.content
         /\ DOMAIN work'.op.outcomes = DOMAIN work.op.outcomes \cup {work.n}
         /\ work'.op.outcomes[work.n] = x /\ work.n \notin DOMAIN work.op.outcomes
         /\ \A m \in DOMAIN work.op.outcomes : work'.op.outcomes[m] = work.op.outcomes[m]
  <1> DEFINE op == [work.op EXCEPT !.outcomes = Append(@, x)]
  <1>1. work \in Work /\ work.op \in Op /\ work.n \in Nat /\ work.n > 0 /\ Len(work.op.outcomes) < Len(work.op.shape.targets)
    BY AtWork, AtTarget DEF Locked
  <1>2. work' = [work EXCEPT !.op = op] /\ work.n = Len(work.op.outcomes) + 1
    BY NextOutcome DEF Record, Save
  <1>3. /\ op \in Op /\ op.content = work.op.content
        /\ DOMAIN op.outcomes = DOMAIN work.op.outcomes \cup {Len(work.op.outcomes) + 1}
        /\ op.outcomes[Len(work.op.outcomes) + 1] = x
        /\ \A n \in DOMAIN work.op.outcomes : op.outcomes[n] = work.op.outcomes[n]
    BY <1>1, Recorded
  <1> HIDE DEF op
  <1>4. work'.op = op /\ work'.at = work.at /\ work'.n = work.n /\ work'.id = work.id
    BY <1>1, <1>2 DEF Work
  <1>5. work.n \notin DOMAIN work.op.outcomes
    BY <1>1, <1>2, OpFields
  <1>6. Aligned'
    BY <1>3, <1>4 DEF Aligned, Past
  <1> QED  BY <1>2, <1>3, <1>4, <1>5, <1>6

\* Stepping on without a change of the row.
LEMMA MoveAligned ==
  ASSUME ShapeInv, Aligned, work # None,
         \/ work'.op = work.op /\ work.at \in Past /\ work'.at \in Past
         \/ work'.op = work.op /\ work'.n = work.n /\ work.at \in Targeting /\ work'.at \in Targeting
         \/ work'.n = 1 /\ work'.at \in {"queued", "stage", "staged", "target"}
         \/ work'.at \in Cleaning \cup {"restore"}
  PROVE  Aligned'
  BY DEF Aligned, Past, Cleaning, AllVerified

LEMMA AlignedStep ==
  ASSUME ShapeInv, Aligned, [Next]_vars
  PROVE  Aligned'
  <1>1. ASSUME UNCHANGED work  PROVE Aligned'
    BY <1>1 DEF Aligned, AllVerified
  <1>2. ASSUME work' = None  PROVE Aligned'
    BY <1>2 DEF Aligned
  <1>3. CASE Callers
    BY <1>1, <1>3 DEF Callers, Submit, Supersede, Retry, Adopt, EditCapture, executor
  <1>4. CASE Environment
    BY <1>1, <1>2, <1>4 DEF Environment, Foreign, Transient, Leave, Crash, executor
  <1>5. CASE StartPass \/ Edit \/ (\E p \in DOMAIN ingress : Reclaim(p)) \/ \E i \in DOMAIN ops : Elapse(i)
    BY <1>1, <1>5 DEF StartPass, Edit, EditTake, EditPlace, EditCommit, EditRefused, Reclaim, Elapse, executor, durable
  <1>6. CASE Visit
    <2>1. UNCHANGED work \/ work' = Begun(Row, "clean") \/ work' = [Begun(Row, "queued") EXCEPT !.op.state = "running"]
      BY <1>6 DEF Visit
    <2>2. CASE work' = Begun(Row, "clean")
      <3>1. work'.at = "clean"
        BY <2>2 DEF Begun
      <3> QED  BY <3>1 DEF Aligned, Past
    <2>3. CASE work' = [Begun(Row, "queued") EXCEPT !.op.state = "running"]
      <3>1. work'.at = "queued" /\ work'.n = 1
        BY <2>3 DEF Begun
      <3> QED  BY <3>1 DEF Aligned, Past
    <2> QED  BY <1>1, <2>1, <2>2, <2>3
  <1>7. CASE Begin \/ Stage \/ StageVerify
    <2>0. work # None /\ work.at \in {"queued", "stage", "staged"} /\ work.n = 1
      BY <1>7 DEF Begin, Stage, StageVerify, At, Aligned
    <2>1. work \in Work
      BY <2>0, AtWork DEF Locked
    <2>2. \/ work' = None
          \/ \E at \in {"stage", "staged", "target"} : \/ work' = [work EXCEPT !.at = at]
                                                       \/ \E op : work' = [[work EXCEPT !.at = at] EXCEPT !.op = op]
      BY <1>7 DEF Begin, Stage, StageVerify, Save, Block, Leave
    <2>3. work' = None \/ (work'.n = 1 /\ work'.at \in {"queued", "stage", "staged", "target"})
      BY <2>0, <2>1, <2>2 DEF Work
    <2> QED  BY <1>2, <2>0, <2>3, MoveAligned
  <1>8. CASE Resolve
    <2>0. work # None /\ work.at = "target" /\ More /\ ~Resolved
      BY <1>8 DEF Resolve, At
    <2> DEFINE k == IF Wanted.onConflict = "rename" /\ Prior # {} THEN Previous.key ELSE Wanted.key
    <2>1. k \in Keys /\ Spare[Wanted.key] \subseteq Keys
      BY <2>0, ResolveKey
    <2>2. \/ Block
          \/ Record(Resolution(k))
          \/ \E free \in Spare[Wanted.key] : Record([Resolution(k) EXCEPT !.key = free, !.expected = Absent, !.managed = TRUE])
      BY <1>8 DEF Resolve
    <2> HIDE DEF k
    <2>3. CASE Block
      BY <1>2, <2>3 DEF Block, Leave
    <2>4. CASE Record(Resolution(k))
      BY <2>0, <2>1, <2>4, ResolutionType, RecordAligned
    <2>5. CASE \E free \in Spare[Wanted.key] : Record([Resolution(k) EXCEPT !.key = free, !.expected = Absent, !.managed = TRUE])
      <3>1. PICK free \in Keys : Record([Resolution(k) EXCEPT !.key = free, !.expected = Absent, !.managed = TRUE])
        BY <2>1, <2>5
      <3> QED  BY <2>0, <2>1, <3>1, ResolutionType, RecordAligned
    <2> QED  BY <2>2, <2>3, <2>4, <2>5
  <1>9. CASE Inspect \/ Verify
    <2>0. work # None /\ work.at \in {"target", "verify"} /\ work.n \in DOMAIN work.op.outcomes
      BY <1>9, AtTarget, AtWrite DEF Inspect, Verify, At
    <2>1. CASE Verified
      BY <2>0, <2>1, VerifiedAligned
    <2>2. CASE work' = [work EXCEPT !.at = "write", !.found = disk[Chosen.key]]
      <3>1. work'.op = work.op /\ work'.n = work.n /\ work'.at = "write"
        BY <2>0, <2>2, AtWork DEF Locked, Work
      <3> QED  BY <2>0, <3>1, MoveAligned
    <2> QED  BY <1>2, <1>9, <2>1, <2>2 DEF Inspect, Verify, Block, Leave
  <1>10. CASE Swap
    <2>0. work # None /\ work.at \in Placing \cup Removing \cup {"restore"}
      BY <1>10, SwapFrame
    <2>1. \/ Block
          \/ /\ work'.op = work.op /\ work'.n = work.n
             /\ \/ work.at \in Placing /\ work'.at \in Placing \cup {"verify"}
                \/ work.at \in Removing /\ work'.at \in Removing \cup {"retire"}
                \/ work'.at = "restore"
      BY <1>10, SwapStep
    <2> QED  BY <1>2, <2>0, <2>1, MoveAligned DEF Block, Leave, Past
  <1>11. CASE Placed
    <2>0. work # None /\ work.at = "target" /\ ~More /\ work.at \in Locked
      BY <1>11 DEF Placed, At, Locked
    <2>1. /\ work \in Work /\ work.op \in Op /\ work.n \in Nat /\ work.op.base # None
          /\ Len(work.op.outcomes) <= Len(work.op.shape.targets)
      BY <2>0, AtWork
    <2>2. work'.op = work.op /\ work'.at = "retire"
      BY <1>11, <2>1 DEF Placed, Save, Work
    <2>3. /\ Len(work.op.shape.targets) \in Nat /\ Len(work.op.outcomes) \in Nat /\ DOMAIN work.op.outcomes = 1..Len(work.op.outcomes)
          /\ work.n > Len(work.op.shape.targets)
      BY <2>0, <2>1, OpFields DEF More
    <2>4. \A m \in 1..Len(work.op.shape.targets) : m \in DOMAIN work.op.outcomes /\ work.op.outcomes[m].verified
      BY <2>0, <2>1, <2>3 DEF Aligned
    <2>5. Len(work.op.outcomes) = Len(work.op.shape.targets)
      BY <2>1, <2>3, <2>4
    <2>6. AllVerified(work.op)
      BY <2>1, <2>3, <2>4, <2>5 DEF AllVerified
    <2> QED  BY <2>2, <2>6 DEF Aligned, Past, AllVerified
  <1>12. CASE Retire \/ Ask \/ Retired \/ Check \/ Release \/ Drop
    <2>0. work # None /\ work.at \in Past /\ work.at \in Locked
      BY <1>12 DEF Retire, Ask, Retired, Check, Release, Drop, At, Past, Locked
    <2>1. work \in Work
      BY <2>0, AtWork
    <2>2. work' = None \/ (work'.op = work.op /\ work'.at \in Past)
      BY <1>12, <2>0, <2>1 DEF Retire, Ask, Retired, Check, Release, Drop, Block, Leave, Past, Work
    <2> QED  BY <1>2, <2>0, <2>2, MoveAligned
  <1>13. CASE Complete \/ Clean \/ DropIngress \/ DropPin
    <2>0. work # None /\ work \in Work
      BY <1>13, WorkFields DEF Complete, Clean, DropIngress, DropPin, At, ShapeInv, TypeOK
    <2>1. work' = None \/ work'.at \in Cleaning
      BY <1>13, <2>0 DEF Complete, Save, Clean, Done, DropIngress, DropPin, Cleaning, Work
    <2> QED  BY <1>2, <2>0, <2>1, MoveAligned
  <1>14. CASE UNCHANGED vars
    BY <1>1, <1>14 DEF vars, executor
  <1> QED  BY <1>3, <1>4, <1>5, <1>6, <1>7, <1>8, <1>9, <1>10, <1>11, <1>12, <1>13, <1>14 DEF Next, Executor

\* The executor's own step, or a visit, is all that moves it on.
LEMMA WorkStep ==
  ASSUME [Next]_vars
  PROVE  UNCHANGED work \/ work' = None \/ Visit \/ Executor
  <1>1. CASE Callers
    BY <1>1 DEF Callers, Submit, Supersede, Retry, Adopt, EditCapture, executor
  <1>2. CASE Environment
    BY <1>2 DEF Environment, Foreign, Transient, Leave, Crash, executor
  <1>3. CASE StartPass \/ Edit \/ (\E p \in DOMAIN ingress : Reclaim(p)) \/ \E i \in DOMAIN ops : Elapse(i)
    BY <1>3 DEF StartPass, Edit, EditTake, EditPlace, EditCommit, EditRefused, Reclaim, Elapse, executor, durable
  <1>4. CASE UNCHANGED vars
    BY <1>4 DEF vars, executor
  <1> QED  BY <1>1, <1>2, <1>3, <1>4 DEF Next

LEMMA InitAligned == Init => Aligned
  BY DEF Init, Aligned

\* Between its looks at an endpoint and the step that takes, publishes or puts
\* back a file there, the endpoint is what it was unless another writer came; an
\* edit that has moved a file away is another writer itself.
Watched ==
  /\ work # None =>
       /\ work.at \in {"write", "retain", "capture"} =>
            work.found # work.op.content /\ (disk[Chosen.key] = work.found \/ touched[Chosen.key])
       /\ work.at \in {"publish", "replace"} => disk[Chosen.key] = Absent \/ touched[Chosen.key]
       /\ work.at \in {"ask", "keep", "unlink"} => disk[work.key] = Old(work.key).content \/ touched[work.key]
       /\ work.at = "delete" => disk[work.key] = Absent \/ touched[work.key]
       /\ work.at = "restore" => touched[work.key]
  /\ lock = "taken" => touched[Edited.key]

\* What an edit in progress works on stays.
LEMMA EditStays ==
  ASSUME ShapeInv, [Next]_vars, lock' = "taken", lock = "taken"
  PROVE  Edited' = Edited
  <1>0. Len(ingress) > 0 /\ Len(ingress) \in Nat /\ ingress \in Seq(Ingress \cup {None})
        /\ \A i \in DOMAIN ops : Terminal(ops[i]) => ops[i].pin < Len(ingress)
    BY DEF ShapeInv, TypeOK, LockShaped
  <1>1. CASE UNCHANGED ingress
    BY <1>1 DEF Edited
  <1>2. CASE DropIngress
    <2>1. /\ work # None /\ work.at = "dropingress" /\ work.id \in DOMAIN ops /\ ops[work.id] = work.op /\ Terminal(work.op)
          /\ work.pin \in 1..work.op.pin
      BY <1>2 DEF DropIngress, At, ShapeInv, WorkShaped, Cleaning
    <2>2. work.op \in Op /\ work.op.pin \in Nat
      BY <2>1, OpIds, OpFields DEF ShapeInv
    <2>3. work.pin < Len(ingress)
      BY <1>0, <2>1, <2>2
    <2>4. ingress' = [ingress EXCEPT ![work.pin] = None]
      BY <1>2 DEF DropIngress, DiscardIngress
    <2>5. PICK p \in Nat : p = work.pin
      BY <2>1, <2>2
    <2>6. ingress' = [ingress EXCEPT ![p] = None] /\ p # Len(ingress)
      BY <1>0, <2>3, <2>4, <2>5
    <2>7. Len(ingress') = Len(ingress) /\ ingress'[Len(ingress)] = ingress[Len(ingress)]
      BY <1>0, <2>6
    <2> QED  BY <2>7 DEF Edited
  <1>3. CASE Callers
    BY <1>1, <1>3 DEF Callers, Submit, Supersede, Retry, Adopt, EditCapture
  <1>4. CASE Environment
    BY <1>1, <1>4 DEF Environment, Foreign, Transient, Crash, durable
  <1>5. CASE StartPass \/ Visit \/ Begin \/ Stage \/ StageVerify \/ Resolve
    BY <1>1, <1>5 DEF StartPass, Visit, Begin, Stage, StageVerify, Resolve, Rest, durable
  <1>6. CASE Inspect \/ Swap \/ Verify \/ Placed
    BY <1>1, <1>6, SwapFrame DEF Inspect, Verify, Placed, Rest
  <1>7. CASE Retire \/ Ask \/ Retired \/ Check \/ Release \/ Drop \/ Complete
    BY <1>1, <1>7 DEF Retire, Ask, Retired, Check, Release, Drop, Complete, Rest
  <1>8. CASE Clean \/ DropPin
    BY <1>1, <1>8 DEF Clean, DropPin
  <1>9. CASE Edit
    BY <1>1, <1>9 DEF Edit, EditTake, EditPlace, EditCommit, EditRefused, durable
  <1>10. CASE (\E p \in DOMAIN ingress : Reclaim(p)) \/ \E i \in DOMAIN ops : Elapse(i)
    BY <1>1, <1>10 DEF Reclaim, Elapse
  <1>11. CASE UNCHANGED vars
    BY <1>1, <1>11 DEF vars, durable
  <1> QED  BY <1>2, <1>3, <1>4, <1>5, <1>6, <1>7, <1>8, <1>9, <1>10, <1>11 DEF Next, Executor

\* While nobody moves the executor, what it watches changes by another writer.
LEMMA WatchedStays ==
  ASSUME ShapeInv, [Next]_vars, ~Swap, work' = work, work # None, work.at \in Locked \ {"drop"}, NEW k \in Keys
  PROVE  (disk'[k] = disk[k] /\ touched'[k] = touched[k]) \/ touched'[k]
  <1>0. disk \in [Keys -> Bytes] /\ touched \in [Keys -> BOOLEAN] /\ lock = "executor"
    BY AtWork DEF ShapeInv, TypeOK
  <1>1. ~EditTake /\ ~EditPlace
    BY <1>0 DEF EditTake, EditPlace
  <1>2. ~Drop
    BY DEF Drop, At
  <1>3. ~Puts /\ ~Capture /\ ~Unlink /\ ~Delete /\ ~Restore
    BY DEF Swap, Puts
  <1>4. CASE \E f \in ForeignKeys, b \in Bytes : Foreign(f, b)
    BY <1>0, <1>4 DEF Foreign
  <1> QED  BY <1>0, <1>1, <1>2, <1>3, <1>4, DiskStep

\* The steps of the file backend, one after the other.
LEMMA WatchedSwap ==
  ASSUME ShapeInv, Watched, Swap, [Next]_vars
  PROVE  Watched'
  <1>0. /\ work # None /\ work \in Work /\ work.at \in Locked /\ lock = "executor"
        /\ disk \in [Keys -> Bytes] /\ touched \in [Keys -> BOOLEAN]
    BY SwapFrame, AtWork DEF ShapeInv, TypeOK
  <1>1. CASE Block
    BY <1>1 DEF Block, Leave, Watched
  <1>2. CASE ~Block
    <2>0. lock' = "executor"
      BY <1>0, <1>2, SwapFrame
    <2>1. CASE Write \/ Publish \/ Replace
      <3>1. CASE Publishes
        <4>1. work'.at = "verify"
          BY <1>0, <3>1 DEF Publishes, Work
        <4> QED  BY <2>0, <4>1 DEF Watched
      <3>2. CASE Write /\ ~Publishes
        <4>1. work' = [work EXCEPT !.at = "retain"] /\ UNCHANGED <<disk, touched>> /\ work.at = "write"
          BY <1>2, <3>2 DEF Write, At
        <4>2. work'.at = "retain" /\ work'.op = work.op /\ work'.n = work.n /\ work'.found = work.found
          BY <1>0, <4>1 DEF Work
        <4> QED  BY <1>0, <2>0, <4>1, <4>2 DEF Watched, Chosen
      <3>3. CASE Publish /\ ~Publishes
        <4>1. work' = [work EXCEPT !.at = "restore", !.key = Chosen.key] /\ UNCHANGED <<disk, touched>> /\ work.at = "publish"
              /\ disk[Chosen.key] # Absent
          BY <3>3 DEF Publish, At
        <4>2. work'.at = "restore" /\ work'.key = Chosen.key
          BY <1>0, <4>1 DEF Work
        <4> QED  BY <1>0, <2>0, <4>1, <4>2 DEF Watched
      <3> QED  BY <2>1, <3>1, <3>2, <3>3 DEF Replace
    <2>2. CASE Retain
      <3>1. work.at = "retain" /\ UNCHANGED <<disk, touched>>
        BY <2>2 DEF Retain, Retained, Rest, At
      <3>2. CASE disk[Chosen.key] = Absent /\ work' = [work EXCEPT !.at = "replace"]
        <4>1. work'.at = "replace" /\ work'.op = work.op /\ work'.n = work.n
          BY <1>0, <3>2 DEF Work
        <4> QED  BY <2>0, <3>1, <3>2, <4>1 DEF Watched, Chosen
      <3>3. CASE work' = [work EXCEPT !.at = "capture"]
        <4>1. work'.at = "capture" /\ work'.op = work.op /\ work'.n = work.n /\ work'.found = work.found
          BY <1>0, <3>3 DEF Work
        <4> QED  BY <1>0, <2>0, <3>1, <4>1 DEF Watched, Chosen
      <3> QED  BY <1>2, <2>2, <3>2, <3>3 DEF Retain, Retained
    <2>3. CASE Capture
      <3>1. work.at = "capture" /\ UNCHANGED touched
        BY <2>3 DEF Capture, Rest, At
      <3>2. Chosen.key \in Keys
        BY <1>0, <3>1, AtWrite
      <3>3. CASE disk[Chosen.key] # work.found /\ work' = [work EXCEPT !.at = "restore", !.key = Chosen.key, !.found = disk[Chosen.key]]
        <4>1. work'.at = "restore" /\ work'.key = Chosen.key
          BY <1>0, <3>3 DEF Work
        <4> QED  BY <1>0, <2>0, <3>1, <3>3, <4>1 DEF Watched
      <3>4. CASE disk' = [disk EXCEPT ![Chosen.key] = Absent] /\ work' = [work EXCEPT !.at = "publish"]
        <4>1. work'.at = "publish" /\ work'.op = work.op /\ work'.n = work.n
          BY <1>0, <3>4 DEF Work
        <4>2. disk'[Chosen.key] = Absent
          BY <1>0, <3>2, <3>4
        <4> QED  BY <2>0, <4>1, <4>2 DEF Watched, Chosen
      <3> QED  BY <1>2, <2>3, <3>3, <3>4 DEF Capture, Captured, Differs
    <2>4. CASE Keep
      <3>1. work.at = "keep" /\ UNCHANGED <<disk, touched>>
        BY <2>4 DEF Keep, Retained, Rest, At
      <3>2. CASE disk[work.key] = Absent /\ work' = [work EXCEPT !.at = "delete"]
        <4>1. work'.at = "delete" /\ work'.key = work.key
          BY <1>0, <3>2 DEF Work
        <4> QED  BY <2>0, <3>1, <3>2, <4>1 DEF Watched
      <3>3. CASE work' = [work EXCEPT !.at = "unlink"]
        <4>1. work'.at = "unlink" /\ work'.op = work.op /\ work'.key = work.key
          BY <1>0, <3>3 DEF Work
        <4> QED  BY <1>0, <2>0, <3>1, <4>1 DEF Watched, Old, Mirrors
      <3> QED  BY <1>2, <2>4, <3>2, <3>3 DEF Keep, Retained
    <2>5. CASE Unlink
      <3>1. work.at = "unlink" /\ UNCHANGED touched
        BY <2>5 DEF Unlink, Rest, At
      <3>3. CASE /\ disk[work.key] # Old(work.key).content
                 /\ work' = [work EXCEPT !.at = "restore", !.key = work.key, !.found = disk[work.key]]
        <4>1. work'.at = "restore" /\ work'.key = work.key
          BY <1>0, <3>3 DEF Work
        <4> QED  BY <1>0, <2>0, <3>1, <3>3, <4>1 DEF Watched
      <3>4. CASE work' = Gone
        <4>1. work'.at = "retire"
          BY <1>0, <3>4 DEF Work, Gone
        <4> QED  BY <2>0, <4>1 DEF Watched
      <3> QED  BY <1>2, <2>5, <3>3, <3>4 DEF Unlink, Captured, Differs
    <2>6. CASE Delete
      <3>1. work'.at = "retire"
        BY <1>0, <2>6 DEF Work, Gone, Delete
      <3> QED  BY <2>0, <3>1 DEF Watched
    <2>7. ~Restore
      BY <1>2 DEF Restore
    <2> QED  BY <2>1, <2>2, <2>3, <2>4, <2>5, <2>6, <2>7 DEF Swap
  <1> QED  BY <1>1, <1>2

LEMMA WatchedStep ==
  ASSUME ShapeInv, Watched, [Next]_vars
  PROVE  Watched'
  <1>0. disk \in [Keys -> Bytes] /\ touched \in [Keys -> BOOLEAN] /\ lock \in {"free", "executor", "edit", "taken", "placed"}
    BY DEF ShapeInv, TypeOK
  <1>1. CASE Swap
    BY <1>1, WatchedSwap
  <1>2. CASE ~Swap
    <2>1. lock' = "taken" => touched'[Edited'.key]
      <3>1. SUFFICES ASSUME lock' = "taken"  PROVE touched'[Edited'.key]
        OBVIOUS
      <3>2. CASE EditTake
        <4>1. Edited.key \in Keys /\ touched' = [touched EXCEPT ![Edited.key] = TRUE] /\ UNCHANGED ingress
          <5>1. lock = "edit" /\ UNCHANGED ingress
            BY <3>2 DEF EditTake, durable
          <5>2. Edited \in Ingress
            BY <5>1, EditFields DEF Edited
          <5> QED  BY <3>2, <5>1, <5>2 DEF EditTake, Ingress
        <4> QED  BY <1>0, <4>1 DEF Edited
      <3>3. CASE lock = "taken"
        <4>1. Edited' = Edited /\ touched[Edited.key]
          BY <3>1, <3>3, EditStays DEF Watched
        <4>2. ~Puts /\ ~Drop /\ ~EditPlace /\ ~EditTake
          <5>1. ~Puts
            BY <1>2 DEF Puts, Swap
          <5>2. ~EditPlace /\ ~EditTake
            BY <3>1, <3>3 DEF EditPlace, EditTake
          <5>3. Drop => lock = "executor"
            BY AtWork DEF Drop, At, Locked
          <5> QED  BY <3>3, <5>1, <5>2, <5>3
        <4>3. touched' = touched \/ \E f \in ForeignKeys : touched' = [touched EXCEPT ![f] = TRUE]
          <5>1. ASSUME NEW f \in ForeignKeys, NEW b \in Bytes, Foreign(f, b)
                PROVE  touched' = [touched EXCEPT ![f] = TRUE]
            BY <5>1 DEF Foreign
          <5>2. CASE \E f \in ForeignKeys, b \in Bytes : Foreign(f, b)
            BY <5>1, <5>2
          <5> QED  BY <4>2, <5>2, DiskStep
        <4>4. Edited.key \in Keys
          BY <3>3, EditFields DEF Edited, Ingress
        <4> QED  BY <1>0, <4>1, <4>3, <4>4
      <3>4. EditTake \/ lock = "taken"
        <4>1. CASE UNCHANGED lock
          BY <3>1, <4>1
        <4>2. CASE Callers \/ Environment
          BY <3>1, <4>1, <4>2 DEF Callers, Submit, Supersede, Retry, Adopt, EditCapture, Environment, Foreign, Transient, Leave, Crash
        <4>3. CASE StartPass \/ Visit \/ Begin \/ Stage \/ StageVerify \/ Resolve
          BY <3>1, <4>1, <4>3 DEF StartPass, Visit, Begin, Stage, StageVerify, Resolve, Record, Block, Leave
        <4>4. CASE Inspect \/ Verify \/ Placed
          BY <3>1, <4>1, <4>4 DEF Inspect, Verify, Placed, Block, Leave
        <4>5. CASE Retire \/ Ask \/ Retired \/ Check \/ Release \/ Drop \/ Complete
          BY <3>1, <4>1, <4>5 DEF Retire, Ask, Retired, Check, Release, Drop, Complete, Block, Leave
        <4>6. CASE Clean \/ DropIngress \/ DropPin
          BY <3>1, <4>1, <4>6 DEF Clean, DropIngress, DropPin, Done
        <4>7. CASE EditPlace \/ EditCommit \/ EditRefused
          BY <3>1, <4>7 DEF EditPlace, EditCommit, EditRefused
        <4>8. CASE (\E p \in DOMAIN ingress : Reclaim(p)) \/ \E i \in DOMAIN ops : Elapse(i)
          BY <4>1, <4>8 DEF Reclaim, Elapse
        <4>9. CASE UNCHANGED vars
          BY <4>1, <4>9 DEF vars
        <4> QED  BY <1>2, <4>2, <4>3, <4>4, <4>5, <4>6, <4>7, <4>8, <4>9 DEF Next, Executor, Edit
      <3> QED  BY <3>2, <3>3, <3>4
    <2>2. ASSUME work' = None \/ work'.at \notin Placing \cup Removing \cup {"ask", "restore"}  PROVE Watched'
      BY <2>1, <2>2 DEF Watched
    <2>3. CASE work' = work /\ work # None /\ work.at \in Placing \cup Removing \cup {"ask", "restore"}
      <3>1. work.at \in Locked \ {"drop"}
        BY <2>3 DEF Locked
      <3>2. ASSUME NEW k \in Keys  PROVE (disk'[k] = disk[k] /\ touched'[k] = touched[k]) \/ touched'[k]
        BY <1>2, <2>3, <3>1, WatchedStays
      <3>3. work.at \in Placing => Chosen.key \in Keys
        BY <2>3, AtWrite
      <3>4. work.at \in Removing \cup {"ask", "restore"} => work.key \in Keys
        BY <2>3 DEF ShapeInv, WorkShaped
      <3>5. /\ work.at \in {"write", "retain", "capture"} =>
                 work.found # work.op.content /\ (disk'[Chosen.key] = work.found \/ touched'[Chosen.key])
            /\ work.at \in {"publish", "replace"} => disk'[Chosen.key] = Absent \/ touched'[Chosen.key]
            /\ work.at \in {"ask", "keep", "unlink"} => disk'[work.key] = Old(work.key).content \/ touched'[work.key]
            /\ work.at = "delete" => disk'[work.key] = Absent \/ touched'[work.key]
            /\ work.at = "restore" => touched'[work.key]
        BY <2>3, <3>2, <3>3, <3>4 DEF Watched
      <3>6. Chosen' = Chosen /\ \A k : Old(k)' = Old(k)
        BY <2>3 DEF Chosen, Old, Mirrors
      <3> QED  BY <2>1, <2>3, <3>5, <3>6 DEF Watched
    <2>4. CASE work' = work
      BY <2>2, <2>3, <2>4
    <2>5. CASE Visit /\ work' # work
      <3>1. work' = Begun(Row, "clean") \/ work' = [Begun(Row, "queued") EXCEPT !.op.state = "running"]
        BY <2>5 DEF Visit
      <3>2. work'.at \in {"clean", "queued"}
        BY <3>1 DEF Begun
      <3> QED  BY <2>2, <3>2
    <2>6. CASE Inspect
      <3>0. work # None /\ work.at = "target" /\ work.at \in Locked /\ work.n \in DOMAIN work.op.outcomes /\ UNCHANGED <<disk, touched>>
        BY <2>6, AtTarget DEF Inspect, At, Locked
      <3>1. work \in Work
        BY <3>0, AtWork
      <3>2. CASE Verified
        <4>1. work'.at = "target"
          <5>1. work' = [[work EXCEPT !.at = "target", !.n = @ + 1] EXCEPT !.op = [work.op EXCEPT !.outcomes[work.n].verified = TRUE]]
            BY <3>2 DEF Verified, Save
          <5> QED  BY <3>1, <5>1 DEF Work
        <4> QED  BY <2>2, <4>1
      <3>3. CASE disk[Chosen.key] # work.op.content /\ work' = [work EXCEPT !.at = "write", !.found = disk[Chosen.key]]
        <4>1. work'.at = "write" /\ work'.op = work.op /\ work'.n = work.n /\ work'.found = disk[Chosen.key]
          BY <3>1, <3>3 DEF Work
        <4> QED  BY <2>1, <3>0, <3>3, <4>1 DEF Watched, Chosen
      <3> QED  BY <2>2, <2>6, <3>2, <3>3 DEF Inspect, Block, Leave
    <2>7. CASE Retire
      <3>0. work # None /\ work.at = "retire" /\ work \in Work /\ UNCHANGED <<disk, touched>>
        BY <2>7, AtWork DEF Retire, At, Locked, Rest
      <3>1. CASE \E k \in work.left : disk[k] = Old(k).content /\ work' = [work EXCEPT !.at = "ask", !.key = k]
        <4>1. PICK k \in work.left : disk[k] = Old(k).content /\ work' = [work EXCEPT !.at = "ask", !.key = k]
          BY <3>1
        <4>2. work'.at = "ask" /\ work'.op = work.op /\ work'.key = k
          BY <3>0, <4>1 DEF Work
        <4> QED  BY <2>1, <3>0, <4>1, <4>2 DEF Watched, Old, Mirrors
      <3>2. CASE \E k \in work.left : work' = [work EXCEPT !.left = @ \ {k}]
        <4>1. work'.at = "retire"
          BY <3>0, <3>2 DEF Work
        <4> QED  BY <2>2, <4>1
      <3> QED  BY <2>2, <2>7, <3>1, <3>2 DEF Retire, Block, Leave
    <2>8. CASE Ask
      <3>0. work # None /\ work.at = "ask" /\ work \in Work /\ UNCHANGED <<disk, touched>>
        BY <2>8, AtWork DEF Ask, At, Locked, Rest
      <3>1. CASE work' = [work EXCEPT !.at = "keep"]
        <4>1. work'.at = "keep" /\ work'.op = work.op /\ work'.key = work.key
          BY <3>0, <3>1 DEF Work
        <4> QED  BY <2>1, <3>0, <4>1 DEF Watched, Old, Mirrors
      <3> QED  BY <2>2, <2>8, <3>1 DEF Ask, Block, Leave
    <2>9. CASE Begin \/ Stage \/ StageVerify \/ Placed \/ Verify
      <3>1. work # None /\ work \in Work
        BY <2>9, WorkFields DEF Begin, Stage, StageVerify, Placed, Verify, At, ShapeInv, TypeOK
      <3>2. work' = None \/ work'.at \in {"stage", "staged", "target", "retire"}
        BY <2>9, <3>1 DEF Begin, Stage, StageVerify, Placed, Verify, Verified, Save, Block, Leave, Work
      <3> QED  BY <2>2, <3>2
    <2>10. CASE Resolve
      <3>0. work # None /\ work \in Work /\ work.at = "target"
        BY <2>10, AtWork DEF Resolve, At, Locked
      <3>1. Block \/ \E x : Record(x)
        BY <2>10 DEF Resolve
      <3>2. work' = None \/ work'.at = "target"
        BY <3>0, <3>1 DEF Record, Save, Block, Leave, Work
      <3> QED  BY <2>2, <3>2
    <2>11. CASE Retired \/ Check \/ Release \/ Drop \/ Complete \/ Clean \/ DropIngress \/ DropPin
      <3>1. work # None /\ work \in Work
        BY <2>11, WorkFields DEF Retired, Check, Release, Drop, Complete, Clean, DropIngress, DropPin, At, ShapeInv, TypeOK
      <3>2. work' = None \/ work'.at \in {"check", "release", "drop", "clean", "dropingress", "droppin"}
        BY <2>11, <3>1 DEF Retired, Check, Release, Drop, Complete, Save, Clean, Done, DropIngress, DropPin, At, Block, Leave, Work
      <3> QED  BY <2>2, <3>2
    <2> QED  BY <1>2, <2>2, <2>4, <2>5, <2>6, <2>7, <2>8, <2>9, <2>10, <2>11, WorkStep DEF Executor
  <1> QED  BY <1>1, <1>2

LEMMA InitWatched == Init => Watched
  BY DEF Init, Watched

AlignedInv == ShapeInv /\ Aligned /\ Watched

\* The executor works the targets of a plan in order.
THEOREM AlignedCorrect == Spec => []AlignedInv
  <1>1. Init => AlignedInv
    BY InitShape, InitAligned, InitWatched DEF AlignedInv
  <1>2. AlignedInv /\ [Next]_vars => AlignedInv'
    BY NextShape, AlignedStep, WatchedStep DEF AlignedInv
  <1> QED  BY <1>1, <1>2, PTL DEF Spec

\* What Resolve chooses for a target: a name it may have, and a version to
\* replace only where the owner had one.
Chooses(x) ==
  /\ x.asked = Wanted.key /\ ~x.verified
  /\ \/ x.key \in Spare[Wanted.key] \cup {Wanted.key}
     \/ Prior # {} /\ x.key = Previous.key
  /\ Wanted.onConflict = "overwrite" => x.key = Wanted.key
  /\ x.replaces # Absent =>
       \/ x.expected = Absent
       \/ /\ Owned /\ Previous.mirror /\ x.replaces = Previous.content
          /\ x.key \in {Previous.key, Wanted.key}

LEMMA ResolveStep ==
  ASSUME AlignedInv, Resolve
  PROVE  \/ Block
         \/ /\ work # None /\ work.at = "target" /\ More /\ ~Resolved
            /\ \E x \in Outcome : Record(x) /\ Chooses(x)
  <1>0. work # None /\ work.at = "target" /\ More /\ ~Resolved /\ ShapeInv
    BY DEF Resolve, At, AlignedInv
  <1> DEFINE k == IF Wanted.onConflict = "rename" /\ Prior # {} THEN Previous.key ELSE Wanted.key
  <1>1. k \in Keys /\ Spare[Wanted.key] \subseteq Keys
    BY <1>0, ResolveKey
  <1>2. \/ Block
        \/ Record(Resolution(k))
        \/ /\ Wanted.onConflict = "rename"
           /\ \E free \in Spare[Wanted.key] : Record([Resolution(k) EXCEPT !.key = free, !.expected = Absent, !.managed = TRUE])
    BY DEF Resolve
  <1>3. /\ k \in {Wanted.key} \/ (Prior # {} /\ k = Previous.key)
        /\ Wanted.onConflict = "overwrite" => k = Wanted.key
    OBVIOUS
  <1> HIDE DEF k
  <1>4. PICK x \in Outcome : x = Resolution(k)
    BY <1>0, <1>1, ResolutionType
  <1>5. /\ x.key = k /\ x.asked = Wanted.key /\ ~x.verified /\ x.mirror = Wanted.mirror
        /\ x.replaces = IF Owned /\ Previous.mirror THEN Previous.content ELSE Absent
    BY <1>4 DEF Resolution
  <1>6. CASE Record(Resolution(k))
    BY <1>0, <1>3, <1>4, <1>5, <1>6 DEF Chooses
  <1>7. CASE /\ Wanted.onConflict = "rename"
             /\ \E free \in Spare[Wanted.key] : Record([Resolution(k) EXCEPT !.key = free, !.expected = Absent, !.managed = TRUE])
    <2>1. PICK free \in Spare[Wanted.key] : Record([x EXCEPT !.key = free, !.expected = Absent, !.managed = TRUE])
      BY <1>4, <1>7
    <2>2. PICK y \in Outcome : y = [x EXCEPT !.key = free, !.expected = Absent, !.managed = TRUE]
      BY <1>0, <1>1, <1>4, ResolutionType
    <2>3. y.key = free /\ y.asked = x.asked /\ y.verified = x.verified /\ y.mirror = x.mirror /\ y.expected = Absent
      BY <2>2 DEF Outcome
    <2>4. Record(y)
      BY <2>1, <2>2
    <2> QED  BY <1>0, <1>5, <1>7, <2>3, <2>4 DEF Chooses
  <1> QED  BY <1>2, <1>6, <1>7

-----------------------------------------------------------------------------
(***************************************************************************)
(* Where things may be                                                      *)
(***************************************************************************)

\* Outcomes and replicas are at the name that was asked for or at one it may
\* give way to; what a plan releases is a staging location of the owner.
Named(x) == x.key \in Spare[x.asked] \cup {x.asked}

OutcomesNamed ==
  \A i \in DOMAIN ops : \A n \in DOMAIN ops[i].outcomes :
    /\ n \in DOMAIN ops[i].shape.targets
    /\ Named(ops[i].outcomes[n]) /\ ops[i].outcomes[n].asked = ops[i].shape.targets[n].key

ReplicasNamed ==
  /\ \A o \in Owners : \A r \in Replicas(o) : Named(r)
  /\ \A i \in DOMAIN ops : ops[i].base # None => \A r \in ops[i].base.replicas : Named(r)

ReleasesStaging ==
  \A i \in DOMAIN ops : \A l \in ops[i].release :
    \E s \in Shapes : s.releases /\ s.owner = ops[i].shape.owner /\ l.key \in s.from

NamesInv == AlignedInv /\ OutcomesNamed /\ ReplicasNamed /\ ReleasesStaging

\* How the outcomes of a row change.
LEMMA OutcomesStep ==
  ASSUME AlignedInv, [Next]_vars, NEW i \in DOMAIN ops
  PROVE  \/ ops'[i].outcomes = ops[i].outcomes
         \/ /\ Resolve /\ work # None /\ work.at = "target" /\ i = work.id /\ More /\ ~Resolved /\ Alike(work.op, ops[i])
            /\ work.n \notin DOMAIN ops[i].outcomes /\ work.n \in DOMAIN ops[i].shape.targets
            /\ DOMAIN ops'[i].outcomes = DOMAIN ops[i].outcomes \cup {work.n}
            /\ \A m \in DOMAIN ops[i].outcomes : ops'[i].outcomes[m] = ops[i].outcomes[m]
            /\ Chooses(ops'[i].outcomes[work.n])
         \/ /\ Inspect \/ Verify
            /\ work # None /\ work.at \in {"target", "verify"} /\ i = work.id /\ Alike(work.op, ops[i])
            /\ work.n \in DOMAIN ops[i].outcomes /\ disk[Chosen.key] = work.op.content
            /\ DOMAIN ops'[i].outcomes = DOMAIN ops[i].outcomes
            /\ \A m \in DOMAIN ops[i].outcomes :
                 LET x == ops[i].outcomes[m]  y == ops'[i].outcomes[m] IN
                 /\ y.key = x.key /\ y.asked = x.asked /\ y.managed = x.managed /\ y.expected = x.expected
                 /\ y.replaces = x.replaces /\ (m # work.n => y = x) /\ (m = work.n => y.verified)
  <1>0. ShapeInv /\ RowKept(i)
    BY RowStep DEF AlignedInv
  <1>1. CASE ops'[i].outcomes = ops[i].outcomes
    BY <1>1
  <1>2. CASE /\ Resolve /\ work # None /\ i = work.id /\ work'.op = ops'[i]
             /\ \E x \in Outcome : Record(x) /\ ops'[i].outcomes = Append(ops[i].outcomes, x)
    <2>0. work.at = "target" /\ Alike(work.op, ops[i]) /\ work \in Work
      BY <1>0, <1>2, AtWork DEF Resolve, At, Locked
    <2>1. work' # None
      <3>1. PICK x \in Outcome : work' = [work EXCEPT !.op = [work.op EXCEPT !.outcomes = Append(@, x)]]
        BY <1>2 DEF Record, Save
      <3>2. work.op \in Op /\ Len(work.op.outcomes) < Len(work.op.shape.targets)
        BY <1>0, <1>2, <2>0, AtWork, AtTarget DEF Resolve, Locked
      <3>3. [work.op EXCEPT !.outcomes = Append(@, x)] \in Op
        BY <3>2, Recorded
      <3> QED  BY <2>0, <3>1, <3>3, RecordAssumption DEF Work
    <2>2. ~Block
      BY <2>1 DEF Block, Leave
    <2>3. PICK x \in Outcome : Record(x) /\ Chooses(x)
      BY <1>2, <2>2, ResolveStep
    <2>4. More /\ ~Resolved
      BY <1>2 DEF Resolve
    <2>5. /\ DOMAIN work'.op.outcomes = DOMAIN work.op.outcomes \cup {work.n}
          /\ work'.op.outcomes[work.n] = x /\ work.n \notin DOMAIN work.op.outcomes
          /\ \A m \in DOMAIN work.op.outcomes : work'.op.outcomes[m] = work.op.outcomes[m]
      <3>1. Record(x) /\ Aligned /\ work # None
        BY <1>2, <2>3 DEF AlignedInv
      <3> QED  BY <1>0, <2>0, <2>4, <3>1, RecordAligned
    <2>6. work.n \in DOMAIN work.op.shape.targets
      BY <1>0, <1>2, <2>0, <2>4, AtTarget
    <2>7. ops[i].outcomes = work.op.outcomes /\ ops[i].shape = work.op.shape /\ work'.op.outcomes = ops'[i].outcomes
      BY <1>2, <2>0 DEF Alike
    <2>8. /\ DOMAIN ops'[i].outcomes = DOMAIN ops[i].outcomes \cup {work.n}
          /\ work.n \notin DOMAIN ops[i].outcomes /\ work.n \in DOMAIN ops[i].shape.targets
          /\ \A m \in DOMAIN ops[i].outcomes : ops'[i].outcomes[m] = ops[i].outcomes[m]
          /\ ops'[i].outcomes[work.n] = x
      BY <2>5, <2>6, <2>7
    <2> QED  BY <1>2, <2>0, <2>3, <2>4, <2>8
  <1>3. CASE /\ Inspect \/ Verify
             /\ Verified /\ work # None /\ i = work.id /\ work'.op = ops'[i] /\ disk[Chosen.key] = work.op.content
    <2>0. /\ work.at \in {"target", "verify"} /\ work.n \in DOMAIN work.op.outcomes /\ work \in Work /\ work.op \in Op
          /\ Alike(work.op, ops[i]) /\ work.n \in Nat
      BY <1>0, <1>3, AtTarget, AtWrite, AtWork DEF Inspect, Verify, At, Locked
    <2> DEFINE new == [work.op EXCEPT !.outcomes[work.n].verified = TRUE]
    <2>1. PICK old \in Op, n \in DOMAIN work.op.outcomes : old = work.op /\ n = work.n
      BY <2>0
    <2>2. new = [old EXCEPT !.outcomes[n].verified = TRUE] /\ n \in DOMAIN old.outcomes
      BY <2>1
    <2>3. work' = [[work EXCEPT !.at = "target", !.n = @ + 1] EXCEPT !.op = new]
      BY <1>3 DEF Verified, Save
    <2> HIDE DEF new
    <2>4. ops'[i] = new
      BY <1>3, <2>0, <2>3 DEF Work
    <2>5. DOMAIN new.outcomes = DOMAIN old.outcomes /\ new.outcomes[n].verified
      BY <2>2, Confirmed
    <2>6. \A m \in DOMAIN old.outcomes :
              /\ m # n => new.outcomes[m] = old.outcomes[m]
              /\ new.outcomes[m].key = old.outcomes[m].key /\ new.outcomes[m].asked = old.outcomes[m].asked
              /\ new.outcomes[m].managed = old.outcomes[m].managed
              /\ new.outcomes[m].expected = old.outcomes[m].expected /\ new.outcomes[m].replaces = old.outcomes[m].replaces
      BY <2>2, Confirmed
    <2>7. old.outcomes = ops[i].outcomes
      BY <2>0, <2>1 DEF Alike
    <2> QED  BY <1>3, <2>0, <2>1, <2>4, <2>5, <2>6, <2>7
  <1> QED  BY <1>0, <1>1, <1>2, <1>3 DEF RowKept

\* Every replica in the ledger was there, or comes from the base or an outcome
\* of an operation of the owner.
Same(r, x) == r.key = x.key /\ r.asked = x.asked /\ r.content = x.content

LEMMA LedgerStep ==
  ASSUME AlignedInv, [Next]_vars, NEW o \in Owners, NEW r \in Replicas(o)'
  PROVE  \/ \E x \in Replicas(o) : Same(r, x) /\ (r.managed => x.managed \/ <<r.key, r.content>> \in placed')
         \/ \E i \in DOMAIN ops : /\ ops[i].shape.owner = o /\ ops[i].base # None
                                  /\ \E x \in ops[i].base.replicas : Same(r, x) /\ r.managed = x.managed
         \/ \E i \in DOMAIN ops : /\ ops[i].shape.owner = o
                                  /\ \E n \in DOMAIN ops[i].outcomes :
                                       /\ r.key = ops[i].outcomes[n].key /\ r.asked = ops[i].outcomes[n].asked
                                       /\ r.content = ops[i].content /\ r.managed = ops[i].outcomes[n].managed
                                       /\ ops[i].outcomes[n].verified \/ (r.managed => <<r.key, r.content>> \in placed')
  <1>0. ShapeInv /\ TypeOK
    BY DEF AlignedInv, ShapeInv
  <1>1. Replicas(o) \in SUBSET Replica
    BY <1>0, EntryType
  <1>2. CASE owners'[o] = owners[o]
    BY <1>2 DEF Replicas, Entry, Same
  <1>3. CASE Complete
    <2>0. work # None /\ work.at = "release" /\ work.at \in Locked
      BY <1>3 DEF Complete, At, Locked
    <2>1. /\ work \in Work /\ work.op \in Op /\ work.id \in DOMAIN ops /\ Alike(work.op, ops[work.id]) /\ work.op.base # None
          /\ work.op.shape.owner \in Owners /\ work.op.base.replicas \in SUBSET Replica /\ work.id \in Ids
      BY <1>0, <2>0, AtWork, OpFields
    <2>2. AllVerified(work.op)
      BY <2>0 DEF AlignedInv, Aligned, Past
    <2>3. owners' = [owners EXCEPT ![work.op.shape.owner] = [op |-> work.id, replicas |-> Result(work.op)]]
      BY <1>3 DEF Complete
    <2>4. owners \in [Owners -> Ledger \cup {None}]
      BY <1>0 DEF TypeOK
    <2>5. CASE o # work.op.shape.owner
      <3>1. owners'[o] = owners[o]
        BY <2>3, <2>4, <2>5
      <3> QED  BY <1>2, <3>1
    <2>6. CASE o = work.op.shape.owner
      <3>1. owners'[o] = [op |-> work.id, replicas |-> Result(work.op)]
        BY <2>3, <2>4, <2>6
      <3>2. [op |-> work.id, replicas |-> Result(work.op)] \in Ledger
        BY <2>1, ResultType DEF Ledger, Ids
      <3>3. r \in Result(work.op)
        BY <3>1, <3>2, RecordAssumption DEF Replicas, Entry
      <3>4. CASE \E n \in DOMAIN work.op.outcomes :
                   r = [key |-> work.op.outcomes[n].key, asked |-> work.op.outcomes[n].asked, content |-> work.op.content,
                        managed |-> work.op.outcomes[n].managed, mirror |-> work.op.outcomes[n].mirror]
        BY <2>1, <2>2, <2>6, <3>4 DEF Alike, AllVerified
      <3>5. CASE r \in Kept(work.op)
        <4>1. PICK x \in work.op.base.replicas : r = [x EXCEPT !.mirror = FALSE]
          BY <3>5 DEF Kept
        <4>2. x \in Replica
          BY <2>1
        <4>3. r.key = x.key /\ r.asked = x.asked /\ r.content = x.content /\ r.managed = x.managed
          BY <4>1, <4>2 DEF Replica
        <4> QED  BY <2>1, <2>6, <4>3 DEF Alike, Same
      <3> QED  BY <3>3, <3>4, <3>5 DEF Result
    <2> QED  BY <2>5, <2>6
  <1>4. CASE \E p \in Owners : \E x \in Replicas(p) : Adopt(p, x)
    <2>1. PICK p \in Owners, x \in UNION {Replicas(q) : q \in Owners} : x \in Replicas(p) /\ Adopt(p, x)
      BY <1>4
    <2>2. CASE o # p
      <3>1. owners'[o] = owners[o]
        BY <1>0, <2>1, <2>2 DEF Adopt, TypeOK
      <3> QED  BY <1>2, <3>1
    <2>3. CASE o = p
      <3>0. x \in Replica /\ owners[o] # None /\ owners[o] \in Ledger /\ owners \in [Owners -> Ledger \cup {None}]
        BY <1>0, <1>1, <2>1, <2>3, EntryType DEF TypeOK
      <3> DEFINE y == [x EXCEPT !.managed = TRUE]
      <3>1. Same(y, x) /\ y \in Replica
        BY <3>0 DEF Replica, Same
      <3>2. owners'[o] = [owners[o] EXCEPT !.replicas = (@ \ {x}) \cup {y}] /\ <<x.key, x.content>> \in placed'
        BY <2>1, <2>3, <3>0 DEF Adopt
      <3> HIDE DEF y
      <3>3. owners[o].replicas \in SUBSET Replica
        BY <3>0 DEF Ledger
      <3>4. owners'[o] \in Ledger /\ owners'[o].replicas = (owners[o].replicas \ {x}) \cup {y}
        BY <3>0, <3>1, <3>2, <3>3 DEF Ledger
      <3>5. r \in (owners[o].replicas \ {x}) \cup {y} /\ owners[o].replicas = Replicas(o)
        BY <3>0, <3>4, RecordAssumption DEF Replicas, Entry
      <3> QED  BY <2>1, <2>3, <3>1, <3>2, <3>5 DEF Same
    <2> QED  BY <2>2, <2>3
  <1>5. CASE \E g \in NewReceipts : \E i \in Open :
              /\ Supersede(i, g)
              /\ owners' = [owners EXCEPT ![g.shape.owner] = [Entry(g.shape.owner) EXCEPT !.replicas = Inherited(ops[i])]]
    <2>1. PICK g \in NewReceipts, i \in Open :
              /\ Supersede(i, g)
              /\ owners' = [owners EXCEPT ![g.shape.owner] = [Entry(g.shape.owner) EXCEPT !.replicas = Inherited(ops[i])]]
      BY <1>5
    <2>2. i \in DOMAIN ops /\ ops[i] \in Op /\ ops[i].shape.owner = g.shape.owner /\ ops[i].shape.owner \in Owners
      BY <1>0, <2>1, OpIds, OpFields DEF Open, Supersede
    <2>3. CASE o # g.shape.owner
      <3>1. owners'[o] = owners[o]
        BY <1>0, <2>1, <2>2, <2>3 DEF TypeOK
      <3> QED  BY <1>2, <3>1
    <2>4. CASE o = g.shape.owner
      <3>1. Inherited(ops[i]) \in SUBSET Replica /\ Entry(o) \in Ledger
        BY <1>0, <2>2, InheritedType, EntryType
      <3>2. owners'[o] = [Entry(o) EXCEPT !.replicas = Inherited(ops[i])]
        BY <1>0, <2>1, <2>2, <2>4 DEF TypeOK
      <3>3. owners'[o] \in Ledger /\ owners'[o].replicas = Inherited(ops[i])
        BY <3>1, <3>2 DEF Ledger
      <3>4. r \in Inherited(ops[i]) /\ r \in Replica
        BY <3>1, <3>3, RecordAssumption DEF Replicas, Entry
      <3>5. r.managed => <<r.key, r.content>> \in placed'
        <4>1. ops[i].state # "complete"
          BY <2>1 DEF Open, Terminal
        <4>2. placed' = placed \cup {<<x.key, x.content>> : x \in {y \in Inherited(ops[i]) : y.managed}}
          BY <2>1, <4>1 DEF Supersede
        <4> QED  BY <3>4, <4>2
      <3>6. \/ r \in Replicas(o)
            \/ ops[i].base # None /\ r \in ops[i].base.replicas
            \/ \E n \in DOMAIN ops[i].outcomes :
                 r = [key |-> ops[i].outcomes[n].key, asked |-> ops[i].outcomes[n].asked, content |-> ops[i].content,
                      managed |-> ops[i].outcomes[n].managed, mirror |-> ops[i].outcomes[n].mirror]
        BY <1>0, <2>2, <2>4, <3>4, InheritedType
      <3> QED  BY <2>2, <2>4, <3>5, <3>6 DEF Same
    <2> QED  BY <2>3, <2>4
  <1> QED  BY <1>2, <1>3, <1>4, <1>5, OwnersStep

LEMMA InitNames == Init => OutcomesNamed /\ ReplicasNamed /\ ReleasesStaging
  <1> SUFFICES ASSUME Init PROVE OutcomesNamed /\ ReplicasNamed /\ ReleasesStaging
    OBVIOUS
  <1>1. DOMAIN ops = {} /\ \A o \in Owners : Replicas(o) = {}
    BY EmptySeq DEF Init, Replicas, Entry
  <1> QED  BY <1>1 DEF OutcomesNamed, ReplicasNamed, ReleasesStaging

LEMMA NamesStep ==
  ASSUME NamesInv, [Next]_vars
  PROVE  OutcomesNamed' /\ ReplicasNamed' /\ ReleasesStaging'
  <1>0. AlignedInv /\ ShapeInv /\ TypeOK
    BY DEF NamesInv, AlignedInv, ShapeInv
  <1>1. ASSUME NEW i \in DOMAIN ops' \ DOMAIN ops
        PROVE  /\ ops'[i].base = None /\ ops'[i].outcomes = <<>>
               /\ \A l \in ops'[i].release : \E s \in Shapes : s.releases /\ s.owner = ops'[i].shape.owner /\ l.key \in s.from
    <2>1. PICK r \in NewReceipts :
           /\ r \in Op /\ i = Len(ops) + 1 /\ Len(ops) < MaxOps
           /\ \/ Submit(r) /\ ops'[i] = r
              \/ \E j \in DOMAIN ops :
                   /\ Supersede(j, r) /\ ops'[i].release = r.release \cup ops[j].release
                   /\ ops'[i].shape = r.shape /\ ops'[i].base = r.base /\ ops'[i].outcomes = r.outcomes
      BY <1>0, NewRow
    <2>2. r.base = None /\ r.outcomes = <<>>
      BY <1>0, Receipts
    <2>3. \A l \in r.release : r.shape \in Shapes /\ r.shape.releases /\ l.key \in r.shape.from
      <3>1. PICK s \in Shapes, f \in UNION {Offers(t) : t \in Shapes} : f \in Offers(s) /\ r = Receipt(s, f.content, f.source, f.pin)
        BY DEF NewReceipts
      <3>2. f.source # None => f.source \in s.from
        BY <3>1 DEF Offers
      <3> QED  BY <3>1, <3>2 DEF Receipt
    <2>4. CASE Submit(r) /\ ops'[i] = r
      BY <2>2, <2>3, <2>4
    <2>5. CASE \E j \in DOMAIN ops :
                   /\ Supersede(j, r) /\ ops'[i].release = r.release \cup ops[j].release
                   /\ ops'[i].shape = r.shape /\ ops'[i].base = r.base /\ ops'[i].outcomes = r.outcomes
      <3>1. PICK j \in DOMAIN ops :
                   /\ Supersede(j, r) /\ ops'[i].release = r.release \cup ops[j].release
                   /\ ops'[i].shape = r.shape /\ ops'[i].base = r.base /\ ops'[i].outcomes = r.outcomes
        BY <2>5
      <3>2. ops[j].shape.owner = r.shape.owner
        BY <3>1 DEF Supersede
      <3>3. \A l \in ops[j].release : \E s \in Shapes : s.releases /\ s.owner = ops[j].shape.owner /\ l.key \in s.from
        BY DEF NamesInv, ReleasesStaging
      <3> QED  BY <2>2, <2>3, <3>1, <3>2, <3>3
    <2> QED  BY <2>1, <2>4, <2>5
  <1>2. ASSUME NEW i \in DOMAIN ops  PROVE i \in DOMAIN ops' /\ SamePlan(ops[i], ops'[i])
    BY <1>0, RowStep DEF RowKept
  <1>3. ReleasesStaging'
    <2>1. ASSUME NEW i \in DOMAIN ops', NEW l \in ops'[i].release
          PROVE  \E s \in Shapes : s.releases /\ s.owner = ops'[i].shape.owner /\ l.key \in s.from
      <3>1. CASE i \in DOMAIN ops
        BY <1>2, <3>1 DEF SamePlan, NamesInv, ReleasesStaging
      <3> QED  BY <1>1, <3>1
    <2> QED  BY <2>1 DEF ReleasesStaging
  <1>4. OutcomesNamed'
    <2>1. ASSUME NEW i \in DOMAIN ops, NEW n \in DOMAIN ops'[i].outcomes
          PROVE  /\ n \in DOMAIN ops'[i].shape.targets
                 /\ Named(ops'[i].outcomes[n]) /\ ops'[i].outcomes[n].asked = ops'[i].shape.targets[n].key
      <3>1. ops'[i].shape = ops[i].shape
        BY <1>2 DEF SamePlan
      <3>2. \A m \in DOMAIN ops[i].outcomes :
              /\ m \in DOMAIN ops[i].shape.targets
              /\ Named(ops[i].outcomes[m]) /\ ops[i].outcomes[m].asked = ops[i].shape.targets[m].key
        BY DEF NamesInv, OutcomesNamed
      <3>3. CASE ops'[i].outcomes = ops[i].outcomes
        BY <3>1, <3>2, <3>3
      <3>4. CASE /\ DOMAIN ops'[i].outcomes = DOMAIN ops[i].outcomes
                 /\ \A m \in DOMAIN ops[i].outcomes : /\ ops'[i].outcomes[m].key = ops[i].outcomes[m].key
                                                      /\ ops'[i].outcomes[m].asked = ops[i].outcomes[m].asked
        BY <3>1, <3>2, <3>4 DEF Named
      <3>5. CASE /\ work # None /\ work.at = "target" /\ i = work.id /\ Alike(work.op, ops[i]) /\ work.n \in DOMAIN ops[i].shape.targets
                 /\ DOMAIN ops'[i].outcomes = DOMAIN ops[i].outcomes \cup {work.n}
                 /\ \A m \in DOMAIN ops[i].outcomes : ops'[i].outcomes[m] = ops[i].outcomes[m]
                 /\ Chooses(ops'[i].outcomes[work.n])
        <4>1. CASE n \in DOMAIN ops[i].outcomes
          BY <3>1, <3>2, <3>5, <4>1
        <4>2. CASE n = work.n
          <5>1. ops'[i].outcomes[n].asked = Wanted.key /\ Wanted = ops[i].shape.targets[n]
            BY <3>5, <4>2 DEF Chooses, Wanted, Alike
          <5>2. Prior # {} => Named(Previous) /\ Previous.asked = Wanted.key
            <6>1. work.op.base # None /\ work.op.base = ops[i].base /\ work.op.base.replicas \in SUBSET Replica
              BY <1>0, <3>5, AtWork DEF Locked, Alike
            <6>2. \A r \in work.op.base.replicas : Named(r)
              BY <3>5, <6>1 DEF NamesInv, ReplicasNamed
            <6> QED  BY <6>1, <6>2, PreviousIn
          <5>3. Named(ops'[i].outcomes[n])
            BY <3>5, <4>2, <5>1, <5>2 DEF Chooses, Named
          <5> QED  BY <3>1, <3>5, <4>2, <5>1, <5>3
        <4> QED  BY <3>5, <4>1, <4>2
      <3> QED  BY <1>0, <3>3, <3>4, <3>5, OutcomesStep
    <2> QED  BY <1>1, <2>1 DEF OutcomesNamed
  <1>5. ReplicasNamed'
    <2>1. ASSUME NEW o \in Owners, NEW r \in Replicas(o)'  PROVE Named(r)
      <3>1. ASSUME NEW x, Same(r, x), Named(x)  PROVE Named(r)
        BY <3>1 DEF Same, Named
      <3>2. \A i \in DOMAIN ops : ops[i].base # None => \A x \in ops[i].base.replicas : Named(x)
        BY DEF NamesInv, ReplicasNamed
      <3>3. ASSUME NEW i \in DOMAIN ops, NEW n \in DOMAIN ops[i].outcomes,
                   r.key = ops[i].outcomes[n].key, r.asked = ops[i].outcomes[n].asked
            PROVE Named(r)
        BY <3>3 DEF NamesInv, OutcomesNamed, Named
      <3>4. \A x \in Replicas(o) : Named(x)
        BY DEF NamesInv, ReplicasNamed
      <3>5. \/ \E x \in Replicas(o) : Same(r, x)
            \/ \E i \in DOMAIN ops : ops[i].base # None /\ \E x \in ops[i].base.replicas : Same(r, x)
            \/ \E i \in DOMAIN ops : \E n \in DOMAIN ops[i].outcomes :
                 r.key = ops[i].outcomes[n].key /\ r.asked = ops[i].outcomes[n].asked
        BY <1>0, LedgerStep
      <3>6. CASE \E x \in Replicas(o) : Same(r, x)
        BY <3>1, <3>4, <3>6
      <3>7. CASE \E i \in DOMAIN ops : ops[i].base # None /\ \E x \in ops[i].base.replicas : Same(r, x)
        BY <3>1, <3>2, <3>7
      <3>8. CASE \E i \in DOMAIN ops : \E n \in DOMAIN ops[i].outcomes :
                   r.key = ops[i].outcomes[n].key /\ r.asked = ops[i].outcomes[n].asked
        BY <3>3, <3>8
      <3> QED  BY <3>5, <3>6, <3>7, <3>8
    <2>2. ASSUME NEW i \in DOMAIN ops', ops'[i].base # None, NEW r \in ops'[i].base.replicas  PROVE Named(r)
      <3>1. i \in DOMAIN ops
        BY <1>1, <2>2
      <3>2. ops[i] \in Op /\ ops[i].shape.owner \in Owners
        BY <1>0, <3>1, OpIds, OpFields
      <3>3. ops'[i].base = ops[i].base \/ ops'[i].base = Entry(ops[i].shape.owner)
        BY <1>0, <3>1, RowStep DEF RowKept
      <3> QED  BY <2>2, <3>1, <3>2, <3>3 DEF NamesInv, ReplicasNamed, Replicas
    <2> QED  BY <2>1, <2>2 DEF ReplicasNamed
  <1> QED  BY <1>3, <1>4, <1>5

\* Every copy is at the name that was asked for, or at one it may give way to;
\* what is released is a staging location.
THEOREM NamesCorrect == Spec => []NamesInv
  <1>1. Init => NamesInv
    BY InitShape, InitAligned, InitWatched, InitNames DEF AlignedInv, NamesInv
  <1>2. NamesInv /\ [Next]_vars => NamesInv'
    BY NextShape, AlignedStep, WatchedStep, NamesStep DEF AlignedInv, NamesInv
  <1> QED  BY <1>1, <1>2, PTL DEF Spec

-----------------------------------------------------------------------------
(***************************************************************************)
(* The old generation goes last                                             *)
(***************************************************************************)

\* An outcome is where it should be, or another writer changed the endpoint.
There(op, n) == disk[op.outcomes[n].key] = op.content \/ touched[op.outcomes[n].key]

Landed ==
  work # None =>
    /\ work.at \in Targeting => \A m \in 1..(work.n - 1) : There(work.op, m)
    /\ work.at \in Past => PlacedEverywhere(work.op)

\* No copy of a plan is at what its owner releases.
LEMMA StagingElsewhere ==
  ASSUME NamesInv, StagingApart, NEW i \in DOMAIN ops, NEW n \in DOMAIN ops[i].outcomes
  PROVE  ops[i].outcomes[n].key \notin ReleaseKeys(ops[i])
  <1>1. SUFFICES ASSUME NEW l \in ops[i].release, l.key = ops[i].outcomes[n].key  PROVE FALSE
    BY DEF ReleaseKeys
  <1>2. PICK s \in Shapes : s.releases /\ s.owner = ops[i].shape.owner /\ l.key \in s.from
    BY DEF NamesInv, ReleasesStaging
  <1>3. ops[i] \in Op /\ ops[i].shape \in Shapes
    BY OpIds, OpFields DEF NamesInv, AlignedInv, ShapeInv
  <1>4. n \in DOMAIN ops[i].shape.targets /\ l.key \in Names(ops[i].shape.targets[n])
    BY <1>1 DEF NamesInv, OutcomesNamed, Named, Names
  <1> QED  BY <1>2, <1>3, <1>4 DEF StagingApart

\* While an operation runs, no step takes away what it placed.
LEMMA StaysThere ==
  ASSUME NamesInv, StagingApart, [Next]_vars, work # None, work.at \in Locked,
         NEW n \in DOMAIN work.op.outcomes, There(work.op, n)
  PROVE  disk'[work.op.outcomes[n].key] = work.op.content \/ touched'[work.op.outcomes[n].key]
  <1>0. ShapeInv /\ disk \in [Keys -> Bytes] /\ touched \in [Keys -> BOOLEAN]
    BY DEF NamesInv, AlignedInv, ShapeInv, TypeOK
  <1>1. work.op \in Op /\ work.id \in DOMAIN ops /\ Alike(work.op, ops[work.id]) /\ lock = "executor"
    BY <1>0, AtWork
  <1>2. PICK k \in Keys : k = work.op.outcomes[n].key /\ k \in Outcomes(work.op)
    BY <1>1, OpFields DEF Outcome, Outcomes
  <1>3. disk[k] = work.op.content \/ touched[k]
    BY <1>2 DEF There
  <1>4. CASE UNCHANGED <<disk, touched>>
    BY <1>2, <1>3, <1>4
  <1>5. CASE \E f \in ForeignKeys, b \in Bytes : Foreign(f, b)
    <2>1. PICK f \in ForeignKeys, b \in Bytes : Foreign(f, b)
      BY <1>5
    <2>2. disk' = [disk EXCEPT ![f] = b] /\ touched' = [touched EXCEPT ![f] = TRUE]
      BY <2>1 DEF Foreign
    <2> QED  BY <1>0, <1>2, <1>3, <2>2
  <1>6. ~EditTake /\ ~EditPlace /\ ~(EditRefused /\ lock = "taken")
    BY <1>1 DEF EditTake, EditPlace
  <1>7. CASE Puts
    <2>1. /\ disk' = [disk EXCEPT ![Chosen.key] = staged[work.id]] /\ staged[work.id] = work.op.content
          /\ touched' = [touched EXCEPT ![Chosen.key] = @ /\ OtherClaims(work.id, Chosen.key)]
      BY <1>0, <1>7, AtWrite DEF Puts, Publishes
    <2> QED  BY <1>0, <1>2, <1>3, <2>1
  <1>8. CASE Capture /\ Takes(Chosen.key) /\ UNCHANGED touched
    <2>1. /\ disk' = [disk EXCEPT ![Chosen.key] = Absent]
          /\ disk[Chosen.key] # work.op.content \/ touched[Chosen.key]
      BY <1>8 DEF Takes, Capture, At, NamesInv, AlignedInv, Watched
    <2> QED  BY <1>0, <1>2, <1>3, <1>8, <2>1
  <1>9. CASE (Unlink \/ Delete) /\ disk' = [disk EXCEPT ![work.key] = Absent] /\ UNCHANGED touched
    <2>1. work.key \notin Outcomes(work.op)
      BY <1>0, <1>9 DEF ShapeInv, WorkShaped, Unlink, Delete, At
    <2> QED  BY <1>0, <1>2, <1>3, <1>9, <2>1
  <1>10. CASE Restore /\ PutsBack(work.key) /\ UNCHANGED touched
    <2>1. touched[work.key]
      BY <1>10 DEF Restore, At, NamesInv, AlignedInv, Watched
    <2>2. \E c : disk' = [disk EXCEPT ![work.key] = c]
      BY <1>10 DEF PutsBack
    <2> QED  BY <1>0, <1>2, <1>3, <1>10, <2>1, <2>2
  <1>11. CASE Drop /\ disk' = [disk EXCEPT ![work.key] = Absent] /\ UNCHANGED touched
    <2>1. work.key \in ReleaseKeys(work.op)
      BY <1>0, <1>11 DEF ShapeInv, WorkShaped, Drop, At
    <2>2. k \notin ReleaseKeys(work.op)
      BY <1>1, <1>2, StagingElsewhere DEF Alike, ReleaseKeys
    <2> QED  BY <1>0, <1>2, <1>3, <1>11, <2>1, <2>2
  <1> QED  BY <1>0, <1>4, <1>5, <1>6, <1>7, <1>8, <1>9, <1>10, <1>11, DiskStep DEF Takes

\* The executor keeps its row and its place, or moves to a later one.
LEMMA LandedMove ==
  ASSUME NamesInv, StagingApart, Landed, [Next]_vars, work # None, work' # None, work'.op = work.op,
         \/ work' = work
         \/ work'.n = work.n /\ work.at \in Targeting /\ work'.at \in Targeting
         \/ work.at \in Past /\ work'.at \in Past
  PROVE  Landed'
  <1>1. CASE work'.at \in Targeting
    <2>1. work'.n = work.n /\ work.at \in Targeting /\ work.at \in Locked
      BY <1>1 DEF Past, Locked
    <2>2. ASSUME NEW m \in 1..(work.n - 1)  PROVE There(work.op, m)'
      <3>1. There(work.op, m) /\ m \in DOMAIN work.op.outcomes
        BY <2>1 DEF Landed, NamesInv, AlignedInv, Aligned
      <3> QED  BY <2>1, <3>1, StaysThere DEF There
    <2> QED  BY <1>1, <2>1, <2>2 DEF Landed, There, Past
  <1>2. CASE work'.at \in Past
    <2>1. work.at \in Past /\ work.at \in Locked
      BY <1>2 DEF Past, Locked
    <2>2. AllVerified(work.op) /\ \A n \in DOMAIN work.op.outcomes : There(work.op, n)
      BY <2>1 DEF Landed, PlacedEverywhere, There
    <2>3. \A n \in DOMAIN work.op.outcomes : There(work.op, n)'
      BY <2>1, <2>2, StaysThere DEF There
    <2> QED  BY <1>2, <2>2, <2>3 DEF Landed, PlacedEverywhere, There, AllVerified, Past
  <1> QED  BY <1>1, <1>2 DEF Landed

LEMMA LandedStep ==
  ASSUME NamesInv, StagingApart, Landed, [Next]_vars
  PROVE  Landed'
  <1>0. ShapeInv /\ Aligned /\ AlignedInv
    BY DEF NamesInv, AlignedInv
  <1>1. CASE work' = None
    BY <1>1 DEF Landed
  <1>2. CASE work' = work
    BY <1>1, <1>2, LandedMove
  <1>3. ASSUME work'.n = 1, work'.at \in {"queued", "stage", "staged", "target"}  PROVE Landed'
    BY <1>3 DEF Landed, Past
  <1>4. ASSUME work'.at \in Cleaning  PROVE Landed'
    BY <1>4 DEF Landed, Past, Cleaning
  <1>5. CASE Visit /\ work' # work
    <2>1. work' = Begun(Row, "clean") \/ work' = [Begun(Row, "queued") EXCEPT !.op.state = "running"]
      BY <1>5 DEF Visit
    <2>2. CASE work' = Begun(Row, "clean")
      <3>1. work'.at = "clean"
        BY <2>2 DEF Begun
      <3> QED  BY <1>4, <3>1 DEF Cleaning
    <2>3. CASE work' = [Begun(Row, "queued") EXCEPT !.op.state = "running"]
      <3>1. work'.at = "queued" /\ work'.n = 1
        BY <2>3 DEF Begun
      <3> QED  BY <1>3, <3>1
    <2> QED  BY <2>1, <2>2, <2>3
  <1>6. CASE Begin \/ Stage \/ StageVerify
    <2>0. work # None /\ work.at \in {"queued", "stage", "staged"} /\ work.n = 1
      BY <1>0, <1>6 DEF Begin, Stage, StageVerify, At, Aligned
    <2>1. work \in Work
      BY <1>0, <2>0, AtWork DEF Locked
    <2>2. \/ work' = None
          \/ \E at \in {"stage", "staged", "target"} : \/ work' = [work EXCEPT !.at = at]
                                                       \/ \E op : work' = [[work EXCEPT !.at = at] EXCEPT !.op = op]
      BY <1>6 DEF Begin, Stage, StageVerify, Save, Block, Leave
    <2>3. work' = None \/ (work'.n = 1 /\ work'.at \in {"queued", "stage", "staged", "target"})
      BY <2>0, <2>1, <2>2 DEF Work
    <2> QED  BY <1>1, <1>3, <2>3
  <1>7. CASE Resolve
    <2>0. work # None /\ work.at = "target" /\ More /\ ~Resolved /\ disk' = disk /\ touched' = touched
      BY <1>7 DEF Resolve, At, Rest
    <2>1. CASE Block
      BY <1>1, <2>1 DEF Block, Leave
    <2>2. CASE \E x \in Outcome : Record(x)
      <3>1. PICK x \in Outcome : Record(x)
        BY <2>2
      <3>2. /\ work'.at = "target" /\ work'.n = work.n /\ work'.op.content = work.op.content
            /\ \A m \in DOMAIN work.op.outcomes : work'.op.outcomes[m] = work.op.outcomes[m]
        BY <1>0, <2>0, <3>1, RecordAligned
      <3>3. \A m \in 1..(work.n - 1) : m \in DOMAIN work.op.outcomes /\ There(work.op, m)
        BY <1>0, <2>0 DEF Landed, Aligned
      <3> QED  BY <2>0, <3>2, <3>3 DEF Landed, There, Past
    <2> QED  BY <1>0, <1>7, <2>1, <2>2, ResolveStep
  <1>8. CASE Inspect \/ Verify
    <2>0. /\ work # None /\ work.at \in {"target", "verify"} /\ work.n \in DOMAIN work.op.outcomes
          /\ disk' = disk /\ touched' = touched
      BY <1>0, <1>8, AtTarget, AtWrite DEF Inspect, Verify, At, Rest
    <2>1. CASE Verified /\ disk[Chosen.key] = work.op.content
      <3>1. /\ work'.at = "target" /\ work'.n = work.n + 1 /\ work'.op.content = work.op.content
            /\ \A m \in DOMAIN work.op.outcomes : work'.op.outcomes[m].key = work.op.outcomes[m].key
        BY <1>0, <2>0, <2>1, VerifiedAligned
      <3>2. \A m \in 1..(work.n - 1) : m \in DOMAIN work.op.outcomes /\ There(work.op, m)
        BY <1>0, <2>0 DEF Landed, Aligned
      <3>3. There(work.op, work.n)
        BY <2>1 DEF There, Chosen
      <3>4. work.n \in Nat
        BY <1>0, <2>0, AtWork DEF Locked
      <3>5. \A m \in 1..(work'.n - 1) : m \in 1..(work.n - 1) \/ m = work.n
        BY <3>1, <3>4
      <3>6. \A m \in 1..(work'.n - 1) : There(work.op, m)'
        BY <2>0, <3>1, <3>2, <3>3, <3>5 DEF There
      <3> QED  BY <3>1, <3>6 DEF Landed, Past
    <2>2. CASE work' = [work EXCEPT !.at = "write", !.found = disk[Chosen.key]]
      <3>1. work'.op = work.op /\ work'.n = work.n /\ work'.at = "write"
        BY <1>0, <2>0, <2>2, AtWork DEF Locked, Work
      <3> QED  BY <1>1, <2>0, <3>1, LandedMove
    <2> QED  BY <1>1, <1>8, <2>1, <2>2 DEF Inspect, Verify, Block, Leave
  <1>9. CASE Swap
    <2>0. work # None
      BY <1>9, SwapFrame
    <2>1. \/ Block
          \/ /\ work'.op = work.op /\ work'.n = work.n
             /\ \/ work.at \in Placing /\ work'.at \in Placing \cup {"verify"}
                \/ work.at \in Removing /\ work'.at \in Removing \cup {"retire"}
                \/ work'.at = "restore"
      BY <1>0, <1>9, SwapStep
    <2>2. CASE work'.at = "restore"
      BY <2>2 DEF Landed, Past
    <2> QED  BY <1>1, <2>0, <2>1, <2>2, LandedMove DEF Block, Leave, Past
  <1>10. CASE Placed /\ work' # None
    <2>0. work # None /\ work.at = "target" /\ ~More /\ work.at \in Locked /\ disk' = disk /\ touched' = touched
      BY <1>10 DEF Placed, At, Locked, Rest
    <2>1. work \in Work /\ work.op \in Op /\ work.n \in Nat /\ Len(work.op.outcomes) <= Len(work.op.shape.targets)
      BY <1>0, <2>0, AtWork
    <2>2. work'.op = work.op /\ work'.at = "retire"
      BY <1>10, <2>1 DEF Placed, Save, Work
    <2>3. AllVerified(work.op)
      <3>1. Aligned'
        BY <1>0, AlignedStep
      <3> QED  BY <1>10, <2>2, <3>1 DEF Aligned, Past, AllVerified
    <2>4. \A m \in DOMAIN work.op.outcomes : m \in 1..(work.n - 1)
      <3>1. /\ Len(work.op.shape.targets) \in Nat /\ Len(work.op.outcomes) \in Nat /\ DOMAIN work.op.outcomes = 1..Len(work.op.outcomes)
            /\ work.n > Len(work.op.shape.targets)
        BY <2>0, <2>1, OpFields DEF More
      <3> QED  BY <2>1, <3>1
    <2>5. \A m \in DOMAIN work.op.outcomes : There(work.op, m)
      BY <2>0, <2>4 DEF Landed
    <2> QED  BY <2>0, <2>2, <2>3, <2>5 DEF Landed, There, PlacedEverywhere, AllVerified, Past
  <1>11. CASE Retire \/ Ask \/ Retired \/ Check \/ Release \/ Drop
    <2>0. work # None /\ work.at \in Past /\ work.at \in Locked
      BY <1>11 DEF Retire, Ask, Retired, Check, Release, Drop, At, Past, Locked
    <2>1. work \in Work
      BY <1>0, <2>0, AtWork
    <2>2. work' = None \/ (work'.op = work.op /\ work'.at \in Past)
      BY <1>11, <2>0, <2>1 DEF Retire, Ask, Retired, Check, Release, Drop, Block, Leave, Past, Work
    <2> QED  BY <1>1, <2>0, <2>2, LandedMove
  <1>12. CASE Complete \/ Clean \/ DropIngress \/ DropPin
    <2>0. work # None /\ work \in Work
      BY <1>0, <1>12, WorkFields DEF Complete, Clean, DropIngress, DropPin, At, ShapeInv, TypeOK
    <2>1. work' = None \/ work'.at \in Cleaning
      BY <1>12, <2>0 DEF Complete, Save, Clean, Done, DropIngress, DropPin, Cleaning, Work
    <2> QED  BY <1>1, <1>4, <2>1
  <1> QED  BY <1>1, <1>2, <1>5, <1>6, <1>7, <1>8, <1>9, <1>10, <1>11, <1>12, WorkStep DEF Executor

LandedInv == NamesInv /\ Landed

\* What is placed stays until its operation is over, unless others change it.
THEOREM LandedCorrect == StagingApart => (Spec => []LandedInv)
  <1> SUFFICES ASSUME StagingApart PROVE Spec => []LandedInv
    OBVIOUS
  <1>1. Init => LandedInv
    <2>1. Init => Landed
      BY DEF Init, Landed
    <2> QED  BY <2>1, InitShape, InitAligned, InitWatched, InitNames DEF AlignedInv, NamesInv, LandedInv
  <1>2. LandedInv /\ [Next]_vars => LandedInv'
    BY NextShape, AlignedStep, WatchedStep, NamesStep, LandedStep DEF AlignedInv, NamesInv, LandedInv
  <1> QED  BY <1>1, <1>2, PTL DEF Spec

\* The service removes an endpoint only when every destination of the operation
\* is verified and holds its content (ReplicaService.js, retire and release), or
\* moves the file of a destination aside with the new version pinned (index.js:556).
LEMMA RemovesLastStep ==
  ASSUME LandedInv, [Next]_vars, NEW k \in Keys, disk[k] # Absent, disk'[k] = Absent, spent' = spent, ~Editing
  PROVE  PlacedEverywhere(work.op) \/ Replacing(k)
  <1>0. ShapeInv /\ disk \in [Keys -> Bytes] /\ spent \in [foreign: 0..MaxForeign, faults: 0..MaxFaults, late: SUBSET Ids,
                 acked: SUBSET [pin: Pins, owner: Owners, content: Contents]]
    BY DEF LandedInv, NamesInv, AlignedInv, ShapeInv, TypeOK
  <1>1. ASSUME NEW f \in ForeignKeys, NEW b \in Bytes, Foreign(f, b)  PROVE FALSE
    <2>1. spent.foreign \in Nat /\ spent' = [spent EXCEPT !.foreign = @ + 1]
      <3>1. spent.foreign \in 0..MaxForeign /\ MaxForeign \in Nat
        BY <1>0, BoundsAssumption
      <3>2. spent.foreign \in Nat
        BY <3>1
      <3>3. spent' = [spent EXCEPT !.foreign = @ + 1]
        BY <1>1 DEF Foreign
      <3> QED  BY <3>2, <3>3
    <2>2. spent'.foreign = spent.foreign + 1
      BY <1>0, <2>1
    <2> QED  BY <2>1, <2>2
  <1>2. ~EditTake /\ ~EditPlace /\ ~(EditRefused /\ lock = "taken")
    BY DEF EditTake, EditPlace, Editing
  <1>3. CASE Puts
    <2>1. disk' = [disk EXCEPT ![Chosen.key] = staged[work.id]] /\ staged[work.id] # Absent
      BY <1>0, <1>3, AtWrite, NoneAssumption DEF Puts, Publishes
    <2> QED  BY <1>0, <2>1
  <1>4. CASE Unlink \/ Delete \/ Drop
    BY <1>4 DEF Unlink, Delete, Drop, At, LandedInv, Landed, Past
  <1>5. CASE Capture /\ Takes(Chosen.key)
    <2>1. /\ work # None /\ work.at = "capture" /\ work.n \in DOMAIN work.op.outcomes /\ Chosen.key \in Keys
          /\ staged[work.id] = work.op.content
      BY <1>0, <1>5, AtWrite DEF Capture, At
    <2>2. k = Chosen.key
      BY <1>0, <1>5, <2>1 DEF Takes
    <2>3. k \in Outcomes(work.op)
      BY <2>1, <2>2 DEF Outcomes, Chosen
    <2>4. [key |-> k, content |-> disk[k], op |-> work.id, pin |-> 0] \in trash'
      BY <1>5, <2>2 DEF Takes
    <2> QED  BY <2>1, <2>3, <2>4 DEF Replacing
  <1>6. CASE Restore /\ PutsBack(work.key)
    <2>1. PICK t \in trash : disk' = [disk EXCEPT ![work.key] = t.content]
      BY <1>6 DEF PutsBack
    <2>2. t.content # Absent
      BY <1>0, NoneAssumption DEF ShapeInv, TypeOK, Item
    <2> QED  BY <1>0, <2>1, <2>2
  <1> QED  BY <1>0, <1>1, <1>2, <1>3, <1>4, <1>5, <1>6, DiskStep

\* The old generation and the staging locations go last, and a destination is
\* cleared only with its file moved to the trash and the new version pinned.
THEOREM RemovesLastCorrect == StagingApart => (Spec => RemovesLast)
  <1> SUFFICES ASSUME StagingApart PROVE Spec => RemovesLast
    OBVIOUS
  <1>1. LandedInv /\ [Next]_vars =>
          [\A k \in Keys : disk[k] # Absent /\ disk'[k] = Absent /\ spent' = spent /\ ~Editing
             => PlacedEverywhere(work.op) \/ Replacing(k)]_vars
    BY RemovesLastStep
  <1> QED  BY <1>1, LandedCorrect, PTL DEF Spec, RemovesLast

-----------------------------------------------------------------------------
(***************************************************************************)
(* What the service put where                                               *)
(***************************************************************************)
Put(r) == r.managed => <<r.key, r.content>> \in placed

ReplicasPut ==
  /\ \A o \in Owners : \A r \in Replicas(o) : Put(r)
  /\ \A i \in DOMAIN ops : ops[i].base # None => \A r \in ops[i].base.replicas : Put(r)

\* A verified outcome was put there; another one replaces a version the owner
\* had at that name, or one it asked for there.
OutcomesPut ==
  \A i \in DOMAIN ops : \A n \in DOMAIN ops[i].outcomes :
    LET x == ops[i].outcomes[n] IN
    /\ x.managed /\ x.verified => <<x.key, ops[i].content>> \in placed
    /\ ops[i].shape.targets[n].onConflict = "overwrite" => x.key = ops[i].shape.targets[n].key
    /\ x.replaces # Absent =>
         \/ x.expected = Absent
         \/ \E r \in ops[i].base.replicas :
              /\ r.asked = x.asked /\ r.managed /\ r.mirror /\ r.content = x.replaces
              /\ x.key \in {r.key, r.asked}

\* What the executor has checked when it is about to write, and written when it
\* is about to verify; what is at the endpoint it is about to release.
WriteAllowed ==
  /\ work # None /\ work.at \in {"write", "retain", "capture"} /\ work.found # Absent =>
       work.found = Chosen.expected /\ (work.found = Chosen.replaces \/ Wanted.onConflict = "overwrite")
  /\ work # None /\ work.at = "verify" => <<Chosen.key, work.op.content>> \in placed

DropAllowed == work # None /\ work.at = "drop" => Released(work.key)

PutInv == NamesInv /\ ReplicasPut /\ OutcomesPut /\ WriteAllowed /\ DropAllowed

LEMMA InitPut == Init => ReplicasPut /\ OutcomesPut /\ WriteAllowed /\ DropAllowed
  <1> SUFFICES ASSUME Init PROVE ReplicasPut /\ OutcomesPut /\ WriteAllowed /\ DropAllowed
    OBVIOUS
  <1>1. DOMAIN ops = {} /\ work = None /\ \A o \in Owners : Replicas(o) = {}
    BY EmptySeq DEF Init, Replicas, Entry
  <1> QED  BY <1>1 DEF ReplicasPut, OutcomesPut, WriteAllowed, DropAllowed

LEMMA OutcomesPutStep ==
  ASSUME PutInv, [Next]_vars
  PROVE  OutcomesPut'
  <1>0. ShapeInv /\ AlignedInv /\ placed \subseteq placed'
    BY PlacedGrows DEF PutInv, NamesInv, AlignedInv
  <1>1. ASSUME NEW i \in DOMAIN ops' \ DOMAIN ops  PROVE ops'[i].outcomes = <<>>
    BY <1>0, NewRowFields
  <1>2. ASSUME NEW i \in DOMAIN ops, NEW n \in DOMAIN ops'[i].outcomes
        PROVE  LET x == ops'[i].outcomes[n] IN
               /\ x.managed /\ x.verified => <<x.key, ops'[i].content>> \in placed'
               /\ ops'[i].shape.targets[n].onConflict = "overwrite" => x.key = ops'[i].shape.targets[n].key
               /\ x.replaces # Absent =>
                    \/ x.expected = Absent
                    \/ \E r \in ops'[i].base.replicas :
                         /\ r.asked = x.asked /\ r.managed /\ r.mirror /\ r.content = x.replaces
                         /\ x.key \in {r.key, r.asked}
    <2>1. /\ ops'[i].shape = ops[i].shape /\ ops'[i].content = ops[i].content
          /\ ops[i].outcomes # <<>> => ops'[i].base = ops[i].base
      <3>1. RowKept(i)
        BY <1>0, RowStep
      <3>2. ops[i].base = None => ops[i].outcomes = <<>>
        BY <1>0 DEF ShapeInv, JournalShaped
      <3> QED  BY <3>1, <3>2 DEF RowKept, SamePlan
    <2>2. ASSUME NEW m \in DOMAIN ops[i].outcomes
          PROVE  LET x == ops[i].outcomes[m] IN
                 /\ x.managed /\ x.verified => <<x.key, ops[i].content>> \in placed
                 /\ ops[i].shape.targets[m].onConflict = "overwrite" => x.key = ops[i].shape.targets[m].key
                 /\ x.replaces # Absent =>
                      \/ x.expected = Absent
                      \/ \E r \in ops'[i].base.replicas :
                           /\ r.asked = x.asked /\ r.managed /\ r.mirror /\ r.content = x.replaces
                           /\ x.key \in {r.key, r.asked}
      <3>1. ops[i].outcomes # <<>>
        BY EmptySeq
      <3> QED  BY <2>1, <3>1 DEF PutInv, OutcomesPut
    <2>3. CASE ops'[i].outcomes = ops[i].outcomes
      BY <1>0, <2>1, <2>2, <2>3
    <2>4. CASE /\ Resolve /\ work # None /\ work.at = "target" /\ i = work.id /\ More /\ ~Resolved /\ Alike(work.op, ops[i])
               /\ work.n \in DOMAIN ops[i].shape.targets
               /\ DOMAIN ops'[i].outcomes = DOMAIN ops[i].outcomes \cup {work.n}
               /\ \A m \in DOMAIN ops[i].outcomes : ops'[i].outcomes[m] = ops[i].outcomes[m]
               /\ Chooses(ops'[i].outcomes[work.n])
      <3>1. CASE n \in DOMAIN ops[i].outcomes
        BY <1>0, <2>1, <2>2, <2>4, <3>1
      <3>2. CASE n = work.n
        <4>1. Wanted = ops[i].shape.targets[n]
          BY <2>4, <3>2 DEF Wanted, Alike
        <4>2. work.op.base # None /\ work.op.base = ops[i].base /\ work.op.base.replicas \in SUBSET Replica
          BY <1>0, <2>4, AtWork DEF Locked, Alike
        <4>3. ops'[i].base = ops[i].base
          BY <1>0, <4>2, RowStep DEF RowKept
        <4>4. Owned => Previous \in ops'[i].base.replicas /\ Previous.asked = Wanted.key /\ Previous.managed
          BY <4>2, <4>3, PreviousIn DEF Owned
        <4> DEFINE x == ops'[i].outcomes[n]
        <4>5. /\ ~x.verified /\ x.asked = Wanted.key
              /\ Wanted.onConflict = "overwrite" => x.key = Wanted.key
              /\ x.replaces # Absent =>
                   \/ x.expected = Absent
                   \/ Owned /\ Previous.mirror /\ x.replaces = Previous.content /\ x.key \in {Previous.key, Wanted.key}
          BY <2>4, <3>2 DEF Chooses
        <4>6. x.replaces # Absent =>
                   \/ x.expected = Absent
                   \/ \E r \in ops'[i].base.replicas :
                         /\ r.asked = x.asked /\ r.managed /\ r.mirror /\ r.content = x.replaces
                         /\ x.key \in {r.key, r.asked}
          <5> HIDE DEF x
          <5> QED  BY <4>4, <4>5
        <4> QED  BY <2>1, <4>1, <4>5, <4>6
      <3> QED  BY <2>4, <3>1, <3>2
    <2>5. CASE /\ Inspect \/ Verify
               /\ work # None /\ work.at \in {"target", "verify"} /\ i = work.id /\ Alike(work.op, ops[i])
               /\ work.n \in DOMAIN ops[i].outcomes /\ disk[Chosen.key] = work.op.content
               /\ DOMAIN ops'[i].outcomes = DOMAIN ops[i].outcomes
               /\ \A m \in DOMAIN ops[i].outcomes :
                    LET x == ops[i].outcomes[m]  y == ops'[i].outcomes[m] IN
                    /\ y.key = x.key /\ y.asked = x.asked /\ y.managed = x.managed /\ y.expected = x.expected
                    /\ y.replaces = x.replaces /\ (m # work.n => y = x) /\ (m = work.n => y.verified)
      <3>1. n \in DOMAIN ops[i].outcomes
        BY <2>5
      <3>2. ops'[i].outcomes[n].managed /\ ops'[i].outcomes[n].verified => <<ops'[i].outcomes[n].key, ops'[i].content>> \in placed'
        <4>1. CASE n # work.n
          BY <1>0, <2>1, <2>2, <2>5, <3>1, <4>1
        <4>2. CASE n = work.n
          <5>1. Chosen = ops[i].outcomes[n] /\ work.op.content = ops[i].content
            BY <2>5, <4>2 DEF Chosen, Alike
          <5>2. CASE Inspect
            <6>1. Chosen.managed => <<Chosen.key, disk[Chosen.key]>> \in placed'
              <7>1. \/ disk[Chosen.key] # work.op.content
                    \/ placed' = IF Chosen.managed THEN placed \cup {<<Chosen.key, disk[Chosen.key]>>} ELSE placed
                BY <5>2 DEF Inspect
              <7> QED  BY <2>5, <7>1
            <6> QED  BY <2>1, <2>5, <3>1, <5>1, <6>1
          <5>3. CASE Verify
            <6>1. <<Chosen.key, work.op.content>> \in placed
              BY <5>3 DEF Verify, At, PutInv, WriteAllowed
            <6> QED  BY <1>0, <2>1, <2>5, <3>1, <5>1, <6>1
          <5> QED  BY <2>5, <5>2, <5>3
        <4> QED  BY <4>1, <4>2
      <3> QED  BY <2>1, <2>2, <2>5, <3>1, <3>2
    <2> QED  BY <1>0, <2>3, <2>4, <2>5, OutcomesStep
  <1> QED  BY <1>1, <1>2 DEF OutcomesPut

LEMMA ReplicasPutStep ==
  ASSUME PutInv, [Next]_vars
  PROVE  ReplicasPut'
  <1>0. ShapeInv /\ AlignedInv /\ placed \subseteq placed'
    BY PlacedGrows DEF PutInv, NamesInv, AlignedInv
  <1>1. ASSUME NEW o \in Owners, NEW r \in Replicas(o)'  PROVE Put(r)'
    <2>1. CASE \E x \in Replicas(o) : Same(r, x) /\ (r.managed => x.managed \/ <<r.key, r.content>> \in placed')
      BY <1>0, <2>1 DEF PutInv, ReplicasPut, Put, Same
    <2>2. CASE \E i \in DOMAIN ops : /\ ops[i].shape.owner = o /\ ops[i].base # None
                                     /\ \E x \in ops[i].base.replicas : Same(r, x) /\ r.managed = x.managed
      <3>1. PICK i \in DOMAIN ops : ops[i].base # None /\ \E x \in ops[i].base.replicas : Same(r, x) /\ r.managed = x.managed
        BY <2>2
      <3>2. PICK x \in ops[i].base.replicas : Same(r, x) /\ r.managed = x.managed
        BY <3>1
      <3> QED  BY <1>0, <3>1, <3>2 DEF PutInv, ReplicasPut, Put, Same
    <2>3. CASE \E i \in DOMAIN ops : /\ ops[i].shape.owner = o
                                     /\ \E n \in DOMAIN ops[i].outcomes :
                                       /\ r.key = ops[i].outcomes[n].key /\ r.asked = ops[i].outcomes[n].asked
                                       /\ r.content = ops[i].content /\ r.managed = ops[i].outcomes[n].managed
                                       /\ ops[i].outcomes[n].verified \/ (r.managed => <<r.key, r.content>> \in placed')
      <3>1. PICK i \in DOMAIN ops : \E n \in DOMAIN ops[i].outcomes :
                                       /\ r.key = ops[i].outcomes[n].key
                                       /\ r.content = ops[i].content /\ r.managed = ops[i].outcomes[n].managed
                                       /\ ops[i].outcomes[n].verified \/ (r.managed => <<r.key, r.content>> \in placed')
        BY <2>3
      <3>2. \A n \in DOMAIN ops[i].outcomes :
              ops[i].outcomes[n].managed /\ ops[i].outcomes[n].verified => <<ops[i].outcomes[n].key, ops[i].content>> \in placed
        BY DEF PutInv, OutcomesPut
      <3> QED  BY <1>0, <3>1, <3>2 DEF Put
    <2> QED  BY <1>0, <2>1, <2>2, <2>3, LedgerStep
  <1>2. ASSUME NEW i \in DOMAIN ops', ops'[i].base # None, NEW r \in ops'[i].base.replicas  PROVE Put(r)'
    <2>1. i \in DOMAIN ops
      BY <1>0, <1>2, NewRowFields
    <2>2. ops[i] \in Op /\ ops[i].shape.owner \in Owners
      BY <1>0, <2>1, OpIds, OpFields DEF ShapeInv
    <2>3. ops'[i].base = ops[i].base \/ ops'[i].base = Entry(ops[i].shape.owner)
      BY <1>0, <2>1, RowStep DEF RowKept
    <2> QED  BY <1>0, <1>2, <2>1, <2>2, <2>3 DEF PutInv, ReplicasPut, Replicas, Put
  <1> QED  BY <1>1, <1>2 DEF ReplicasPut

\* When the executor writes, it has looked; when it verifies, it has written.
LEMMA WriteAllowedStep ==
  ASSUME PutInv, [Next]_vars
  PROVE  WriteAllowed'
  <1>0. ShapeInv /\ AlignedInv /\ placed \subseteq placed'
    BY PlacedGrows DEF PutInv, NamesInv, AlignedInv
  <1>1. CASE work' = None
    BY <1>1 DEF WriteAllowed
  <1>2. CASE work' = work
    BY <1>0, <1>2 DEF PutInv, WriteAllowed, Chosen, Wanted
  <1>3. CASE work' # None /\ work'.at \notin {"write", "retain", "capture", "verify"}
    BY <1>3 DEF WriteAllowed
  <1>4. CASE Visit /\ work' # work
    <2>1. work' = Begun(Row, "clean") \/ work' = [Begun(Row, "queued") EXCEPT !.op.state = "running"]
      BY <1>4 DEF Visit
    <2>2. work'.at \in {"clean", "queued"}
      BY <2>1 DEF Begun
    <2> QED  BY <1>1, <1>3, <2>2
  <1>5. CASE Inspect /\ work' # None
    <2>0. /\ work # None /\ work.at = "target" /\ work.at \in Locked /\ More /\ Resolved
          /\ work.n \in DOMAIN work.op.outcomes
      BY <1>0, <1>5, AtTarget DEF Inspect, At, Locked
    <2>1. work \in Work
      BY <1>0, <2>0, AtWork
    <2>2. CASE Verified
      <3>1. work'.at = "target"
        BY <1>0, <2>0, <2>2, VerifiedAligned DEF AlignedInv
      <3> QED  BY <1>3, <1>5, <3>1
    <2>3. CASE ~Refused(disk[Chosen.key]) /\ work' = [work EXCEPT !.at = "write", !.found = disk[Chosen.key]]
      <3>1. work'.op = work.op /\ work'.n = work.n /\ work'.at = "write" /\ work'.found = disk[Chosen.key]
        BY <2>1, <2>3 DEF Work
      <3>2. disk[Chosen.key] # Absent =>
              /\ disk[Chosen.key] = Chosen.expected
              /\ disk[Chosen.key] = Chosen.replaces \/ Wanted.onConflict = "overwrite"
        BY <2>3 DEF Refused
      <3> QED  BY <3>1, <3>2 DEF WriteAllowed, Chosen, Wanted
    <2> QED  BY <1>5, <2>2, <2>3 DEF Inspect, Block, Leave
  <1>6. CASE Swap /\ work' # None
    <2>0. work # None /\ work \in Work /\ work.at \in Placing \cup Removing \cup {"restore"}
      BY <1>0, <1>6, SwapFrame, AtWork
    <2>1. CASE Publishes
      <3>1. Write \/ Publish \/ Replace
        <4>1. CASE Retain \/ Keep
          <5>1. work'.at # "verify"
            BY <1>6, <2>0, <4>1 DEF Retain, Keep, Retained, Block, Leave, Work
          <5> QED  BY <2>0, <2>1, <5>1 DEF Publishes, Work
        <4>2. CASE Capture \/ Unlink \/ Delete \/ Restore
          <5>1. work'.at # "verify"
            BY <1>6, <2>0, <4>2 DEF Capture, Unlink, Delete, Restore, Captured, Gone, Block, Leave, Work
          <5> QED  BY <2>0, <2>1, <5>1 DEF Publishes, Work
        <4> QED  BY <1>6, <4>1, <4>2 DEF Swap
      <3>2. work.at \in Placing
        BY <3>1 DEF Write, Publish, Replace, At
      <3>3. work'.at = "verify" /\ work'.op = work.op /\ work'.n = work.n /\ staged[work.id] = work.op.content
        BY <1>0, <2>0, <2>1, <3>2, PublishesType, AtWrite
      <3> QED  BY <2>1, <3>3 DEF WriteAllowed, Publishes, Chosen
    <2>2. CASE ~Publishes /\ work'.at \in {"retain", "capture", "verify", "write"}
      <3>1. (Write /\ work' = [work EXCEPT !.at = "retain"]) \/ (Retain /\ work' = [work EXCEPT !.at = "capture"])
        <4>1. CASE Write \/ Publish \/ Replace
          BY <1>6, <2>0, <2>2, <4>1 DEF Write, Publish, Replace, Block, Leave, Work
        <4>2. CASE Retain \/ Keep
          BY <1>6, <2>0, <2>2, <4>2 DEF Retain, Keep, Retained, Block, Leave, Work
        <4>3. CASE Capture \/ Unlink \/ Delete \/ Restore
          BY <1>6, <2>0, <2>2, <4>3 DEF Capture, Unlink, Delete, Restore, Captured, Gone, Block, Leave, Work
        <4> QED  BY <1>6, <4>1, <4>2, <4>3 DEF Swap
      <3>2. work.at \in {"write", "retain"}
        BY <3>1 DEF Write, Retain, At
      <3>3. work'.at \in {"retain", "capture"} /\ work'.op = work.op /\ work'.n = work.n /\ work'.found = work.found
        BY <2>0, <3>1 DEF Work
      <3> QED  BY <2>0, <3>2, <3>3 DEF PutInv, WriteAllowed, Chosen, Wanted
    <2> QED  BY <1>3, <1>6, <2>1, <2>2
  <1>7. CASE Verify /\ work' # None
    <2>0. work # None /\ work.at = "verify" /\ work.n \in DOMAIN work.op.outcomes
      BY <1>0, <1>7, AtWrite DEF Verify, At
    <2>1. Verified
      BY <1>7 DEF Verify, Block, Leave
    <2>2. work'.at = "target"
      BY <1>0, <2>0, <2>1, VerifiedAligned DEF AlignedInv
    <2> QED  BY <1>3, <1>7, <2>2
  <1>8. CASE Resolve /\ work' # None
    <2>1. work # None /\ work.at = "target" /\ More /\ ~Resolved /\ \E x \in Outcome : Record(x)
      BY <1>0, <1>8, ResolveStep DEF Block, Leave
    <2>2. work'.at = "target"
      BY <1>0, <2>1, RecordAligned DEF AlignedInv
    <2> QED  BY <1>3, <1>8, <2>2
  <1>9. CASE Begin \/ Stage \/ StageVerify
    <2>0. work # None /\ work.at \in {"queued", "stage", "staged"}
      BY <1>9 DEF Begin, Stage, StageVerify, At
    <2>1. work \in Work
      BY <1>0, <2>0, AtWork DEF Locked
    <2>2. \/ work' = None
          \/ \E at \in {"stage", "staged", "target"} : \/ work' = [work EXCEPT !.at = at]
                                                       \/ \E op : work' = [[work EXCEPT !.at = at] EXCEPT !.op = op]
      BY <1>9 DEF Begin, Stage, StageVerify, Save, Block, Leave
    <2>3. work' = None \/ work'.at \in {"stage", "staged", "target"}
      BY <2>1, <2>2 DEF Work
    <2> QED  BY <1>1, <1>3, <2>3
  <1>10. CASE Placed \/ Retire \/ Ask \/ Retired \/ Check \/ Release \/ Drop
    <2>0. work # None /\ work.at \in Locked
      BY <1>10 DEF Placed, Retire, Ask, Retired, Check, Release, Drop, At, Locked
    <2>1. work \in Work
      BY <1>0, <2>0, AtWork
    <2>2. work' = None \/ work'.at \in Past
      BY <1>10, <2>0, <2>1 DEF Placed, Save, Retire, Ask, Retired, Check, Release, Drop, At, Block, Leave, Past, Work
    <2> QED  BY <1>1, <1>3, <2>2 DEF Past
  <1>11. CASE Complete \/ Clean \/ DropIngress \/ DropPin
    <2>0. work # None /\ work \in Work
      BY <1>0, <1>11, WorkFields DEF Complete, Clean, DropIngress, DropPin, At, ShapeInv, TypeOK
    <2>1. work' = None \/ work'.at \in Cleaning
      BY <1>11, <2>0 DEF Complete, Save, Clean, Done, DropIngress, DropPin, Cleaning, Work
    <2> QED  BY <1>1, <1>3, <2>1 DEF Cleaning
  <1> QED  BY <1>1, <1>2, <1>4, <1>5, <1>6, <1>7, <1>8, <1>9, <1>10, <1>11, WorkStep DEF Executor

\* What is released is what was handed in: nobody else writes there.
LEMMA DropAllowedStep ==
  ASSUME PutInv, [Next]_vars
  PROVE  DropAllowed'
  <1>0. ShapeInv /\ AlignedInv /\ disk \in [Keys -> Bytes]
    BY DEF PutInv, NamesInv, AlignedInv, ShapeInv, TypeOK
  <1>1. CASE work' = work
    <2>1. SUFFICES ASSUME work # None, work.at = "drop"  PROVE Released(work.key)'
      BY <1>1 DEF DropAllowed
    <2>2. /\ Released(work.key) /\ work.key \in ReleaseKeys(work.op) /\ lock = "executor"
          /\ work.id \in DOMAIN ops /\ Alike(work.op, ops[work.id]) /\ ops[work.id].shape \in Shapes
      BY <1>0, <2>1, AtWork, OpIds, OpFields DEF PutInv, DropAllowed, ShapeInv, WorkShaped, Locked
    <2>3. PICK s \in Shapes : s.releases /\ work.key \in s.from
      BY <2>2 DEF PutInv, NamesInv, ReleasesStaging, ReleaseKeys, Alike
    <2>4. work.key \notin ForeignKeys
      BY <2>3, StagingAssumption
    <2>5. disk'[work.key] = disk[work.key]
      <3>1. CASE \E f \in ForeignKeys, b \in Bytes : Foreign(f, b)
        BY <1>0, <2>4, <3>1 DEF Foreign
      <3>2. ~EditTake /\ ~EditPlace /\ lock # "taken" /\ ~Swap /\ ~Puts
        <4>1. ~Swap
          BY <2>1, SwapFrame
        <4> QED  BY <2>1, <2>2, <4>1 DEF EditTake, EditPlace, Puts
      <3>3. ~Drop
        <4>1. work \in Work
          BY <1>0, <2>1, AtWork DEF Locked
        <4>2. work.at # [work EXCEPT !.at = "release", !.left = @ \ {work.key}].at
          BY <2>1, <4>1 DEF Work
        <4> QED  BY <1>1, <4>2 DEF Drop
      <3> QED  BY <1>0, <3>1, <3>2, <3>3, DiskStep DEF Swap
    <2> QED  BY <1>1, <2>2, <2>5 DEF Released
  <1>2. CASE work' # work /\ Release
    <2>0. work # None /\ work.at = "release" /\ work \in Work /\ disk' = disk
      BY <1>0, <1>2, AtWork DEF Release, At, Locked, Rest
    <2>1. CASE Block \/ \E k \in work.left : work' = [work EXCEPT !.left = @ \ {k}]
      BY <2>0, <2>1 DEF Block, Leave, Work, DropAllowed
    <2>2. CASE \E k \in work.left : Released(k) /\ work' = [work EXCEPT !.at = "drop", !.key = k]
      <3>1. PICK k \in work.left : Released(k) /\ work' = [work EXCEPT !.at = "drop", !.key = k]
        BY <2>2
      <3>2. work'.key = k /\ work'.op = work.op
        BY <2>0, <3>1 DEF Work
      <3> QED  BY <2>0, <3>1, <3>2 DEF DropAllowed, Released
    <2> QED  BY <1>2, <2>1, <2>2 DEF Release
  <1>3. CASE work' # work /\ ~Release
    <2>1. SUFFICES work' # None => work'.at # "drop"
      BY DEF DropAllowed
    <2>2. CASE Visit
      <3>1. work' = Begun(Row, "clean") \/ work' = [Begun(Row, "queued") EXCEPT !.op.state = "running"]
        BY <1>3, <2>2 DEF Visit
      <3> QED  BY <3>1 DEF Begun
    <2>3. CASE Begin \/ Stage \/ StageVerify \/ Placed \/ Retire \/ Ask \/ Retired \/ Check \/ Drop
      <3>0. work # None /\ work.at \in Locked \cup {"queued"} /\ (work.at # "drop" \/ Drop)
        BY <2>3 DEF Begin, Stage, StageVerify, Placed, Retire, Ask, Retired, Check, Drop, At, Locked
      <3>1. work \in Work
        BY <1>0, <3>0, WorkFields DEF Drop, At, ShapeInv, TypeOK
      <3>2. CASE Drop
        BY <3>1, <3>2 DEF Drop, Work
      <3>3. CASE ~Drop
        BY <2>3, <3>0, <3>1, <3>3 DEF Begin, Stage, StageVerify, Placed, Save, Retire, Ask, Retired, Check, At,
                                      Block, Leave, Work
      <3> QED  BY <3>2, <3>3
    <2>4. CASE Resolve
      BY <1>0, <2>4, ResolveStep, RecordAligned DEF Block, Leave, AlignedInv
    <2>5. CASE Inspect \/ Verify
      <3>0. /\ work # None /\ work.at \in {"target", "verify"} /\ work.at \in Locked /\ work.n \in DOMAIN work.op.outcomes
        BY <1>0, <2>5, AtTarget, AtWrite DEF Inspect, Verify, At, Locked
      <3>1. Verified => work'.at = "target"
        BY <1>0, <3>0, VerifiedAligned DEF AlignedInv
      <3>2. work \in Work
        BY <1>0, <3>0, AtWork
      <3> QED  BY <2>5, <3>1, <3>2 DEF Inspect, Verify, Block, Leave, Work
    <2>6. CASE Swap
      BY <1>0, <2>6, SwapStep DEF Block, Leave
    <2>7. CASE Complete \/ Clean \/ DropIngress \/ DropPin
      <3>0. work # None /\ work \in Work
        BY <1>0, <2>7, WorkFields DEF Complete, Clean, DropIngress, DropPin, At, ShapeInv, TypeOK
      <3>1. work' = None \/ work'.at \in Cleaning
        BY <2>7, <3>0 DEF Complete, Save, Clean, Done, DropIngress, DropPin, Cleaning, Work
      <3> QED  BY <3>1 DEF Cleaning
    <2> QED  BY <1>3, <2>2, <2>3, <2>4, <2>5, <2>6, <2>7, WorkStep DEF Executor
  <1> QED  BY <1>1, <1>2, <1>3

\* What the ledger and the outcomes say was put somewhere was put there.
THEOREM PutCorrect == Spec => []PutInv
  <1>1. Init => PutInv
    BY InitShape, InitAligned, InitWatched, InitNames, InitPut DEF AlignedInv, NamesInv, PutInv
  <1>2. PutInv /\ [Next]_vars => PutInv'
    BY NextShape, AlignedStep, WatchedStep, NamesStep, OutcomesPutStep, ReplicasPutStep, WriteAllowedStep, DropAllowedStep
       DEF AlignedInv, NamesInv, PutInv
  <1> QED  BY <1>1, <1>2, PTL DEF Spec

LEMMA OthersBytesKeptStep ==
  ASSUME PutInv, [Next]_vars, NEW k \in Keys, disk'[k] # disk[k], disk[k] # Absent, spent' = spent, ~Editing
  PROVE  Ours(k) \/ Caught(k) \/ work.at \in {"replace", "delete"}
  <1>0. ShapeInv /\ disk \in [Keys -> Bytes] /\ spent.foreign \in 0..MaxForeign /\ MaxForeign \in Nat
    BY BoundsAssumption DEF PutInv, NamesInv, AlignedInv, ShapeInv, TypeOK
  <1>1. ASSUME NEW f \in ForeignKeys, NEW b \in Bytes, Foreign(f, b)  PROVE FALSE
    <2>1. spent.foreign \in Nat
      BY <1>0
    <2>2. spent' = [spent EXCEPT !.foreign = @ + 1]
      BY <1>1 DEF Foreign
    <2>3. spent \in [foreign: 0..MaxForeign, faults: 0..MaxFaults, late: SUBSET Ids,
                     acked: SUBSET [pin: Pins, owner: Owners, content: Contents]]
      BY <1>0 DEF ShapeInv, TypeOK
    <2>4. spent'.foreign = spent.foreign + 1
      BY <2>2, <2>3
    <2> QED  BY <2>1, <2>4
  <1>2. ~EditTake /\ ~EditPlace /\ ~(EditRefused /\ lock = "taken")
    BY DEF EditTake, EditPlace, Editing
  <1>3. CASE Capture /\ Takes(Chosen.key) /\ disk[Chosen.key] = work.found
    <2>0. work # None /\ work.at = "capture"
      BY <1>3 DEF Capture, At
    <2>1. k = Chosen.key /\ work.found = disk[k] /\ Chosen \in Outcome
      BY <1>0, <1>3, <2>0, AtWrite DEF Takes
    <2>2. disk[k] = Chosen.expected /\ (disk[k] = Chosen.replaces \/ Wanted.onConflict = "overwrite")
      BY <2>0, <2>1 DEF PutInv, WriteAllowed
    <2>3. PICK i \in DOMAIN ops : i = work.id /\ Alike(work.op, ops[i])
      BY <1>0, <2>0, AtWork DEF Locked
    <2>4. PICK n \in DOMAIN ops[i].outcomes : n = work.n /\ Chosen = ops[i].outcomes[n] /\ Wanted = ops[i].shape.targets[n]
                                               /\ n \in DOMAIN work.op.shape.targets
      BY <1>0, <2>0, <2>3, AtWrite DEF Chosen, Wanted, Alike
    <2>5. CASE Wanted.onConflict = "overwrite"
      <3>1. Wanted.key = k
        BY <2>1, <2>4, <2>5 DEF PutInv, OutcomesPut
      <3> QED  BY <2>3, <2>4, <2>5, <3>1 DEF Ours, Wanted
    <2>6. CASE disk[k] = Chosen.replaces
      <3>0. Chosen.replaces # Absent =>
              \/ Chosen.expected = Absent
              \/ \E r \in ops[i].base.replicas :
                   /\ r.asked = Chosen.asked /\ r.managed /\ r.mirror /\ r.content = Chosen.replaces
                   /\ Chosen.key \in {r.key, r.asked}
        BY <2>4 DEF PutInv, OutcomesPut
      <3>1. \E r \in ops[i].base.replicas :
              r.asked = Chosen.asked /\ r.managed /\ r.mirror /\ r.content = disk[k] /\ k \in {r.key, r.asked}
        BY <2>1, <2>2, <2>6, <3>0
      <3>2. ops[i].base # None /\ work.op.base = ops[i].base
        BY <1>0, <2>0, <2>3, AtWork DEF Locked, Alike
      <3>3. PICK r \in ops[i].base.replicas :
              r.asked = Chosen.asked /\ r.managed /\ r.mirror /\ r.content = disk[k] /\ k \in {r.key, r.asked}
        BY <3>1
      <3>4. <<r.key, disk[k]>> \in placed
        BY <3>2, <3>3 DEF PutInv, ReplicasPut, Put
      <3> QED  BY <3>2, <3>3, <3>4 DEF Ours
    <2> QED  BY <2>2, <2>5, <2>6
  <1>4. CASE Unlink /\ Takes(work.key) /\ disk[work.key] = Old(work.key).content
    <2>0. work # None /\ work.at = "unlink" /\ Mirrors(work.key) # {}
      BY <1>0, <1>4 DEF Unlink, At, ShapeInv, WorkShaped
    <2>1. Old(work.key) \in Mirrors(work.key)
      BY <2>0 DEF Old
    <2>2. /\ Old(work.key) \in work.op.base.replicas /\ Old(work.key).managed /\ Old(work.key).key = work.key
      BY <2>1 DEF Mirrors
    <2>3. PICK i \in DOMAIN ops : i = work.id /\ Alike(work.op, ops[i]) /\ work.op.base # None
      BY <1>0, <2>0, AtWork DEF Locked
    <2>4. <<work.key, Old(work.key).content>> \in placed
      BY <2>2, <2>3 DEF Alike, PutInv, ReplicasPut, Put
    <2>5. k = work.key
      BY <1>0, <1>4 DEF Takes
    <2> QED  BY <1>4, <2>4, <2>5 DEF Ours
  <1>5. CASE Drop /\ disk' = [disk EXCEPT ![work.key] = Absent]
    <2>1. k = work.key /\ Released(work.key)
      BY <1>0, <1>5 DEF Drop, At, PutInv, DropAllowed
    <2> QED  BY <2>1 DEF Ours
  <1>6. CASE Puts
    <2>1. work.at # "replace" => disk[Chosen.key] = Absent /\ disk' = [disk EXCEPT ![Chosen.key] = staged[work.id]]
      BY <1>6 DEF Puts, Publishes
    <2> QED  BY <1>0, <2>1
  <1>7. CASE Capture /\ Takes(Chosen.key) /\ Caught(Chosen.key)
    <2>1. k = Chosen.key
      BY <1>0, <1>7 DEF Takes
    <2> QED  BY <1>7, <2>1
  <1>8. CASE Unlink /\ Takes(work.key) /\ Caught(work.key)
    <2>1. k = work.key
      BY <1>0, <1>8 DEF Takes
    <2> QED  BY <1>8, <2>1
  <1>9. CASE Delete
    BY <1>9 DEF Delete, At
  <1>10. CASE Restore /\ PutsBack(work.key)
    BY <1>0, <1>10 DEF PutsBack
  <1> QED  BY <1>0, <1>1, <1>2, <1>3, <1>4, <1>5, <1>6, <1>7, <1>8, <1>9, <1>10, DiskStep

\* The service replaces and removes only its own versions, or what it was asked
\* to overwrite or to release (ReplicaService.js:438-599); what it finds there
\* instead when it captures is in the trash and about to be put back, and only
\* where there was nothing to capture a file that appears is lost (index.js:575-577
\* and 932).
THEOREM OthersBytesKeptCorrect == Spec => OthersBytesKept
  <1>1. PutInv /\ [Next]_vars =>
          [\A k \in Keys : disk'[k] # disk[k] /\ disk[k] # Absent /\ spent' = spent /\ ~Editing
             => Ours(k) \/ Caught(k) \/ work.at \in {"replace", "delete"}]_vars
    BY OthersBytesKeptStep
  <1> QED  BY <1>1, PutCorrect, PTL DEF Spec, OthersBytesKept

=============================================================================
