--------------------------- MODULE ReplicaLedgerProofs ---------------------------
(***************************************************************************)
(* The ledger tells what the endpoints hold (LedgerHolds), and the service  *)
(* loses no bytes (NothingLost). Both rest on the order of an owner's       *)
(* operations (ReplicaLineProofs): an operation takes its base from the     *)
(* ledger when it is the owner's first unfinished one; until it completes   *)
(* only a supersession rewrites the owner's replicas, and what it removes   *)
(* no other owner's ledger or plan names.                                   *)
(***************************************************************************)
EXTENDS ReplicaLineProofs

-----------------------------------------------------------------------------
(***************************************************************************)
(* How the ledger changes                                                   *)
(***************************************************************************)

\* The replicas of an owner are rewritten by Complete, by Adopt and by the
\* supersession of one of its unfinished operations.
Rewritten(o) ==
  \/ Replicas(o)' = Replicas(o)
  \/ Complete /\ work # None /\ o = work.op.shape.owner /\ Replicas(o)' = Result(work.op)
  \/ \E r \in Replicas(o) : /\ r \in Replica /\ Adopt(o, r)
                            /\ Replicas(o)' = (Replicas(o) \ {r}) \cup {[r EXCEPT !.managed = TRUE]}
  \/ \E r \in NewReceipts : \E i \in Open :
       Supersede(i, r) /\ o = ops[i].shape.owner /\ Replicas(o)' = Inherited(ops[i])

LEMMA ReplicasStep ==
  ASSUME ShapeInv, [Next]_vars, NEW o \in Owners
  PROVE  /\ Rewritten(o)
         /\ owners'[o] = None => owners[o] = None /\ Replicas(o)' = Replicas(o)
         /\ Complete /\ o = work.op.shape.owner => Replicas(o)' = Result(work.op)
  <1>0. TypeOK /\ owners \in [Owners -> Ledger \cup {None}] /\ Replicas(o) \in SUBSET Replica
    BY EntryType DEF ShapeInv, TypeOK
  <1>2. CASE owners'[o] = owners[o] /\ ~Complete
    BY <1>2 DEF Replicas, Entry, Rewritten
  <1>3. CASE Complete
    <2>0. work # None /\ work.at = "release" /\ work.at \in Locked
      BY <1>3 DEF Complete, At, Locked
    <2>1. /\ work.op \in Op /\ work.op.base # None
          /\ work.op.shape.owner \in Owners /\ work.id \in Ids
      BY <1>0, <2>0, AtWork, OpFields
    <2>2. owners' = [owners EXCEPT ![work.op.shape.owner] = [op |-> work.id, replicas |-> Result(work.op)]]
      BY <1>3 DEF Complete
    <2>3. [op |-> work.id, replicas |-> Result(work.op)] \in Ledger
      BY <2>1, ResultType DEF Ledger, Ids
    <2>4. owners'[work.op.shape.owner] = [op |-> work.id, replicas |-> Result(work.op)]
      BY <1>0, <2>1, <2>2
    <2>5. o = work.op.shape.owner => Replicas(o)' = Result(work.op) /\ owners'[o] # None
      BY <2>3, <2>4, RecordAssumption DEF Replicas, Entry
    <2>6. o # work.op.shape.owner => owners'[o] = owners[o]
      BY <1>0, <2>1, <2>2
    <2> QED  BY <1>3, <2>0, <2>5, <2>6 DEF Replicas, Entry, Rewritten
  <1>4. CASE ~Complete /\ \E p \in Owners : \E x \in Replicas(p) : Adopt(p, x)
    <2>1. PICK p \in Owners, x \in UNION {Replicas(q) : q \in Owners} : x \in Replicas(p) /\ Adopt(p, x)
      BY <1>4
    <2>2. CASE o # p
      <3>1. owners'[o] = owners[o]
        BY <1>0, <2>1, <2>2 DEF Adopt
      <3> QED  BY <1>2, <1>4, <3>1
    <2>3. CASE o = p
      <3>0. x \in Replica /\ owners[o] # None /\ owners[o] \in Ledger
        BY <1>0, <2>1, <2>3, EntryType
      <3> DEFINE y == [x EXCEPT !.managed = TRUE]
      <3>1. y \in Replica
        BY <3>0 DEF Replica
      <3>2. owners'[o] = [owners[o] EXCEPT !.replicas = (@ \ {x}) \cup {y}]
        BY <1>0, <2>1, <2>3, <3>0 DEF Adopt
      <3> HIDE DEF y
      <3>3. owners[o].replicas \in SUBSET Replica
        BY <3>0 DEF Ledger
      <3>4. owners'[o] \in Ledger /\ owners'[o].replicas = (owners[o].replicas \ {x}) \cup {y}
        BY <3>0, <3>1, <3>2, <3>3 DEF Ledger
      <3>5. Replicas(o)' = (Replicas(o) \ {x}) \cup {y} /\ owners'[o] # None
        BY <3>0, <3>4, RecordAssumption DEF Replicas, Entry
      <3> QED  BY <1>4, <2>1, <2>3, <3>0, <3>5 DEF Rewritten, y
    <2> QED  BY <2>2, <2>3
  <1>5. CASE /\ ~Complete
             /\ \E g \in NewReceipts : \E i \in Open :
                  /\ Supersede(i, g)
                  /\ owners' = [owners EXCEPT ![g.shape.owner] = [Entry(g.shape.owner) EXCEPT !.replicas = Inherited(ops[i])]]
    <2>1. PICK g \in NewReceipts, i \in Open :
              /\ Supersede(i, g)
              /\ owners' = [owners EXCEPT ![g.shape.owner] = [Entry(g.shape.owner) EXCEPT !.replicas = Inherited(ops[i])]]
      BY <1>5
    <2>2. i \in DOMAIN ops /\ ops[i] \in Op /\ ops[i].shape.owner = g.shape.owner /\ ops[i].shape.owner \in Owners
      BY <1>0, <2>1, OpIds, OpFields DEF Open, Supersede
    <2>3. CASE o # g.shape.owner
      <3>1. owners'[o] = owners[o]
        BY <1>0, <2>1, <2>2, <2>3
      <3> QED  BY <1>2, <1>5, <3>1
    <2>4. CASE o = g.shape.owner
      <3>1. Inherited(ops[i]) \in SUBSET Replica /\ Entry(o) \in Ledger
        BY <1>0, <2>2, InheritedType, EntryType
      <3>2. owners'[o] = [Entry(o) EXCEPT !.replicas = Inherited(ops[i])]
        BY <1>0, <2>1, <2>2, <2>4
      <3>3. owners'[o] \in Ledger /\ owners'[o].replicas = Inherited(ops[i])
        BY <3>1, <3>2 DEF Ledger
      <3>4. Replicas(o)' = Inherited(ops[i]) /\ owners'[o] # None
        BY <3>3, RecordAssumption DEF Replicas, Entry
      <3> QED  BY <1>5, <2>1, <2>2, <2>4, <3>4 DEF Rewritten
    <2> QED  BY <2>3, <2>4
  <1> QED  BY <1>2, <1>3, <1>4, <1>5, OwnersStep

-----------------------------------------------------------------------------
(***************************************************************************)
(* Layer 1: what an operation starts from is taken in turn                  *)
(***************************************************************************)
Started(i) == ops[i].base # None

Fresh ==
  \A i, j \in DOMAIN ops : i < j /\ ops[i].shape.owner = ops[j].shape.owner /\ Live(i) => ~Started(j)

LEMMA FreshStep ==
  ASSUME LineInv, Fresh, [Next]_vars
  PROVE  Fresh'
  <1>0. ShapeInv /\ AlignedInv /\ PassInLine
    BY DEF LineInv, AlignedInv
  <1> SUFFICES ASSUME NEW i \in DOMAIN ops', NEW j \in DOMAIN ops', i < j,
                      ops'[i].shape.owner = ops'[j].shape.owner, Live(i)'
               PROVE  ops'[j].base = None
    BY DEF Fresh, Started
  <1>1. CASE j \notin DOMAIN ops
    BY <1>0, <1>1, NewRowFields
  <1>2. CASE j \in DOMAIN ops
    <2>1. i \in DOMAIN ops
      BY <1>0, <1>2, Grows
    <2>2. Live(i) /\ ops[i].shape.owner = ops[j].shape.owner
      BY <1>0, <1>2, <2>1, LiveStep, Grows DEF SamePlan
    <2>3. ops[j].base = None
      BY <1>2, <2>1, <2>2 DEF Fresh, Started
    <2>4. ~(Begin /\ work # None /\ j = work.id)
      <3>1. SUFFICES ASSUME Begin, work # None, j = work.id  PROVE FALSE
        OBVIOUS
      <3>2. Executing
        BY <3>1 DEF Begin, At, Executing, Cleaning
      <3>3. Terminal(ops[i])
        BY <1>0, <2>1, <2>2, <3>1, <3>2 DEF PassInLine
      <3>4. i # j
        BY <1>0, <1>2, <2>1, Grows
      <3> QED  BY <2>2, <3>1, <3>3, <3>4 DEF Live
    <2> QED  BY <1>0, <1>2, <2>3, <2>4, RowStep DEF RowKept
  <1> QED  BY <1>1, <1>2

\* An owner without a ledger entry starts from nothing.
BaseUnknown ==
  \A i \in DOMAIN ops : Started(i) /\ owners[ops[i].shape.owner] = None => ops[i].base.replicas = {}

LEMMA BaseUnknownStep ==
  ASSUME LineInv, BaseUnknown, [Next]_vars
  PROVE  BaseUnknown'
  <1>0. ShapeInv
    BY DEF LineInv, AlignedInv
  <1> SUFFICES ASSUME NEW i \in DOMAIN ops', ops'[i].base # None, owners'[ops'[i].shape.owner] = None
               PROVE  ops'[i].base.replicas = {}
    BY DEF BaseUnknown, Started
  <1>1. i \in DOMAIN ops
    BY <1>0, NewRowFields
  <1>2. ops'[i].shape.owner = ops[i].shape.owner /\ ops[i].shape.owner \in Owners
    BY <1>0, <1>1, Grows DEF SamePlan
  <1>3. owners[ops[i].shape.owner] = None
    BY <1>0, <1>2, ReplicasStep
  <1>4. CASE ops'[i].base = ops[i].base
    BY <1>1, <1>3, <1>4 DEF BaseUnknown, Started
  <1>5. CASE ops'[i].base = Entry(ops[i].shape.owner)
    BY <1>3, <1>5 DEF Entry
  <1> QED  BY <1>0, <1>1, <1>4, <1>5, RowStep DEF RowKept

-----------------------------------------------------------------------------
(***************************************************************************)
(* Layer 2: one replica for an endpoint                                     *)
(***************************************************************************)
OneEach(replicas) == \A r, x \in replicas : r.key = x.key => r = x

OutcomesApart(op) == \A m, n \in DOMAIN op.outcomes : op.outcomes[m].key = op.outcomes[n].key => m = n

LEMMA Apart ==
  ASSUME NamesInv, TargetsApart, NEW i \in DOMAIN ops
  PROVE  OutcomesApart(ops[i])
  <1> SUFFICES ASSUME NEW m \in DOMAIN ops[i].outcomes, NEW n \in DOMAIN ops[i].outcomes,
                      ops[i].outcomes[m].key = ops[i].outcomes[n].key, m # n
               PROVE  FALSE
    BY DEF OutcomesApart
  <1>1. ops[i] \in Op /\ ops[i].shape \in Shapes
    BY OpIds, OpFields DEF NamesInv, AlignedInv, ShapeInv
  <1>2. /\ m \in DOMAIN ops[i].shape.targets /\ n \in DOMAIN ops[i].shape.targets
        /\ ops[i].outcomes[m].key \in Names(ops[i].shape.targets[m])
        /\ ops[i].outcomes[n].key \in Names(ops[i].shape.targets[n])
    BY DEF NamesInv, OutcomesNamed, Named, Names
  <1> QED  BY <1>1, <1>2 DEF TargetsApart

Installed(op, n) ==
  [key |-> op.outcomes[n].key, asked |-> op.outcomes[n].asked, content |-> op.content,
   managed |-> op.outcomes[n].managed, mirror |-> op.outcomes[n].mirror]

LEMMA ResultParts ==
  ASSUME NEW op \in Op, op.base # None, NEW r \in Result(op)
  PROVE  \/ \E n \in DOMAIN op.outcomes : r = Installed(op, n)
         \/ \E x \in op.base.replicas :
              /\ r.key = x.key /\ r.content = x.content /\ r = [x EXCEPT !.mirror = FALSE]
              /\ ~x.mirror \/ x.key \in op.shape.preserve
              /\ x.key \notin Outcomes(op) /\ x.key \notin ReleaseKeys(op)
  <1>1. op.base.replicas \in SUBSET Replica
    BY OpFields
  <1>2. CASE r \in Kept(op)
    <2>1. PICK x \in op.base.replicas : /\ r = [x EXCEPT !.mirror = FALSE]
                                        /\ ~x.mirror \/ x.key \in op.shape.preserve
                                        /\ x.key \notin Outcomes(op) \cup ReleaseKeys(op)
      BY <1>2 DEF Kept
    <2>2. r.key = x.key /\ r.content = x.content
      BY <1>1, <2>1 DEF Replica
    <2> QED  BY <2>1, <2>2
  <1>3. CASE \E n \in DOMAIN op.outcomes : r = Installed(op, n)
    BY <1>3
  <1> QED  BY <1>2, <1>3 DEF Result, Installed

LEMMA ResultOneEach ==
  ASSUME NEW op \in Op, op.base # None, OneEach(op.base.replicas), OutcomesApart(op)
  PROVE  OneEach(Result(op))
  <1> SUFFICES ASSUME NEW r \in Result(op), NEW x \in Result(op), r.key = x.key  PROVE r = x
    BY DEF OneEach
  <1> DEFINE New(y) == \E n \in DOMAIN op.outcomes : y = Installed(op, n)
             Carried(y) == \E z \in op.base.replicas : y.key = z.key /\ y = [z EXCEPT !.mirror = FALSE] /\ z.key \notin Outcomes(op)
  <1>1. (New(r) \/ Carried(r)) /\ (New(x) \/ Carried(x))
    BY ResultParts
  <1>2. ASSUME NEW y, New(y)  PROVE y.key \in Outcomes(op)
    BY <1>2 DEF Installed, Outcomes
  <1>3. CASE New(r) /\ New(x)
    BY <1>3 DEF OutcomesApart, Installed
  <1>4. CASE Carried(r) /\ Carried(x)
    BY <1>4 DEF OneEach
  <1> QED  BY <1>1, <1>2, <1>3, <1>4

LandedAt(op) == {n \in DOMAIN op.outcomes : disk[op.outcomes[n].key] = op.content}

LEMMA InheritedParts ==
  ASSUME NEW op, NEW r \in Inherited(op)
  PROVE  \/ \E n \in LandedAt(op) : r = Installed(op, n)
         \/ /\ \A n \in LandedAt(op) : op.outcomes[n].key # r.key
            /\ \/ owners[op.shape.owner] # None /\ r \in Replicas(op.shape.owner)
               \/ owners[op.shape.owner] = None /\ op.base # None /\ r \in op.base.replicas
  BY DEF Inherited, Installed, LandedAt

LEMMA InheritedHas ==
  ASSUME NEW op, owners[op.shape.owner] # None, NEW r \in Replicas(op.shape.owner), r.key \notin Outcomes(op)
  PROVE  r \in Inherited(op)
  BY DEF Inherited, Outcomes

LEMMA InheritedOneEach ==
  ASSUME NEW op \in Op, OneEach(Replicas(op.shape.owner)), op.base # None => OneEach(op.base.replicas), OutcomesApart(op)
  PROVE  OneEach(Inherited(op))
  <1> SUFFICES ASSUME NEW r \in Inherited(op), NEW x \in Inherited(op), r.key = x.key  PROVE r = x
    BY DEF OneEach
  <1> DEFINE New(y) == \E n \in LandedAt(op) : y = Installed(op, n)
             Remains(y) == /\ \A n \in LandedAt(op) : op.outcomes[n].key # y.key
                        /\ \/ owners[op.shape.owner] # None /\ y \in Replicas(op.shape.owner)
                           \/ owners[op.shape.owner] = None /\ op.base # None /\ y \in op.base.replicas
  <1>1. (New(r) \/ Remains(r)) /\ (New(x) \/ Remains(x))
    BY InheritedParts
  <1>2. CASE New(r) /\ New(x)
    BY <1>2 DEF OutcomesApart, Installed, LandedAt
  <1>3. CASE Remains(r) /\ Remains(x)
    BY <1>3 DEF OneEach
  <1>4. \A y : New(y) => \E n \in LandedAt(op) : op.outcomes[n].key = y.key
    BY DEF Installed
  <1> QED  BY <1>1, <1>2, <1>3, <1>4

ReplicasOneEach ==
  /\ \A o \in Owners : OneEach(Replicas(o))
  /\ \A i \in DOMAIN ops : Started(i) => OneEach(ops[i].base.replicas)

LEMMA OneEachStep ==
  ASSUME NamesInv, TargetsApart, ReplicasOneEach, [Next]_vars
  PROVE  ReplicasOneEach'
  <1>0. ShapeInv /\ TypeOK
    BY DEF NamesInv, AlignedInv, ShapeInv
  <1>1. ASSUME NEW o \in Owners  PROVE OneEach(Replicas(o)')
    <2>1. CASE Replicas(o)' = Replicas(o)
      BY <1>1, <2>1 DEF ReplicasOneEach
    <2>2. CASE Complete /\ work # None /\ Replicas(o)' = Result(work.op)
      <3>1. work.at \in Locked
        BY <2>2 DEF Complete, At, Locked
      <3>2. work.op \in Op /\ work.op.base # None /\ work.id \in DOMAIN ops /\ Alike(work.op, ops[work.id])
        BY <1>0, <2>2, <3>1, AtWork
      <3>3. OneEach(work.op.base.replicas) /\ OutcomesApart(work.op)
        BY <3>2, Apart DEF ReplicasOneEach, Started, Alike, OutcomesApart
      <3> QED  BY <2>2, <3>2, <3>3, ResultOneEach
    <2>3. CASE \E r \in Replicas(o) : /\ r \in Replica
                                      /\ Replicas(o)' = (Replicas(o) \ {r}) \cup {[r EXCEPT !.managed = TRUE]}
      <3>1. PICK r \in Replicas(o) : r \in Replica /\ Replicas(o)' = (Replicas(o) \ {r}) \cup {[r EXCEPT !.managed = TRUE]}
        BY <2>3
      <3> DEFINE y == [r EXCEPT !.managed = TRUE]
      <3>2. y.key = r.key
        BY <3>1 DEF Replica
      <3>3. Replicas(o)' = (Replicas(o) \ {r}) \cup {y}
        BY <3>1
      <3> HIDE DEF y
      <3>4. OneEach(Replicas(o))
        BY <1>1 DEF ReplicasOneEach
      <3> QED  BY <3>2, <3>3, <3>4 DEF OneEach
    <2>4. CASE \E r \in NewReceipts : \E i \in Open : o = ops[i].shape.owner /\ Replicas(o)' = Inherited(ops[i])
      <3>1. PICK i \in Open : o = ops[i].shape.owner /\ Replicas(o)' = Inherited(ops[i])
        BY <2>4
      <3>2. i \in DOMAIN ops /\ ops[i] \in Op
        BY <1>0, OpIds DEF Open
      <3>3. OneEach(Replicas(ops[i].shape.owner)) /\ (ops[i].base # None => OneEach(ops[i].base.replicas)) /\ OutcomesApart(ops[i])
        BY <1>1, <3>1, <3>2, Apart DEF ReplicasOneEach, Started
      <3> QED  BY <3>1, <3>2, <3>3, InheritedOneEach
    <2> QED  BY <1>0, <1>1, <2>1, <2>2, <2>3, <2>4, ReplicasStep DEF Rewritten
  <1>2. ASSUME NEW i \in DOMAIN ops', ops'[i].base # None  PROVE OneEach(ops'[i].base.replicas)
    <2>1. i \in DOMAIN ops
      BY <1>0, <1>2, NewRowFields
    <2>2. CASE ops'[i].base = ops[i].base
      BY <1>2, <2>1, <2>2 DEF ReplicasOneEach, Started
    <2>3. CASE ops'[i].base = Entry(ops[i].shape.owner)
      <3>1. ops[i].shape.owner \in Owners
        BY <1>0, <2>1, OpIds, OpFields
      <3> QED  BY <2>3, <3>1 DEF ReplicasOneEach, Replicas
    <2> QED  BY <1>0, <2>1, <2>2, <2>3, RowStep DEF RowKept
  <1> QED  BY <1>1, <1>2 DEF ReplicasOneEach, Started, OneEach

-----------------------------------------------------------------------------
(***************************************************************************)
(* Layer 3: until the operation completes, the ledger keeps what it started *)
(* from, except where it placed a destination                               *)
(***************************************************************************)
InLedger(o, r) == \E x \in Replicas(o) : x.key = r.key /\ x.content = r.content

BaseKept ==
  \A i \in DOMAIN ops : Live(i) /\ Started(i) =>
    \A r \in ops[i].base.replicas : r.key \notin Outcomes(ops[i]) => InLedger(ops[i].shape.owner, r)

LEMMA OutcomesGrow ==
  ASSUME AlignedInv, [Next]_vars, NEW i \in DOMAIN ops
  PROVE  Outcomes(ops[i]) \subseteq Outcomes(ops'[i])
  <1> SUFFICES ASSUME NEW n \in DOMAIN ops[i].outcomes
               PROVE  n \in DOMAIN ops'[i].outcomes /\ ops'[i].outcomes[n].key = ops[i].outcomes[n].key
    BY DEF Outcomes
  <1> QED  BY OutcomesStep

LEMMA InheritedKeeps ==
  ASSUME LineInv, Fresh, BaseUnknown, BaseKept, NEW j \in Open, NEW i \in DOMAIN ops, Live(i), Started(i),
         ops[i].shape.owner = ops[j].shape.owner,
         NEW r \in ops[i].base.replicas, r.key \notin Outcomes(ops[i])
  PROVE  \E x \in Inherited(ops[j]) : x.key = r.key /\ x.content = r.content
  <1>0. ShapeInv /\ TypeOK
    BY DEF LineInv, AlignedInv, ShapeInv
  <1>1. j \in DOMAIN ops /\ Live(j) /\ ops[j] \in Op /\ i \in Nat /\ j \in Nat
    BY <1>0, OpIds DEF Open, Live
  <1>2. owners[ops[j].shape.owner] # None
    BY DEF BaseUnknown
  <1>3. PICK x \in Replicas(ops[j].shape.owner) : x.key = r.key /\ x.content = r.content
    BY DEF BaseKept, InLedger
  <1>4. ~(j < i)
    BY <1>1 DEF Fresh
  <1>5. CASE i = j
    BY <1>2, <1>3, <1>5, InheritedHas
  <1>6. CASE i < j
    <2>1. ops[j].base = None
      BY <1>1, <1>6 DEF Fresh, Started
    <2>2. Outcomes(ops[j]) = {}
      BY <1>0, <1>1, <2>1 DEF ShapeInv, JournalShaped, Outcomes
    <2> QED  BY <1>2, <1>3, <2>2, InheritedHas
  <1> QED  BY <1>1, <1>4, <1>5, <1>6

LEMMA BaseKeptStep ==
  ASSUME LineInv, Fresh, BaseUnknown, BaseKept, [Next]_vars
  PROVE  BaseKept'
  <1>0. ShapeInv /\ AlignedInv /\ TypeOK
    BY DEF LineInv, AlignedInv, ShapeInv
  <1> SUFFICES ASSUME NEW i \in DOMAIN ops', Live(i)', ops'[i].base # None,
                      NEW r \in ops'[i].base.replicas, r.key \notin Outcomes(ops'[i])
               PROVE  InLedger(ops[i].shape.owner, r)'
    BY DEF BaseKept, Started
  <1>1. i \in DOMAIN ops
    BY <1>0, NewRowFields
  <1>2. Live(i) /\ ~(Complete /\ i = work.id)
    BY <1>0, <1>1, LiveStep
  <1>3. PICK o \in Owners : o = ops[i].shape.owner /\ o = ops'[i].shape.owner
    BY <1>0, <1>1, Grows DEF SamePlan
  <1>4. SUFFICES \E x \in Replicas(o)' : x.key = r.key /\ x.content = r.content
    BY <1>3 DEF InLedger
  <1>5. CASE Begin /\ work # None /\ i = work.id /\ ops[i].base = None /\ ops'[i].base = Entry(ops[i].shape.owner)
    <2>1. owners' = owners
      BY <1>5 DEF Begin, Rest
    <2>2. Replicas(o)' = Replicas(o)
      BY <2>1 DEF Replicas, Entry
    <2> QED  BY <1>3, <1>5, <2>2 DEF Replicas
  <1>6. CASE ops'[i].base = ops[i].base
    <2>1. Started(i) /\ r \in ops[i].base.replicas /\ r.key \notin Outcomes(ops[i])
      BY <1>0, <1>1, <1>6, OutcomesGrow DEF Started
    <2>2. PICK x \in Replicas(o) : x.key = r.key /\ x.content = r.content
      BY <1>1, <1>2, <1>3, <2>1 DEF BaseKept, InLedger
    <2>3. CASE Replicas(o)' = Replicas(o)
      BY <2>2, <2>3
    <2>4. CASE Complete /\ work # None /\ o = work.op.shape.owner
      <3>1. work.id \in DOMAIN ops /\ Executing /\ work.op.shape = ops[work.id].shape
        BY <1>0, <2>4, Completed
      <3>2. i \in Nat /\ work.id \in Nat
        BY <1>0, <1>1, <3>1, OpIds
      <3>3. CASE i < work.id
        BY <1>1, <1>2, <1>3, <2>4, <3>1, <3>3 DEF LineInv, PassInLine, Live
      <3>4. CASE work.id < i
        BY <1>1, <1>3, <2>1, <2>4, <3>1, <3>4 DEF Fresh, Live
      <3> QED  BY <1>2, <2>4, <3>2, <3>3, <3>4
    <2>5. CASE \E s \in Replicas(o) : /\ s \in Replica
                                      /\ Replicas(o)' = (Replicas(o) \ {s}) \cup {[s EXCEPT !.managed = TRUE]}
      <3>1. PICK s \in Replicas(o) : s \in Replica /\ Replicas(o)' = (Replicas(o) \ {s}) \cup {[s EXCEPT !.managed = TRUE]}
        BY <2>5
      <3> DEFINE y == [s EXCEPT !.managed = TRUE]
      <3>2. y.key = s.key /\ y.content = s.content
        BY <3>1 DEF Replica
      <3>3. Replicas(o)' = (Replicas(o) \ {s}) \cup {y}
        BY <3>1
      <3> HIDE DEF y
      <3> QED  BY <2>2, <3>2, <3>3
    <2>6. CASE \E j \in Open : o = ops[j].shape.owner /\ Replicas(o)' = Inherited(ops[j])
      BY <1>1, <1>2, <1>3, <2>1, <2>6, InheritedKeeps
    <2> QED  BY <1>0, <2>3, <2>4, <2>5, <2>6, ReplicasStep DEF Rewritten
  <1> QED  BY <1>0, <1>1, <1>5, <1>6, RowStep DEF RowKept

-----------------------------------------------------------------------------
(***************************************************************************)
(* Layer 4: the executor touches no endpoint of another owner               *)
(***************************************************************************)
OwnOnly(k) == \A o \in Owners \ {work.op.shape.owner} : \A r \in Replicas(o) : r.key # k

\* The executor is about to take away or to replace a file it found at a target.
Replacement == work.at \in {"retain", "capture", "replace"} \/ (work.at = "write" /\ work.found # Absent)

AloneAt ==
  /\ work # None /\ work.at \in {"ask", "keep", "unlink", "delete", "drop"} => OwnOnly(work.key)
  /\ work # None /\ Replacement => OwnOnly(Chosen.key)

\* A step of the file backend asks nothing: it goes on where its operation may.
LEMMA SwapMove ==
  ASSUME ShapeInv, Swap, work' # None
  PROVE  /\ work # None /\ work \in Work /\ work.at \in Locked
         /\ work'.id = work.id /\ work'.op = work.op /\ work'.n = work.n /\ UNCHANGED <<ops, owners, lock, spent>>
         /\ \/ work'.at \in {"publish", "verify", "retire", "restore"}
            \/ Replacement /\ work'.at \in {"retain", "capture", "replace"}
            \/ work.at = "keep" /\ work'.at \in {"unlink", "delete"} /\ work'.key = work.key
  <1>1. /\ work # None /\ work \in Work /\ work.at \in Locked /\ UNCHANGED <<owners, spent>> /\ ~Block
    BY SwapFrame, AtWork DEF Block, Leave
  <1>2. work'.id = work.id /\ work'.op = work.op /\ work'.n = work.n /\ UNCHANGED <<ops, lock>>
    BY <1>1, SwapStep
  <1>3. CASE Write \/ Publish \/ Replace
    BY <1>1, <1>2, <1>3 DEF Write, Publish, Replace, Publishes, At, Replacement, Work
  <1>4. CASE Retain \/ Keep
    BY <1>1, <1>2, <1>4 DEF Retain, Keep, Retained, At, Replacement, Work
  <1>5. CASE Capture \/ Unlink \/ Delete \/ Restore
    BY <1>1, <1>2, <1>5 DEF Capture, Unlink, Delete, Restore, Captured, Gone, At, Work
  <1> QED  BY <1>1, <1>2, <1>3, <1>4, <1>5 DEF Swap

LEMMA Unclaimed ==
  ASSUME ShapeInv, work # None, work.at \in Locked, NEW k, ~OtherClaims(work.id, k)
  PROVE  OwnOnly(k)
  <1>1. work.op.shape = ops[work.id].shape
    BY AtWork DEF Alike
  <1> QED  BY <1>1 DEF OtherClaims, OwnOnly

\* While the executor holds the lock, the ledgers of the other owners stay.
LEMMA OthersKept ==
  ASSUME ShapeInv, [Next]_vars, work # None, work.at \in Locked, NEW o \in Owners, o # work.op.shape.owner
  PROVE  Replicas(o)' = Replicas(o)
  <1>1. lock = "executor"
    BY AtWork
  <1>2. ~(\E r \in Replicas(o) : Adopt(o, r))
    BY <1>1 DEF Adopt
  <1>3. ~(\E r \in NewReceipts : \E i \in Open : Supersede(i, r))
    BY <1>1 DEF Supersede
  <1> QED  BY <1>2, <1>3, ReplicasStep DEF Rewritten

LEMMA OwnOnlyKept ==
  ASSUME ShapeInv, [Next]_vars, work # None, work.at \in Locked, NEW k, OwnOnly(k),
         work' # None, work'.op.shape = work.op.shape
  PROVE  \A o \in Owners \ {work'.op.shape.owner} : \A r \in Replicas(o)' : r.key # k
  BY OthersKept DEF OwnOnly

\* The steps after which the executor is about to write or to remove something,
\* each with the question it has just asked.
Harmless == {"queued", "stage", "staged", "target", "publish", "verify", "restore", "retire", "check", "release", "clean"}

Asked ==
  \/ /\ Inspect /\ work.at = "target" /\ More /\ Resolved /\ ~Refused(disk[Chosen.key])
     /\ work' = [work EXCEPT !.at = "write", !.found = disk[Chosen.key]]
  \/ /\ Retire /\ work.at = "retire"
     /\ \E k \in work.left : Retires(k) /\ disk[k] = Old(k).content /\ work' = [work EXCEPT !.at = "ask", !.key = k]
  \/ Ask /\ work.at = "ask" /\ Idle(work.id, work.key) /\ work' = [work EXCEPT !.at = "keep"]
  \/ /\ Release /\ work.at = "release"
     /\ \E k \in work.left : ~OtherClaims(work.id, k) /\ Released(k) /\ work' = [work EXCEPT !.at = "drop", !.key = k]
  \/ Clean /\ work.at = "clean" /\ \E p \in Leftover : work' = [work EXCEPT !.at = "dropingress", !.pin = p]
  \/ /\ Clean /\ work.at = "clean" /\ Settled(work.id) /\ work.op.pin # 0 /\ ~PinInUse(work.op.pin)
     /\ work' = [work EXCEPT !.at = "droppin"]

LEMMA AskedStep ==
  ASSUME AlignedInv, [Next]_vars, work' # None, work' # work
  PROVE  \/ work'.at \in Harmless
         \/ work # None /\ work \in Work /\ UNCHANGED <<ops, owners, disk, lock>> /\ Asked
         \/ Swap
  <1>0. ShapeInv
    BY DEF AlignedInv
  <1>1. CASE Visit
    <2>1. work' = Begun(Row, "clean") \/ work' = [Begun(Row, "queued") EXCEPT !.op.state = "running"]
      BY <1>1 DEF Visit
    <2> QED  BY <2>1 DEF Begun, Harmless
  <1>2. CASE Begin \/ Stage \/ StageVerify \/ Placed \/ Retired \/ Check \/ Drop
    <2>1. work # None /\ work \in Work
      BY <1>0, <1>2, WorkFields DEF Begin, Stage, StageVerify, Placed, Retired, Check, Drop, At, ShapeInv, TypeOK
    <2>2. CASE Begin
      BY <2>1, <2>2 DEF Begin, Save, Work, Harmless
    <2>3. CASE Stage
      BY <1>2, <2>1, <2>3 DEF Stage, Save, Block, Leave, Work, Harmless
    <2>4. CASE StageVerify
      BY <1>2, <2>1, <2>4 DEF StageVerify, Save, Block, Leave, Work, Harmless
    <2>5. CASE Placed
      BY <2>1, <2>5 DEF Placed, Save, Work, Harmless
    <2>6. CASE Retired \/ Drop
      BY <1>2, <2>1, <2>6 DEF Retired, Drop, Work, Harmless
    <2>7. CASE Check
      BY <1>2, <2>1, <2>7 DEF Check, At, Block, Leave, Work, Harmless
    <2> QED  BY <1>2, <2>2, <2>3, <2>4, <2>5, <2>6, <2>7
  <1>3. CASE Resolve
    <2>1. work # None /\ work.at = "target" /\ More /\ ~Resolved /\ \E x \in Outcome : Record(x)
      BY <1>0, <1>3, ResolveStep DEF Block, Leave
    <2> QED  BY <1>0, <2>1, RecordAligned DEF AlignedInv, Harmless
  <1>4. CASE Inspect
    <2>0. /\ work # None /\ work.at = "target" /\ work.at \in Locked /\ More /\ Resolved
          /\ work.n \in DOMAIN work.op.outcomes
      BY <1>0, <1>4, AtTarget DEF Inspect, At, Locked
    <2>1. work \in Work
      BY <1>0, <2>0, AtWork
    <2>2. CASE Verified
      BY <1>0, <2>0, <2>2, VerifiedAligned DEF AlignedInv, Harmless
    <2> QED  BY <1>4, <2>0, <2>1, <2>2 DEF Inspect, Block, Leave, Asked
  <1>5. CASE Verify
    <2>0. work # None /\ work.at = "verify" /\ work.n \in DOMAIN work.op.outcomes
      BY <1>0, <1>5, AtWrite DEF Verify, At
    <2>1. Verified
      BY <1>5 DEF Verify, Block, Leave
    <2> QED  BY <1>0, <2>0, <2>1, VerifiedAligned DEF AlignedInv, Harmless
  <1>6. CASE Retire
    <2>1. work # None /\ work \in Work /\ work.at = "retire"
      BY <1>0, <1>6, WorkFields DEF Retire, At, ShapeInv, TypeOK
    <2>2. CASE \E k \in work.left : work' = [work EXCEPT !.left = @ \ {k}]
      BY <2>1, <2>2 DEF Work, Harmless
    <2> QED  BY <1>6, <2>1, <2>2 DEF Retire, Rest, Block, Leave, Asked
  <1>7. CASE Ask
    <2>1. work # None /\ work \in Work /\ work.at = "ask"
      BY <1>0, <1>7, WorkFields DEF Ask, At, ShapeInv, TypeOK
    <2> QED  BY <1>7, <2>1 DEF Ask, Rest, Block, Leave, Asked
  <1>8. CASE Release
    <2>1. work # None /\ work \in Work /\ work.at = "release"
      BY <1>0, <1>8, WorkFields DEF Release, At, ShapeInv, TypeOK
    <2>2. CASE \E k \in work.left : work' = [work EXCEPT !.left = @ \ {k}]
      BY <2>1, <2>2 DEF Work, Harmless
    <2> QED  BY <1>8, <2>1, <2>2 DEF Release, Rest, Block, Leave, Asked
  <1>9. CASE Complete \/ DropIngress \/ DropPin
    <2>1. work # None /\ work \in Work
      BY <1>0, <1>9, WorkFields DEF Complete, DropIngress, DropPin, At, ShapeInv, TypeOK
    <2> QED  BY <1>9, <2>1 DEF Complete, Save, DropIngress, DropPin, Done, Work, Harmless
  <1>10. CASE Clean
    <2>1. work # None /\ work \in Work /\ work.at = "clean"
      BY <1>0, <1>10, WorkFields DEF Clean, At, ShapeInv, TypeOK
    <2> QED  BY <1>10, <2>1 DEF Clean, Done, Asked
  <1> QED  BY <1>1, <1>2, <1>3, <1>4, <1>5, <1>6, <1>7, <1>8, <1>9, <1>10, WorkStep DEF Executor

\* The executor keeps its operation while it goes on.
LEMMA AloneAtStep ==
  ASSUME AlignedInv, AloneAt, [Next]_vars
  PROVE  AloneAt'
  <1>0. ShapeInv
    BY DEF AlignedInv
  <1>1. CASE work' = None \/ (work' # None /\ work'.at \in Harmless)
    BY <1>1 DEF AloneAt, Replacement, Harmless
  <1>2. CASE work' = work /\ work # None
    <2>1. ASSUME NEW k, work.at \in Locked, OwnOnly(k)  PROVE OwnOnly(k)'
      BY <1>0, <1>2, <2>1, OwnOnlyKept DEF OwnOnly
    <2> QED  BY <1>2, <2>1 DEF AloneAt, Replacement, Chosen, Locked
  <1>3. CASE work # None /\ work' # None /\ work \in Work /\ UNCHANGED <<ops, owners, disk, lock>> /\ Asked
    <2>1. ASSUME NEW k, OwnOnly(k), work'.op = work.op  PROVE OwnOnly(k)'
      BY <1>3, <2>1 DEF OwnOnly, Replicas, Entry
    <2>2. CASE /\ Inspect /\ work.at = "target" /\ ~Refused(disk[Chosen.key])
               /\ work' = [work EXCEPT !.at = "write", !.found = disk[Chosen.key]]
      <3>1. work'.op = work.op /\ work'.n = work.n /\ work'.found = disk[Chosen.key] /\ work'.at = "write"
        BY <1>3, <2>2 DEF Work
      <3>2. disk[Chosen.key] # Absent => OwnOnly(Chosen.key)
        BY <1>0, <1>3, <2>2, Unclaimed DEF Refused, Locked
      <3> QED  BY <2>1, <3>1, <3>2 DEF AloneAt, Replacement, Chosen
    <2>3. CASE Retire /\ work.at = "retire" /\ \E k \in work.left : Retires(k) /\ work' = [work EXCEPT !.at = "ask", !.key = k]
      <3>1. PICK k \in work.left : Retires(k) /\ work' = [work EXCEPT !.at = "ask", !.key = k]
        BY <2>3
      <3>2. work'.op = work.op /\ work'.key = k /\ work'.at = "ask"
        BY <1>3, <3>1 DEF Work
      <3>3. OwnOnly(k)
        BY <1>0, <1>3, <2>3, <3>1, Unclaimed DEF Retires, Locked
      <3> QED  BY <2>1, <3>2, <3>3 DEF AloneAt, Replacement
    <2>4. CASE work.at = "ask" /\ work' = [work EXCEPT !.at = "keep"]
      <3>1. work'.op = work.op /\ work'.key = work.key /\ work'.at = "keep"
        BY <1>3, <2>4 DEF Work
      <3> QED  BY <1>3, <2>1, <2>4, <3>1 DEF AloneAt, Replacement
    <2>5. CASE /\ Release /\ work.at = "release"
               /\ \E k \in work.left : ~OtherClaims(work.id, k) /\ work' = [work EXCEPT !.at = "drop", !.key = k]
      <3>1. PICK k \in work.left : ~OtherClaims(work.id, k) /\ work' = [work EXCEPT !.at = "drop", !.key = k]
        BY <2>5
      <3>2. work'.op = work.op /\ work'.key = k /\ work'.at = "drop"
        BY <1>3, <3>1 DEF Work
      <3>3. OwnOnly(k)
        BY <1>0, <1>3, <2>5, <3>1, Unclaimed DEF Locked
      <3> QED  BY <2>1, <3>2, <3>3 DEF AloneAt, Replacement
    <2>6. CASE Clean /\ \/ \E p \in Leftover : work' = [work EXCEPT !.at = "dropingress", !.pin = p]
                        \/ work' = [work EXCEPT !.at = "droppin"]
      <3>1. work'.at \in {"dropingress", "droppin"}
        BY <1>3, <2>6 DEF Work
      <3> QED  BY <3>1 DEF AloneAt, Replacement
    <2> QED  BY <1>3, <2>2, <2>3, <2>4, <2>5, <2>6 DEF Asked
  <1>4. CASE Swap /\ work' # None /\ work'.at \notin Harmless
    <2>1. /\ work # None /\ work'.op = work.op /\ work'.n = work.n /\ UNCHANGED owners
          /\ \/ Replacement /\ work'.at \in {"retain", "capture", "replace"}
             \/ work.at = "keep" /\ work'.at \in {"unlink", "delete"} /\ work'.key = work.key
      BY <1>0, <1>4, SwapMove DEF Harmless
    <2>2. ASSUME NEW k, OwnOnly(k)  PROVE OwnOnly(k)'
      BY <2>1, <2>2 DEF OwnOnly, Replicas, Entry
    <2> QED  BY <2>1, <2>2 DEF AloneAt, Replacement, Chosen
  <1> QED  BY <1>1, <1>2, <1>3, <1>4, AskedStep

-----------------------------------------------------------------------------
(***************************************************************************)
(* Layer 5: the ledger holds                                                *)
(***************************************************************************)
\* An unfinished operation of the owner explains what the endpoint holds.
Explains(i, o, k) ==
  /\ ops[i].shape.owner = o /\ ops[i].state # "complete"
  /\ \/ Holds(i, k)
     \/ /\ Cleared(i, k)
        /\ disk[k] = Absent \/ \E j \in DOMAIN ops : ops[j].shape.owner # o /\ Holds(j, k)

True(o, r) == disk[r.key] = r.content \/ touched[r.key] \/ \E i \in DOMAIN ops : Explains(i, o, r.key)

LedgerInv ==
  /\ LandedInv /\ LineInv
  /\ Fresh /\ BaseUnknown /\ ReplicasOneEach /\ BaseKept /\ AloneAt
  /\ LedgerHolds

\* An operation whose outcomes are all verified writes no other.
LEMMA VerifiedKept ==
  ASSUME AlignedInv, [Next]_vars, NEW i \in DOMAIN ops, AllVerified(ops[i])
  PROVE  /\ AllVerified(ops'[i]) /\ Outcomes(ops'[i]) = Outcomes(ops[i])
         /\ SamePlan(ops[i], ops'[i]) /\ ops'[i].base = ops[i].base
  <1>0. ShapeInv
    BY DEF AlignedInv
  <1>1. /\ ops[i].base # None /\ Len(ops[i].outcomes) = Len(ops[i].shape.targets)
        /\ \A n \in DOMAIN ops[i].outcomes : ops[i].outcomes[n].verified
    BY DEF AllVerified
  <1>2. SamePlan(ops[i], ops'[i]) /\ ops'[i].base = ops[i].base
    BY <1>0, <1>1, RowStep DEF RowKept
  <1>3. ops[i] \in Op /\ ops'[i] \in Op /\ i \in DOMAIN ops'
    <2>1. i \in DOMAIN ops' /\ ops' \in Seq(Op)
      BY <1>0, Grows, NextShape DEF ShapeInv, TypeOK
    <2> QED  BY <1>0, <2>1, OpIds, ElementOfSeq DEF ShapeInv
  <1>4. /\ DOMAIN ops'[i].outcomes = DOMAIN ops[i].outcomes
        /\ \A n \in DOMAIN ops[i].outcomes : ops'[i].outcomes[n].key = ops[i].outcomes[n].key /\ ops'[i].outcomes[n].verified
    <2>1. \A n \in DOMAIN ops[i].shape.targets : n \in DOMAIN ops[i].outcomes
      BY <1>1, <1>3, OpFields
    <2>2. CASE ops'[i].outcomes = ops[i].outcomes
      BY <1>1, <2>2
    <2>3. CASE /\ DOMAIN ops'[i].outcomes = DOMAIN ops[i].outcomes
               /\ \A m \in DOMAIN ops[i].outcomes :
                    LET x == ops[i].outcomes[m]  y == ops'[i].outcomes[m] IN
                    /\ y.key = x.key /\ (m # work.n => y = x) /\ (m = work.n => y.verified)
      BY <1>1, <2>3
    <2> QED  BY <2>1, <2>2, <2>3, OutcomesStep
  <1>5. Len(ops'[i].outcomes) = Len(ops[i].outcomes)
    BY <1>3, <1>4, LenProperties, OpFields
  <1>6. Outcomes(ops'[i]) = Outcomes(ops[i])
    BY <1>4 DEF Outcomes
  <1>7. AllVerified(ops'[i])
    BY <1>1, <1>2, <1>4, <1>5 DEF AllVerified, SamePlan
  <1> QED  BY <1>2, <1>6, <1>7

\* A step keeps the plan of a row, and what the plan has verified.
LEMMA LeavesKept ==
  ASSUME AlignedInv, [Next]_vars, NEW i \in DOMAIN ops, NEW k, Leaves(ops[i], k)
  PROVE  Leaves(ops'[i], k)
  <1>1. AllVerified(ops[i])
    BY DEF Leaves
  <1> QED  BY <1>1, VerifiedKept DEF Leaves, SamePlan, ReleaseKeys

\* An item leaves the trash only when its file goes back.
LEMMA TrashStep ==
  ASSUME ShapeInv, [Next]_vars
  PROVE  trash \subseteq trash' \/ \E x \in Keys : PutsBack(x)
  <1>1. CASE Callers
    BY <1>1 DEF Callers, Submit, Supersede, Retry, EditCapture, Adopt
  <1>2. CASE Environment
    BY <1>2 DEF Environment, Foreign, Transient, Crash
  <1>3. CASE StartPass \/ Visit \/ Begin \/ Complete
    BY <1>3 DEF StartPass, Visit, Begin, Complete
  <1>4. CASE Stage \/ StageVerify \/ Resolve \/ Inspect \/ Verify \/ Placed
    BY <1>4 DEF Stage, StageVerify, Resolve, Inspect, Verify, Placed
  <1>5. CASE Retire \/ Ask \/ Retired \/ Check \/ Release \/ Drop
    BY <1>5 DEF Retire, Ask, Retired, Check, Release, Drop
  <1>6. CASE Clean \/ DropIngress \/ DropPin
    BY <1>6 DEF Clean, DropIngress, DropPin
  <1>7. CASE EditTake \/ EditPlace \/ EditCommit \/ (\E p \in DOMAIN ingress : Reclaim(p)) \/ \E i \in DOMAIN ops : Elapse(i)
    BY <1>7 DEF EditTake, EditPlace, EditCommit, Reclaim, Elapse
  <1>8. CASE EditRefused
    <2>1. Edited.key \in Keys
      BY <1>8, EditFields DEF EditRefused, Edited
    <2> QED  BY <1>8, <2>1 DEF EditRefused, PutsBack
  <1>9. CASE UNCHANGED vars
    BY <1>9 DEF vars
  <1>10. CASE Write \/ Publish \/ Replace \/ Retain \/ Keep \/ Delete
    BY <1>10 DEF Write, Publish, Replace, Publishes, Retain, Keep, Retained, Delete
  <1>11. CASE Capture \/ Unlink
    BY <1>11 DEF Capture, Unlink, Captured
  <1>12. CASE Restore
    <2>1. work.key \in Keys
      BY <1>12 DEF Restore, At, ShapeInv, WorkShaped
    <2> QED  BY <1>12, <2>1 DEF Restore, PutsBack
  <1> QED  BY <1>1, <1>2, <1>3, <1>4, <1>5, <1>6, <1>7, <1>8, <1>9, <1>10, <1>11, <1>12 DEF Next, Executor, Swap, Edit

LEMMA TrashKept ==
  ASSUME ShapeInv, [Next]_vars, NEW k \in Keys, disk'[k] = disk[k], NEW i, InTrash(i, k)
  PROVE  InTrash(i, k)'
  <1>1. PICK t \in trash : t.key = k /\ t.op = i
    BY DEF InTrash
  <1>2. CASE trash \subseteq trash'
    BY <1>1, <1>2 DEF InTrash
  <1>3. CASE \E x \in Keys : PutsBack(x)
    <2>1. PICK x \in Keys, b \in trash : /\ disk[x] = Absent /\ b.key = x
                                         /\ disk' = [disk EXCEPT ![x] = b.content] /\ trash' = trash \ {b}
      BY <1>3 DEF PutsBack
    <2>2. b.content # Absent /\ disk \in [Keys -> Bytes]
      BY NoneAssumption DEF ShapeInv, TypeOK, Item
    <2>3. x # k
      BY <2>1, <2>2
    <2> QED  BY <1>1, <2>1, <2>3 DEF InTrash
  <1> QED  BY <1>2, <1>3, TrashStep

\* Where no step changes the endpoint, an explanation stays one, until its
\* operation completes.
LEMMA ExplanationKept ==
  ASSUME AlignedInv, [Next]_vars, NEW o \in Owners, NEW k \in Keys, disk'[k] = disk[k],
         NEW i \in DOMAIN ops, Explains(i, o, k), ~(Complete /\ i = work.id)
  PROVE  Explains(i, o, k)'
  <1>0. ShapeInv
    BY DEF AlignedInv
  <1>1. /\ i \in DOMAIN ops' /\ ops'[i].shape.owner = o /\ ops'[i].state # "complete"
    BY <1>0, RowStep DEF RowKept, Explains, SamePlan
  <1>2. ASSUME NEW j \in DOMAIN ops, Holds(j, k)
        PROVE  Holds(j, k)' /\ j \in DOMAIN ops' /\ ops'[j].shape.owner = ops[j].shape.owner
    BY <1>0, <1>2, OutcomesGrow, RowStep DEF RowKept, SamePlan, Holds
  <1>3. Cleared(i, k) => Cleared(i, k)'
    BY <1>0, LeavesKept, OutcomesGrow, TrashKept DEF Cleared
  <1> QED  BY <1>1, <1>2, <1>3 DEF Explains

\* What is true of a replica stays true, or the operation whose work it is
\* completes and rewrites the replicas.
LEMMA StaysTrue ==
  ASSUME LedgerInv, StagingApart, [Next]_vars, NEW o \in Owners, NEW r \in Replicas(o),
         ~(Complete /\ work # None /\ o = work.op.shape.owner)
  PROVE  True(o, r)'
  <1>0. /\ NamesInv /\ AlignedInv /\ ShapeInv /\ TypeOK /\ AloneAt /\ disk \in [Keys -> Bytes] /\ touched \in [Keys -> BOOLEAN]
    BY DEF LedgerInv, LandedInv, NamesInv, AlignedInv, ShapeInv, TypeOK
  <1>1. r \in Replica /\ r.key \in Keys /\ r.content # Absent
    <2>1. r \in Replica
      BY <1>0, EntryType
    <2> QED  BY <2>1, NoneAssumption DEF Replica
  <1>2. True(o, r)
    BY DEF LedgerInv, LedgerHolds, True, Explains
  <1>3. PICK k \in Keys : k = r.key
    BY <1>1
  <1>4. ASSUME disk'[k] = disk[k], touched'[k] = touched[k]  PROVE True(o, r)'
    <2>1. CASE disk[k] = r.content \/ touched[k]
      BY <1>3, <1>4, <2>1 DEF True
    <2>2. CASE \E i \in DOMAIN ops : Explains(i, o, k)
      <3>1. PICK i \in DOMAIN ops : Explains(i, o, k)
        BY <2>2
      <3>2. ~(Complete /\ i = work.id)
        <4>1. Complete => work # None /\ work.op.shape = ops[work.id].shape
          BY <1>0, Completed
        <4> QED  BY <3>1, <4>1 DEF Explains
      <3>3. Explains(i, o, k)'
        BY <1>0, <1>4, <3>1, <3>2, ExplanationKept
      <3>4. i \in DOMAIN ops'
        BY <1>0, Grows
      <3> QED  BY <1>3, <3>3, <3>4 DEF True
    <2> QED  BY <1>2, <1>3, <2>1, <2>2 DEF True
  <1>5. CASE \E f \in ForeignKeys, b \in Bytes : Foreign(f, b)
    <2>1. PICK f \in ForeignKeys, b \in Bytes : Foreign(f, b)
      BY <1>5
    <2>2. disk' = [disk EXCEPT ![f] = b] /\ touched' = [touched EXCEPT ![f] = TRUE]
      BY <2>1 DEF Foreign
    <2>3. CASE k = f
      BY <1>0, <1>3, <2>2, <2>3 DEF True
    <2> QED  BY <1>0, <1>4, <2>2, <2>3
  <1>6. CASE EditTake \/ EditPlace
    <2>1. PICK b \in Bytes : disk' = [disk EXCEPT ![Edited.key] = b] /\ touched' = [touched EXCEPT ![Edited.key] = TRUE]
      <3>1. lock \in {"edit", "taken", "placed"}
        BY <1>6 DEF EditTake, EditPlace
      <3>2. Edited.content \in Bytes /\ Absent \in Bytes
        BY <1>0, <3>1, EditFields DEF Edited, Bytes
      <3> QED  BY <1>6, <3>2 DEF EditTake, EditPlace
    <2>2. CASE k = Edited.key
      BY <1>0, <1>3, <2>1, <2>2 DEF True
    <2> QED  BY <1>0, <1>4, <2>1, <2>2
  <1>10. ASSUME NEW x, PutsBack(x), touched[x], UNCHANGED touched  PROVE True(o, r)'
    <2>1. CASE k = x
      BY <1>3, <1>10, <2>1 DEF True
    <2>2. CASE k # x
      BY <1>0, <1>4, <1>10, <2>2 DEF PutsBack
    <2> QED  BY <2>1, <2>2
  <1>11. CASE EditRefused /\ lock = "taken" /\ PutsBack(Edited.key) /\ UNCHANGED touched
    BY <1>0, <1>10, <1>11 DEF AlignedInv, Watched
  <1>12. CASE Restore /\ PutsBack(work.key) /\ UNCHANGED touched
    BY <1>0, <1>10, <1>12 DEF AlignedInv, Watched, Restore, At
  <1>7. CASE Puts /\ UNCHANGED ops
    <2>0. /\ work # None /\ work.at \in Placing /\ work.at \in Locked
          /\ disk' = [disk EXCEPT ![Chosen.key] = staged[work.id]] /\ UNCHANGED <<ops, trash>>
          /\ touched' = [touched EXCEPT ![Chosen.key] = @ /\ OtherClaims(work.id, Chosen.key)]
          /\ work.at # "replace" => disk[Chosen.key] = Absent
      BY <1>7 DEF Puts, Publishes, Placing, Locked
    <2>1. /\ work.n \in DOMAIN work.op.outcomes /\ staged[work.id] = work.op.content /\ Chosen.key \in Keys
          /\ work.id \in DOMAIN ops /\ Alike(work.op, ops[work.id]) /\ ops[work.id].state # "complete"
      BY <1>0, <2>0, AtWrite, AtWork DEF Placing
    <2> PICK id \in DOMAIN ops : id = work.id
      BY <2>1
    <2>2. CASE k # Chosen.key
      BY <1>0, <1>4, <2>0, <2>2
    <2>3. CASE k = Chosen.key
      <3>1. Holds(id, k)'
        BY <1>0, <2>0, <2>1, <2>3 DEF Holds, Outcomes, Chosen, Alike
      <3>2. CASE o = work.op.shape.owner
        BY <1>3, <2>0, <2>1, <3>1, <3>2 DEF True, Explains, Alike
      <3>3. CASE o # work.op.shape.owner
        <4>1. disk[k] = Absent
          <5>1. work.at # "replace"
            BY <1>0, <1>3, <2>0, <2>3, <3>3 DEF AloneAt, Replacement, OwnOnly
          <5> QED  BY <2>0, <2>3, <5>1
        <4>2. OtherClaims(work.id, k)
          BY <1>3, <2>1, <3>3 DEF OtherClaims, Alike
        <4>3. CASE touched[k]
          BY <1>0, <1>3, <2>0, <2>3, <4>2, <4>3 DEF True
        <4>4. CASE \E i \in DOMAIN ops : Explains(i, o, k)
          <5>1. PICK i \in DOMAIN ops : Explains(i, o, k)
            BY <4>4
          <5>2. Cleared(i, k)
            <6>1. ops[i].content # Absent
              BY <1>0, OpIds, OpFields, NoneAssumption
            <6> QED  BY <4>1, <5>1, <6>1 DEF Explains, Holds
          <5>3. Explains(i, o, k)'
            <6>1. Cleared(i, k)'
              BY <2>0, <5>2 DEF Cleared, InTrash
            <6> QED  BY <2>0, <2>1, <3>1, <3>3, <5>1, <6>1 DEF Explains, Alike
          <5> QED  BY <1>3, <2>0, <5>3 DEF True
        <4> QED  BY <1>1, <1>2, <1>3, <4>1, <4>3, <4>4 DEF True
      <3> QED  BY <3>2, <3>3
    <2> QED  BY <2>2, <2>3
  <1>13. CASE Capture /\ Takes(Chosen.key) /\ UNCHANGED <<touched, ops>>
    <2>0. work # None /\ work.at = "capture" /\ work.at \in Locked
      BY <1>13 DEF Capture, At, Locked
    <2>1. /\ work.n \in DOMAIN work.op.outcomes /\ Chosen.key \in Keys
          /\ work.id \in DOMAIN ops /\ Alike(work.op, ops[work.id]) /\ ops[work.id].state # "complete"
      BY <1>0, <2>0, AtWrite, AtWork
    <2>2. CASE k # Chosen.key
      BY <1>0, <1>4, <1>13, <2>2 DEF Takes
    <2>3. CASE k = Chosen.key
      <3>1. o = work.op.shape.owner
        BY <1>0, <1>3, <2>0, <2>3 DEF AloneAt, Replacement, OwnOnly
      <3>2. k \in Outcomes(ops'[work.id]) /\ disk'[k] = Absent
        BY <1>0, <1>13, <2>1, <2>3 DEF Takes, Outcomes, Chosen, Alike
      <3> PICK id \in DOMAIN ops : id = work.id
        BY <2>1
      <3>3. \E t \in trash' : t.key = k /\ t.op = id
        <4>1. [key |-> k, content |-> disk[k], op |-> work.id, pin |-> 0] \in trash'
          BY <1>13, <2>3 DEF Takes
        <4> QED  BY <4>1
      <3>4. ops'[id].shape.owner = o /\ ops'[id].state # "complete" /\ Cleared(id, k)'
        BY <1>13, <2>1, <3>1, <3>2, <3>3 DEF Cleared, InTrash, Alike
      <3>5. Explains(id, o, k)'
        BY <3>2, <3>4 DEF Explains
      <3> QED  BY <1>3, <1>13, <3>5 DEF True
    <2> QED  BY <2>2, <2>3
  <1>8. CASE /\ Unlink \/ Delete \/ Drop
             /\ disk' = [disk EXCEPT ![work.key] = Absent] /\ UNCHANGED <<ops, touched>>
    <2>0. /\ work # None /\ work.at \in {"unlink", "delete", "drop"} /\ work.at \in Locked /\ work.at \in Past
          /\ (Unlink \/ Delete => work.at \in {"unlink", "delete"}) /\ (Drop => work.at = "drop")
      BY <1>8 DEF Unlink, Delete, Drop, At, Locked, Past
    <2>1. /\ work.id \in DOMAIN ops /\ Alike(work.op, ops[work.id]) /\ ops[work.id].state # "complete"
      BY <1>0, <2>0, AtWork
    <2> PICK id \in DOMAIN ops : id = work.id
      BY <2>1
    <2>2. AllVerified(ops[work.id])
      BY <1>0, <2>0, <2>1 DEF AlignedInv, Aligned, AllVerified, Alike
    <2>3. Leaves(ops[work.id], work.key) /\ work.key \in Keys
      <3>1. CASE Unlink \/ Delete
        <4>1. work.key \in Keys \ (Outcomes(work.op) \cup work.op.shape.preserve) /\ Mirrors(work.key) # {}
          BY <1>0, <2>0, <3>1 DEF ShapeInv, WorkShaped
        <4> QED  BY <2>1, <2>2, <4>1 DEF Leaves, Mirrors, Alike, Outcomes
      <3>2. CASE Drop
        <4>1. work.key \in ReleaseKeys(ops[work.id])
          BY <1>0, <2>0, <2>1, <3>2 DEF ShapeInv, WorkShaped, Alike, ReleaseKeys
        <4>2. work.key \notin Outcomes(ops[work.id])
          BY <1>0, <2>1, <4>1, StagingElsewhere DEF Outcomes
        <4>3. work.key \in Keys
          <5>1. \A l \in ops[work.id].release : l.key \in Keys
            BY <1>0, <2>1, OpIds, OpFields DEF Location
          <5> QED  BY <4>1, <5>1 DEF ReleaseKeys
        <4> QED  BY <2>2, <4>1, <4>2, <4>3 DEF Leaves
      <3> QED  BY <1>8, <3>1, <3>2
    <2>5. CASE k # work.key
      BY <1>0, <1>4, <1>8, <2>5
    <2>6. CASE k = work.key
      <3>1. o = work.op.shape.owner
        BY <1>0, <1>3, <2>0, <2>6 DEF AloneAt, OwnOnly
      <3>2. disk'[k] = Absent
        BY <1>0, <1>8, <2>6
      <3>3. Explains(id, o, k)'
        BY <1>8, <2>1, <2>3, <2>6, <3>1, <3>2 DEF Explains, Cleared, Alike
      <3> QED  BY <1>3, <1>8, <2>1, <3>3 DEF True
    <2> QED  BY <2>5, <2>6
  <1>9. CASE UNCHANGED <<disk, touched>>
    BY <1>4, <1>9
  <1> QED  BY <1>0, <1>5, <1>6, <1>7, <1>8, <1>9, <1>11, <1>12, <1>13, DiskStep DEF Takes, Drop

\* What Complete writes in the ledger is there.
LEMMA ResultTrue ==
  ASSUME LedgerInv, [Next]_vars, Complete, NEW o \in Owners, o = work.op.shape.owner, NEW r \in Result(work.op)
  PROVE  True(o, r)'
  <1>0. AlignedInv /\ ShapeInv /\ UNCHANGED <<disk, touched>>
    BY DEF LedgerInv, LandedInv, NamesInv, AlignedInv, Complete
  <1>1. work # None /\ work.at = "release" /\ Executing /\ work.id \in DOMAIN ops
    BY <1>0, Completed
  <1>2. work.op \in Op /\ Alike(work.op, ops[work.id]) /\ work.op.base # None /\ work.op.base.replicas \in SUBSET Replica
    BY <1>0, <1>1, AtWork DEF Locked
  <1>3. CASE \E n \in DOMAIN work.op.outcomes : r = Installed(work.op, n)
    <2>1. PICK n \in DOMAIN work.op.outcomes : r = Installed(work.op, n)
      BY <1>3
    <2>2. disk[r.key] = r.content \/ touched[r.key]
      BY <1>1, <2>1 DEF LedgerInv, LandedInv, Landed, Past, PlacedEverywhere, Installed
    <2> QED  BY <1>0, <2>2 DEF True
  <1>4. CASE \E x \in work.op.base.replicas :
               /\ r.key = x.key /\ r.content = x.content /\ r = [x EXCEPT !.mirror = FALSE]
               /\ ~x.mirror \/ x.key \in work.op.shape.preserve
               /\ x.key \notin Outcomes(work.op) /\ x.key \notin ReleaseKeys(work.op)
    <2>1. PICK x \in work.op.base.replicas :
               /\ r.key = x.key /\ r.content = x.content
               /\ ~x.mirror \/ x.key \in work.op.shape.preserve
               /\ x.key \notin Outcomes(work.op) /\ x.key \notin ReleaseKeys(work.op)
      BY <1>4
    <2>2. /\ ops[work.id].shape.owner = o /\ Started(work.id) /\ x \in ops[work.id].base.replicas
          /\ x.key \notin Outcomes(ops[work.id]) /\ x.key \notin ReleaseKeys(ops[work.id])
          /\ ~x.mirror \/ x.key \in ops[work.id].shape.preserve
      BY <1>2, <2>1 DEF Alike, Started, Outcomes, ReleaseKeys
    <2>3. PICK y \in Replicas(o) : y.key = r.key /\ y.content = r.content
      BY <1>1, <2>1, <2>2 DEF LedgerInv, BaseKept, InLedger, Live
    <2>4. \/ disk[r.key] = r.content \/ touched[r.key]
          \/ \E i \in DOMAIN ops : Explains(i, o, r.key)
      BY <2>3 DEF LedgerInv, LedgerHolds, Explains
    <2>5. CASE \E i \in DOMAIN ops : Explains(i, o, r.key)
      <3>1. PICK i \in DOMAIN ops : Explains(i, o, r.key)
        BY <2>5
      <3>2. CASE i = work.id
        <4>1. Leaves(ops[work.id], x.key)
          BY <2>1, <2>2, <3>1, <3>2 DEF Explains, Cleared, Holds
        <4>2. PICK b \in ops[work.id].base.replicas : b.key = x.key /\ b.mirror /\ x.key \notin ops[work.id].shape.preserve
          BY <2>2, <4>1 DEF Leaves
        <4>3. b = x
          BY <1>1, <2>2, <4>2 DEF LedgerInv, ReplicasOneEach, OneEach
        <4> QED  BY <2>2, <4>2, <4>3
      <3>3. CASE i # work.id
        <4>1. Explains(i, o, r.key)'
          <5>1. r.key \in Keys
            BY <1>2, <2>1 DEF Replica
          <5> QED  BY <1>0, <3>1, <3>3, <5>1, ExplanationKept
        <4>2. i \in DOMAIN ops'
          BY <1>0, Grows
        <4> QED  BY <4>1, <4>2 DEF True
      <3> QED  BY <3>2, <3>3
    <2> QED  BY <1>0, <2>4, <2>5 DEF True
  <1> QED  BY <1>2, <1>3, <1>4, ResultParts

\* What a superseding plan leaves in the ledger was there, or is now.
LEMMA InheritedTrue ==
  ASSUME LedgerInv, StagingApart, [Next]_vars, NEW g \in NewReceipts, NEW j \in Open, Supersede(j, g),
         NEW o \in Owners, o = ops[j].shape.owner, NEW r \in Inherited(ops[j])
  PROVE  True(o, r)'
  <1>0. AlignedInv /\ ShapeInv /\ UNCHANGED <<disk, touched>>
    BY DEF LedgerInv, LandedInv, NamesInv, AlignedInv, Supersede
  <1>1. CASE \E n \in LandedAt(ops[j]) : r = Installed(ops[j], n)
    BY <1>0, <1>1 DEF LandedAt, Installed, True
  <1>2. CASE r \in Replicas(o)
    <2>1. ~(Complete /\ work # None /\ o = work.op.shape.owner)
      BY <1>0, Completed, Writer DEF Open
    <2> QED  BY <1>2, <2>1, StaysTrue
  <1>3. CASE owners[o] = None /\ ops[j].base # None /\ r \in ops[j].base.replicas
    BY <1>3 DEF LedgerInv, BaseUnknown, Started, Open
  <1> QED  BY <1>1, <1>2, <1>3, InheritedParts

LEMMA LedgerHoldsStep ==
  ASSUME LedgerInv, StagingApart, [Next]_vars
  PROVE  LedgerHolds'
  <1>0. ShapeInv
    BY DEF LedgerInv, LineInv, AlignedInv
  <1> SUFFICES ASSUME NEW o \in Owners, NEW r \in Replicas(o)'  PROVE True(o, r)'
    BY DEF LedgerHolds, True, Explains
  <1>1. CASE Complete /\ work # None /\ o = work.op.shape.owner
    BY <1>0, <1>1, ReplicasStep, ResultTrue
  <1>2. CASE ~(Complete /\ work # None /\ o = work.op.shape.owner)
    <2>1. CASE Replicas(o)' = Replicas(o)
      BY <1>2, <2>1, StaysTrue
    <2>2. CASE \E x \in Replicas(o) : /\ x \in Replica /\ Adopt(o, x)
                                      /\ Replicas(o)' = (Replicas(o) \ {x}) \cup {[x EXCEPT !.managed = TRUE]}
      <3>1. PICK x \in Replicas(o) : /\ x \in Replica /\ Adopt(o, x)
                                     /\ Replicas(o)' = (Replicas(o) \ {x}) \cup {[x EXCEPT !.managed = TRUE]}
        BY <2>2
      <3>2. CASE r \in Replicas(o)
        BY <1>2, <3>2, StaysTrue
      <3>3. CASE r = [x EXCEPT !.managed = TRUE]
        <4>1. r.key = x.key /\ r.content = x.content
          BY <3>1, <3>3 DEF Replica
        <4>2. disk'[x.key] = x.content
          BY <3>1 DEF Adopt
        <4> QED  BY <4>1, <4>2 DEF True
      <3> QED  BY <3>1, <3>2, <3>3
    <2>3. CASE \E g \in NewReceipts : \E j \in Open :
                 Supersede(j, g) /\ o = ops[j].shape.owner /\ Replicas(o)' = Inherited(ops[j])
      BY <2>3, InheritedTrue
    <2> QED  BY <1>0, <1>2, <2>1, <2>2, <2>3, ReplicasStep DEF Rewritten
  <1> QED  BY <1>1, <1>2

LEMMA InitLedger == Init => Fresh /\ BaseUnknown /\ ReplicasOneEach /\ BaseKept /\ AloneAt /\ LedgerHolds
  <1> SUFFICES ASSUME Init
               PROVE  Fresh /\ BaseUnknown /\ ReplicasOneEach /\ BaseKept /\ AloneAt /\ LedgerHolds
    OBVIOUS
  <1>1. DOMAIN ops = {} /\ work = None
    BY DEF Init
  <1>2. \A o \in Owners : Replicas(o) = {}
    BY DEF Init, Replicas, Entry
  <1> QED  BY <1>1, <1>2 DEF Fresh, BaseUnknown, ReplicasOneEach, OneEach, BaseKept, AloneAt, LedgerHolds

\* The ledger of an owner tells what its endpoints hold, for plans whose copies
\* stay clear of the staging locations the owner releases and of each other's
\* names (ReplicaService.js, apply and supersede).
THEOREM LedgerCorrect == StagingApart /\ TargetsApart => (Spec => []LedgerInv)
  <1> SUFFICES ASSUME StagingApart, TargetsApart  PROVE Spec => []LedgerInv
    OBVIOUS
  <1>1. Init => LedgerInv
    BY InitShape, InitAligned, InitWatched, InitNames, InitLine, InitLedger
       DEF LedgerInv, LandedInv, NamesInv, AlignedInv, LineInv, Landed, Init
  <1>2. LedgerInv /\ [Next]_vars => LedgerInv'
    <2> SUFFICES ASSUME LedgerInv, [Next]_vars  PROVE LedgerInv'
      OBVIOUS
    <2>1. LandedInv /\ NamesInv /\ AlignedInv /\ LineInv /\ ShapeInv /\ Landed
      BY DEF LedgerInv, LandedInv, NamesInv, AlignedInv
    <2>2. LandedInv' /\ LineInv'
      BY <2>1, NextShape, AlignedStep, WatchedStep, NamesStep, LandedStep, NewestStep, PassStepKept
         DEF AlignedInv, NamesInv, LandedInv, LineInv
    <2>3. Fresh' /\ BaseUnknown' /\ ReplicasOneEach' /\ BaseKept' /\ AloneAt'
      BY <2>1, FreshStep, BaseUnknownStep, OneEachStep, BaseKeptStep, AloneAtStep DEF LedgerInv
    <2>4. LedgerHolds'
      BY LedgerHoldsStep
    <2> QED  BY <2>2, <2>3, <2>4 DEF LedgerInv
  <1> QED  BY <1>1, <1>2, PTL DEF Spec

\* LedgerHolds itself.
THEOREM LedgerHoldsCorrect == StagingApart /\ TargetsApart => (Spec => []LedgerHolds)
  <1>1. LedgerInv => LedgerHolds
    BY DEF LedgerInv
  <1>2. SUFFICES ASSUME StagingApart, TargetsApart  PROVE Spec => []LedgerHolds
    OBVIOUS
  <1>3. Spec => []LedgerInv
    BY <1>2, LedgerCorrect
  <1> QED  BY <1>1, <1>3, PTL

-----------------------------------------------------------------------------
(***************************************************************************)
(* The bytes of acknowledged edits                                          *)
(***************************************************************************)
\* supersededBy leads to a later plan of the same owner.
LEMMA SettledLater ==
  ASSUME ShapeInv, NEW i \in DOMAIN ops, Settled(i)
  PROVE  \E j \in {i} \cup Later(i) : ops[j].state = "complete"
  <1>1. PICK n \in Ids : \E chain \in [1..n -> DOMAIN ops] :
           /\ chain[1] = i /\ ops[chain[n]].state = "complete"
           /\ \A m \in 1..(n - 1) : ops[chain[m]].state = "cancelled" /\ ops[chain[m]].heir = chain[m + 1]
    BY DEF Settled
  <1>2. PICK chain \in [1..n -> DOMAIN ops] :
           /\ chain[1] = i /\ ops[chain[n]].state = "complete"
           /\ \A m \in 1..(n - 1) : ops[chain[m]].state = "cancelled" /\ ops[chain[m]].heir = chain[m + 1]
    BY <1>1
  <1>3. n \in Nat /\ n > 0 /\ DOMAIN ops \subseteq Nat /\ \A j \in DOMAIN ops : j > 0
    <2>1. DOMAIN ops = 1..Len(ops) /\ Len(ops) \in Nat /\ MaxOps \in Nat
      BY OpIds, BoundsAssumption DEF ShapeInv
    <2> QED  BY <1>1, <2>1 DEF Ids
  <1> DEFINE T == {m \in 1..n : chain[m] \notin {i} \cup Later(i)}
  <1>4. CASE T = {}
    <2>1. n \in 1..n
      BY <1>3
    <2>2. chain[n] \in {i} \cup Later(i)
      BY <1>4, <2>1
    <2> QED  BY <1>2, <2>2
  <1>5. CASE T # {}
    <2>1. T \in SUBSET (1..n)
      OBVIOUS
    <2> HIDE DEF T
    <2>2. PICK x \in T : \A y \in T : x <= y
      BY <1>3, <1>5, <2>1, Least
    <2>3. x \in 1..n /\ chain[x] \notin {i} \cup Later(i)
      BY <2>2 DEF T
    <2>4. x # 1
      BY <1>2, <2>3
    <2>5. x - 1 \in 1..n /\ x - 1 \in 1..(n - 1) /\ (x - 1) + 1 = x
      BY <1>3, <2>3, <2>4
    <2>6. chain[x - 1] \in {i} \cup Later(i)
      <3>1. ~(x <= x - 1)
        BY <1>3, <2>3
      <3> QED  BY <2>2, <2>5, <3>1 DEF T
    <2>7. ops[chain[x - 1]].heir = chain[x] /\ chain[x] \in DOMAIN ops /\ chain[x - 1] \in DOMAIN ops
      BY <1>2, <2>3, <2>5
    <2>8. chain[x] > chain[x - 1] /\ ops[chain[x]].shape.owner = ops[chain[x - 1]].shape.owner
      <3>1. chain[x] # 0
        BY <1>3, <2>7
      <3> QED  BY <2>7, <3>1 DEF ShapeInv, JournalShaped
    <2>9. chain[x] \in Later(i)
      <3>1. chain[x - 1] >= i /\ ops[chain[x - 1]].shape.owner = ops[i].shape.owner
        BY <1>3, <2>6 DEF Later
      <3>2. chain[x] > i
        BY <1>3, <2>7, <2>8, <3>1
      <3> QED  BY <2>7, <2>8, <3>1, <3>2 DEF Later
    <2> QED  BY <2>3, <2>9
  <1> QED  BY <1>4, <1>5

\* Rows stay, and so do completed plans.
LEMMA LaterStep ==
  ASSUME ShapeInv, [Next]_vars, NEW i \in DOMAIN ops
  PROVE  /\ i \in DOMAIN ops' /\ Later(i) \subseteq Later(i)'
         /\ \A j \in {i} \cup Later(i) : ops[j].state = "complete" => ops'[j].state = "complete"
         /\ Later(i)' \cap DOMAIN ops = Later(i)
  <1>1. \A j \in DOMAIN ops : j \in DOMAIN ops' /\ ops'[j].shape.owner = ops[j].shape.owner
    BY Grows DEF SamePlan
  <1>2. \A j \in DOMAIN ops : ops[j].state = "complete" => ops'[j].state = "complete"
    BY RowStep DEF RowKept
  <1> QED  BY <1>1, <1>2 DEF Later

\* Who changes the pins of accepted edits.
LEMMA IngressStep ==
  ASSUME ShapeInv, [Next]_vars
  PROVE  \/ /\ UNCHANGED <<ingress, cache>> /\ spent'.acked = spent.acked
            /\ lock' \in {"edit", "taken", "placed"} => lock \in {"edit", "taken", "placed"}
         \/ \E o \in Owners, k \in Keys, c \in Contents : EditCapture(o, k, c)
         \/ EditCommit
         \/ EditRefused /\ ~PinInUse(Len(ingress)) /\ DiscardIngress(Len(ingress))
         \/ \E p \in DOMAIN ingress : Reclaim(p)
         \/ DropIngress
         \/ DropPin
  <1>0. spent \in [foreign: 0..MaxForeign, faults: 0..MaxFaults, late: SUBSET Ids,
                   acked: SUBSET [pin: Pins, owner: Owners, content: Contents]]
    BY DEF ShapeInv, TypeOK
  <1>1. CASE \E r \in NewReceipts : Submit(r) \/ \E i \in DOMAIN ops : Supersede(i, r)
    <2>1. UNCHANGED <<ingress, cache, lock>> /\ \E r \in NewReceipts : Accepted(r)
      BY <1>1 DEF Submit, Supersede
    <2> QED  BY <1>0, <2>1 DEF Accepted
  <1>2. CASE (\E i \in DOMAIN ops : Retry(i)) \/ \E o \in Owners : \E r \in Replicas(o) : Adopt(o, r)
    BY <1>2 DEF Retry, Adopt
  <1>3. CASE Environment
    BY <1>0, <1>3 DEF Environment, Foreign, Transient, Crash, Leave, durable
  <1>4. CASE StartPass \/ Visit \/ (\E i \in DOMAIN ops : Elapse(i))
    BY <1>4 DEF StartPass, Visit, Elapse, durable
  <1>5. CASE Begin \/ Stage \/ StageVerify
    BY <1>5 DEF Begin, Stage, StageVerify, Rest, Block, Leave
  <1>6. CASE Resolve \/ Inspect \/ Verify \/ Placed
    BY <1>6 DEF Resolve, Inspect, Verify, Placed, Rest, Block, Leave, Record
  <1>7. CASE Retire \/ Ask \/ Retired \/ Check \/ Release \/ Drop \/ Complete
    BY <1>7 DEF Retire, Ask, Retired, Check, Release, Drop, Complete, Rest, Block, Leave
  <1>8. CASE Clean
    BY <1>8 DEF Clean, Done
  <1>9. CASE EditTake \/ EditPlace
    BY <1>9 DEF EditTake, EditPlace, durable
  <1>12. CASE Swap
    BY <1>12, SwapFrame DEF Block, Leave
  <1>10. CASE EditRefused
    BY <1>10 DEF EditRefused
  <1>11. CASE UNCHANGED vars
    BY <1>11 DEF vars, durable
  <1> QED  BY <1>1, <1>2, <1>3, <1>4, <1>5, <1>6, <1>7, <1>8, <1>9, <1>10, <1>11, <1>12 DEF Next, Callers, Executor, Edit

\* What becomes of the row of an edit.
LEMMA EditRowStep ==
  ASSUME ShapeInv, [Next]_vars
  PROVE  /\ DOMAIN ingress \subseteq DOMAIN ingress'
         /\ \A p \in DOMAIN ingress : ingress'[p] # None =>
              /\ ingress[p] # None /\ ingress'[p].owner = ingress[p].owner /\ ingress'[p].content = ingress[p].content
              /\ ingress[p].state = "committed" => ingress'[p].state = "committed"
         /\ \A p \in DOMAIN ingress' \ DOMAIN ingress :
              /\ p = Len(ingress) + 1 /\ p = Len(ingress') /\ ingress'[p] # None /\ cache'[p] = ingress'[p].content
  <1>0. TypeOK /\ ingress \in Seq(Ingress \cup {None}) /\ cache \in Seq(Bytes) /\ Len(cache) = Len(ingress)
    BY DEF ShapeInv, TypeOK
  <1>1. /\ DOMAIN ingress = 1..Len(ingress) /\ Len(ingress) \in Nat /\ DOMAIN cache = DOMAIN ingress
        /\ \A p \in DOMAIN ingress : ingress[p] \in Ingress \cup {None}
    BY <1>0, IngressIds
  <1>2. CASE UNCHANGED ingress
    BY <1>2
  <1>3. CASE \E o \in Owners, k \in Keys, c \in Contents : EditCapture(o, k, c)
    <2>1. PICK o \in Owners, k \in Keys, c \in Contents : EditCapture(o, k, c)
      BY <1>3
    <2> DEFINE row == [owner |-> o, key |-> k, content |-> c, state |-> "preparing"]
    <2>2. row \in Ingress /\ c \in Bytes /\ row.content = c
      BY DEF Ingress, Bytes
    <2>3. ingress' = Append(ingress, row) /\ cache' = Append(cache, c)
      BY <2>1 DEF EditCapture
    <2> HIDE DEF row
    <2>4. row # None
      BY <2>2, RecordAssumption
    <2>5. /\ DOMAIN ingress' = 1..(Len(ingress) + 1) /\ Len(ingress') = Len(ingress) + 1
          /\ ingress'[Len(ingress) + 1] = row /\ \A p \in 1..Len(ingress) : ingress'[p] = ingress[p]
      BY <1>0, <1>1, <2>2, <2>3, AppendProperties
    <2>6. cache'[Len(ingress) + 1] = c
      BY <1>0, <1>1, <2>2, <2>3, AppendProperties
    <2>7. \A p \in DOMAIN ingress' \ DOMAIN ingress : p = Len(ingress) + 1
      BY <1>1, <2>5
    <2>8. DOMAIN ingress \subseteq DOMAIN ingress'
      BY <1>1, <2>5
    <2> QED  BY <1>1, <2>2, <2>4, <2>5, <2>6, <2>7, <2>8
  <1>4. ASSUME NEW p \in DOMAIN ingress, ingress[p] # None, ingress' = [ingress EXCEPT ![p].state = "committed"]
        PROVE  /\ DOMAIN ingress' = DOMAIN ingress
               /\ \A q \in DOMAIN ingress : ingress'[q] # None =>
                    /\ ingress[q] # None /\ ingress'[q].owner = ingress[q].owner /\ ingress'[q].content = ingress[q].content
                    /\ ingress[q].state = "committed" => ingress'[q].state = "committed"
    <2> DEFINE row == [ingress[p] EXCEPT !.state = "committed"]
    <2>1. ingress[p] \in Ingress
      BY <1>1, <1>4
    <2>2. row \in Ingress /\ row.owner = ingress[p].owner /\ row.content = ingress[p].content /\ row.state = "committed"
      BY <2>1 DEF Ingress
    <2>3. ingress' = [ingress EXCEPT ![p] = row]
      BY <1>4
    <2> HIDE DEF row
    <2>4. DOMAIN ingress' = DOMAIN ingress /\ \A q \in DOMAIN ingress : ingress'[q] = IF q = p THEN row ELSE ingress[q]
      BY <1>0, <2>2, <2>3, PutIngress
    <2> QED  BY <1>4, <2>2, <2>4
  <1>5. CASE EditCommit
    <2>1. Len(ingress) \in DOMAIN ingress /\ ingress[Len(ingress)] # None
      BY <1>5, EditFields, RecordAssumption DEF EditCommit
    <2> QED  BY <1>4, <1>5, <2>1 DEF EditCommit
  <1>6. CASE \E p \in DOMAIN ingress : DiscardIngress(p)
    BY <1>0, <1>6, DiscardType
  <1>7. CASE EditRefused /\ ~PinInUse(Len(ingress)) /\ DiscardIngress(Len(ingress))
    BY <1>6, <1>7, EditFields DEF EditRefused
  <1>8. CASE \E p \in DOMAIN ingress : Reclaim(p)
    BY <1>4, <1>6, <1>8 DEF Reclaim
  <1>9. CASE DropIngress
    <2>1. work # None /\ work.at = "dropingress" /\ DiscardIngress(work.pin)
      BY <1>9 DEF DropIngress, At
    <2>2. work.pin \in 1..work.op.pin /\ work.op.pin <= Len(ingress) /\ work.op.pin \in Nat
      BY <2>1, AtClean DEF ShapeInv, WorkShaped, Cleaning
    <2>3. work.pin \in DOMAIN ingress
      BY <1>1, <2>2
    <2> QED  BY <1>6, <2>1, <2>3
  <1>10. CASE DropPin
    BY <1>2, <1>10 DEF DropPin
  <1> QED  BY <1>2, <1>3, <1>5, <1>7, <1>8, <1>9, <1>10, IngressStep

\* Whose deletion of a pin it is, and what was asked before.
Unpinned(p) ==
  \/ EditRefused /\ lock \in {"edit", "taken"} /\ p = Len(ingress) /\ ~PinInUse(p)
  \/ Reclaim(p) /\ work = None /\ ingress[p] # None /\ ingress[p].state = "preparing" /\ ~PinInUse(p)
  \/ DropIngress /\ work # None /\ work.at = "dropingress" /\ p = work.pin
  \/ DropPin /\ work # None /\ work.at = "droppin" /\ p = work.op.pin

LEMMA PinStep ==
  ASSUME ShapeInv, [Next]_vars, NEW p \in DOMAIN ingress
  PROVE  cache'[p] = cache[p] \/ (cache'[p] = Absent /\ Unpinned(p))
  <1>0. TypeOK /\ cache \in Seq(Bytes) /\ Len(cache) = Len(ingress)
    BY DEF ShapeInv, TypeOK
  <1>1. DOMAIN ingress = 1..Len(ingress) /\ Len(ingress) \in Nat /\ DOMAIN cache = DOMAIN ingress
    BY <1>0, IngressIds
  <1>2. CASE UNCHANGED cache
    BY <1>2
  <1>3. CASE \E o \in Owners, k \in Keys, c \in Contents : EditCapture(o, k, c)
    <2>1. PICK c \in Contents : cache' = Append(cache, c)
      BY <1>3 DEF EditCapture
    <2>2. c \in Bytes
      BY DEF Bytes
    <2> QED  BY <1>0, <1>1, <2>1, <2>2, AppendProperties
  <1>4. ASSUME NEW q \in DOMAIN ingress, cache' = [cache EXCEPT ![q] = Absent]
        PROVE  cache'[p] = IF p = q THEN Absent ELSE cache[p]
    BY <1>0, <1>4, PutCache
  <1>5. CASE EditRefused /\ ~PinInUse(Len(ingress)) /\ DiscardIngress(Len(ingress))
    <2>1. Len(ingress) \in DOMAIN ingress /\ lock \in {"edit", "taken"}
      BY <1>5, EditFields DEF EditRefused
    <2>2. cache' = [cache EXCEPT ![Len(ingress)] = Absent]
      BY <1>5 DEF DiscardIngress
    <2>3. cache'[p] = IF p = Len(ingress) THEN Absent ELSE cache[p]
      BY <1>4, <2>1, <2>2
    <2> QED  BY <1>5, <2>1, <2>3 DEF Unpinned
  <1>6. CASE \E q \in DOMAIN ingress : Reclaim(q)
    <2>1. PICK q \in DOMAIN ingress : Reclaim(q)
      BY <1>6
    <2>2. CASE cache' = [cache EXCEPT ![q] = Absent] /\ ~PinInUse(q)
      <3>1. cache'[p] = IF p = q THEN Absent ELSE cache[p]
        BY <1>4, <2>2
      <3>2. work = None /\ ingress[q] # None /\ ingress[q].state = "preparing"
        BY <2>1 DEF Reclaim
      <3> QED  BY <2>1, <2>2, <3>1, <3>2 DEF Unpinned
    <2> QED  BY <1>2, <2>1, <2>2 DEF Reclaim, DiscardIngress
  <1>7. CASE DropIngress
    <2>1. work # None /\ work.at = "dropingress" /\ cache' = [cache EXCEPT ![work.pin] = Absent]
      BY <1>7 DEF DropIngress, At, DiscardIngress
    <2>2. work.pin \in 1..work.op.pin /\ work.op.pin <= Len(ingress) /\ work.op.pin \in Nat
      BY <2>1, AtClean DEF ShapeInv, WorkShaped, Cleaning
    <2>3. work.pin \in DOMAIN ingress
      BY <1>1, <2>2
    <2>4. cache'[p] = IF p = work.pin THEN Absent ELSE cache[p]
      BY <1>4, <2>1, <2>3
    <2> QED  BY <1>7, <2>1, <2>4 DEF Unpinned
  <1>8. CASE DropPin
    <2>1. work # None /\ work.at = "droppin" /\ cache' = [cache EXCEPT ![work.op.pin] = Absent]
      BY <1>8 DEF DropPin, At
    <2>2. work.op.pin <= Len(ingress) /\ work.op.pin \in Nat /\ work.op.pin # 0
      BY <2>1, AtClean DEF ShapeInv, WorkShaped, Cleaning
    <2>3. work.op.pin \in DOMAIN ingress
      BY <1>1, <2>2
    <2>4. cache'[p] = IF p = work.op.pin THEN Absent ELSE cache[p]
      BY <1>4, <2>1, <2>3
    <2> QED  BY <1>8, <2>1, <2>4 DEF Unpinned
  <1> QED  BY <1>2, <1>3, <1>5, <1>6, <1>7, <1>8, IngressStep DEF EditCommit

ThisEdit == [pin |-> Len(ingress), owner |-> ingress[Len(ingress)].owner, content |-> ingress[Len(ingress)].content]

LEMMA AckedStep ==
  ASSUME ShapeInv, [Next]_vars
  PROVE  \/ spent'.acked = spent.acked /\ ~EditCommit
         \/ EditCommit /\ spent'.acked = spent.acked \cup {ThisEdit}
  <1>1. CASE EditCommit
    <2>1. spent \in [foreign: 0..MaxForeign, faults: 0..MaxFaults, late: SUBSET Ids,
                     acked: SUBSET [pin: Pins, owner: Owners, content: Contents]]
      BY DEF ShapeInv, TypeOK
    <2>2. spent' = [spent EXCEPT !.acked = @ \cup {ThisEdit}]
      BY <1>1 DEF EditCommit, ThisEdit
    <2> QED  BY <1>1, <2>1, <2>2
  <1>2. CASE \E o \in Owners, k \in Keys, c \in Contents : EditCapture(o, k, c)
    BY <1>2 DEF EditCapture, EditCommit
  <1>3. CASE EditRefused \/ (\E p \in DOMAIN ingress : Reclaim(p)) \/ DropIngress \/ DropPin
    BY <1>1, <1>3 DEF EditRefused, Reclaim, DropIngress, DropPin, EditCommit
  <1> QED  BY <1>1, <1>2, <1>3, IngressStep

\* An ingress row, the plan that pins it and the acknowledged edit have one owner.
PinOwners ==
  /\ \A i \in DOMAIN ops : ops[i].pin # 0 =>
       /\ ingress[ops[i].pin] # None => ingress[ops[i].pin].owner = ops[i].shape.owner
       /\ \A e \in spent.acked : e.pin = ops[i].pin => e.owner = ops[i].shape.owner
  /\ \A e \in spent.acked :
       /\ e.pin \in DOMAIN ingress
       /\ ingress[e.pin] # None => ingress[e.pin].owner = e.owner /\ ingress[e.pin].state = "committed"

\* What the edit in progress has pinned is there, and not yet acknowledged.
EditHeld ==
  lock \in {"edit", "taken", "placed"} =>
    /\ cache[Len(ingress)] = ingress[Len(ingress)].content
    /\ \A e \in spent.acked : e.pin # Len(ingress)

\* A pin is deleted for a plan of its owner that is complete or replaced by one
\* that is.
PinGoing ==
  work # None =>
    /\ work.at = "dropingress" => ingress[work.pin] # None /\ ingress[work.pin].owner = work.op.shape.owner
    /\ work.at = "droppin" => \E j \in {work.id} \cup Later(work.id) : ops[j].state = "complete"

EditsInv == LineInv /\ PinOwners /\ EditHeld /\ PinGoing /\ EditsKept

LEMMA EditHeldStep ==
  ASSUME EditsInv, [Next]_vars
  PROVE  EditHeld'
  <1>0. ShapeInv /\ TypeOK
    BY DEF EditsInv, LineInv, AlignedInv, ShapeInv
  <1>1. DOMAIN ingress = 1..Len(ingress) /\ Len(ingress) \in Nat
    BY <1>0, IngressIds
  <1> SUFFICES ASSUME lock' \in {"edit", "taken", "placed"}
               PROVE  /\ cache'[Len(ingress')] = ingress'[Len(ingress')].content
                      /\ \A e \in spent'.acked : e.pin # Len(ingress')
    BY DEF EditHeld
  <1>2. CASE /\ UNCHANGED <<ingress, cache>> /\ spent'.acked = spent.acked
             /\ lock' \in {"edit", "taken", "placed"} => lock \in {"edit", "taken", "placed"}
    BY <1>2 DEF EditsInv, EditHeld
  <1>3. CASE \E o \in Owners, k \in Keys, c \in Contents : EditCapture(o, k, c)
    <2>1. Len(ingress') = Len(ingress) + 1 /\ Len(ingress) + 1 \in DOMAIN ingress' /\ Len(ingress) + 1 \notin DOMAIN ingress
          /\ spent' = spent
      <3>1. PICK row \in Ingress \cup {None} : ingress' = Append(ingress, row)
        BY <1>3 DEF EditCapture, Ingress
      <3>2. Len(ingress') = Len(ingress) + 1 /\ DOMAIN ingress' = 1..(Len(ingress) + 1)
        BY <1>0, <1>1, <3>1, AppendProperties DEF TypeOK
      <3> QED  BY <1>1, <1>3, <3>2 DEF EditCapture
    <2>2. \A e \in spent.acked : e.pin \in DOMAIN ingress
      BY DEF EditsInv, PinOwners
    <2> QED  BY <1>0, <2>1, <2>2, EditRowStep
  <1>4. CASE EditCommit \/ EditRefused \/ \E p \in DOMAIN ingress : Reclaim(p)
    BY <1>4 DEF EditCommit, EditRefused, Reclaim
  <1>5. CASE DropIngress \/ DropPin
    <2>1. work # None /\ work.at \in Cleaning /\ lock \in {"edit", "taken", "placed"}
      BY <1>5 DEF DropIngress, DropPin, Done, At, Cleaning
    <2>2. work.op.pin < Len(ingress) /\ work.op.pin \in Nat
      BY <1>0, <2>1, AtClean
    <2>3. Len(ingress) \in DOMAIN ingress /\ ingress[Len(ingress)] \in Ingress
      BY <1>0, <2>1, EditFields
    <2>4. ~Unpinned(Len(ingress))
      <3>1. work.at = "dropingress" => work.pin \in 1..work.op.pin
        BY <1>0, <2>1 DEF ShapeInv, WorkShaped
      <3>2. ~(work.at = "dropingress" /\ work.pin = Len(ingress))
        BY <1>1, <2>2, <3>1
      <3>3. work.op.pin # Len(ingress)
        BY <1>1, <2>2
      <3>4. ~EditRefused /\ ~Reclaim(Len(ingress))
        BY <1>5, <2>1 DEF DropIngress, DropPin, EditRefused, Reclaim, At
      <3> QED  BY <3>2, <3>3, <3>4 DEF Unpinned
    <2>5. cache'[Len(ingress)] = cache[Len(ingress)]
      BY <1>0, <2>3, <2>4, PinStep
    <2>6. ingress'[Len(ingress)] = ingress[Len(ingress)] /\ Len(ingress') = Len(ingress)
      <3>1. CASE DropPin
        BY <3>1 DEF DropPin
      <3>2. CASE DropIngress
        <4>1. work.pin \in DOMAIN ingress /\ work.pin # Len(ingress) /\ DiscardIngress(work.pin)
          <5>1. work.at = "dropingress" /\ DiscardIngress(work.pin)
            BY <3>2 DEF DropIngress, At
          <5>2. work.pin \in 1..work.op.pin
            BY <1>0, <2>1, <5>1 DEF ShapeInv, WorkShaped
          <5> QED  BY <1>1, <2>2, <5>1, <5>2
        <4> QED  BY <1>0, <2>3, <4>1, DiscardType
      <3> QED  BY <1>5, <3>1, <3>2
    <2>7. spent' = spent
      BY <1>5 DEF DropIngress, DropPin
    <2> QED  BY <2>1, <2>5, <2>6, <2>7 DEF EditsInv, EditHeld
  <1> QED  BY <1>0, <1>2, <1>3, <1>4, <1>5, IngressStep

LEMMA PinOwnersStep ==
  ASSUME EditsInv, [Next]_vars
  PROVE  PinOwners'
  <1>0. ShapeInv /\ TypeOK /\ PinOwners
    BY DEF EditsInv, LineInv, AlignedInv, ShapeInv
  <1>1. DOMAIN ingress = 1..Len(ingress) /\ Len(ingress) \in Nat /\ DOMAIN ingress \subseteq DOMAIN ingress'
    BY <1>0, IngressIds, EditRowStep
  <1>2. ASSUME EditCommit
        PROVE  /\ Len(ingress) \in DOMAIN ingress /\ ingress[Len(ingress)] # None
               /\ ingress'[Len(ingress)].state = "committed" /\ ingress'[Len(ingress)].owner = ingress[Len(ingress)].owner
    <2>1. Len(ingress) \in DOMAIN ingress /\ ingress[Len(ingress)] \in Ingress
      BY <1>0, <1>2, EditFields DEF EditCommit
    <2>2. ingress' = [ingress EXCEPT ![Len(ingress)].state = "committed"]
      BY <1>2 DEF EditCommit
    <2> DEFINE row == [ingress[Len(ingress)] EXCEPT !.state = "committed"]
    <2>3. row \in Ingress /\ row.owner = ingress[Len(ingress)].owner /\ row.state = "committed"
      BY <2>1 DEF Ingress
    <2>4. ingress' = [ingress EXCEPT ![Len(ingress)] = row]
      BY <2>2
    <2> HIDE DEF row
    <2>5. ingress'[Len(ingress)] = row
      BY <1>0, <2>1, <2>3, <2>4, PutIngress
    <2> QED  BY <2>1, <2>3, <2>5, RecordAssumption
  <1>3. ASSUME NEW i \in DOMAIN ops', ops'[i].pin # 0
        PROVE  /\ ingress'[ops'[i].pin] # None => ingress'[ops'[i].pin].owner = ops'[i].shape.owner
               /\ \A e \in spent'.acked : e.pin = ops'[i].pin => e.owner = ops'[i].shape.owner
    <2> DEFINE p == ops'[i].pin
               o == ops'[i].shape.owner
    <2>1. /\ p \in DOMAIN ingress
          /\ ingress[p] # None => ingress[p].owner = o
          /\ \A e \in spent.acked : e.pin = p => e.owner = o
      <3>1. CASE i \in DOMAIN ops
        <4>1. p = ops[i].pin /\ o = ops[i].shape.owner
          BY <1>0, <3>1, Grows DEF SamePlan
        <4>2. ops[i].pin <= Len(ingress) /\ ops[i].pin \in Nat
          BY <1>0, <3>1, OpIds, OpFields DEF ShapeInv, JournalShaped
        <4> QED  BY <1>0, <1>1, <1>3, <3>1, <4>1, <4>2 DEF PinOwners
      <3>2. CASE i \notin DOMAIN ops
        <4>1. PICK r \in NewReceipts : p = r.pin /\ o = r.shape.owner
          BY <1>0, <3>2, NewRow
        <4>2. r.pin \in DOMAIN ingress /\ ingress[r.pin] # None /\ ingress[r.pin].owner = r.shape.owner
          BY <1>0, <1>3, <4>1, Receipts
        <4> QED  BY <1>0, <4>1, <4>2 DEF PinOwners
      <3> QED  BY <3>1, <3>2
    <2>2. ingress'[p] # None => ingress'[p].owner = o
      BY <1>0, <2>1, EditRowStep
    <2>3. ASSUME NEW e \in spent'.acked, e.pin = p  PROVE e.owner = o
      <3>1. CASE e \in spent.acked
        BY <2>1, <2>3, <3>1
      <3>2. CASE EditCommit /\ e = ThisEdit
        BY <1>2, <2>1, <2>3, <3>2 DEF ThisEdit
      <3> QED  BY <1>0, <2>3, <3>1, <3>2, AckedStep
    <2> QED  BY <2>2, <2>3
  <1>4. ASSUME NEW e \in spent'.acked
        PROVE  /\ e.pin \in DOMAIN ingress'
               /\ ingress'[e.pin] # None => ingress'[e.pin].owner = e.owner /\ ingress'[e.pin].state = "committed"
    <2>1. CASE e \in spent.acked
      BY <1>0, <1>1, <2>1, EditRowStep DEF PinOwners
    <2>2. CASE EditCommit /\ e = ThisEdit
      BY <1>1, <1>2, <2>2 DEF ThisEdit
    <2> QED  BY <1>0, <1>4, <2>1, <2>2, AckedStep
  <1> QED  BY <1>3, <1>4 DEF PinOwners

LEMMA PinGoingStep ==
  ASSUME EditsInv, [Next]_vars
  PROVE  PinGoing'
  <1>0. AlignedInv /\ ShapeInv /\ TypeOK /\ PinGoing
    BY DEF EditsInv, LineInv, AlignedInv, ShapeInv
  <1>1. CASE work' = None \/ (work' # None /\ work'.at \in Harmless)
    BY <1>1 DEF PinGoing, Harmless
  <1>2. CASE work' = work /\ work # None
    <2>1. ASSUME work.at = "dropingress"
          PROVE  ingress'[work.pin] # None /\ ingress'[work.pin].owner = work.op.shape.owner
      <3>1. /\ work.pin \in 1..work.op.pin /\ work.op.pin <= Len(ingress) /\ work.op.pin \in Nat
            /\ lock \in {"edit", "taken", "placed"} => work.op.pin < Len(ingress)
        BY <1>0, <1>2, <2>1, AtClean DEF ShapeInv, WorkShaped, Cleaning
      <3>2. work.pin \in DOMAIN ingress
        BY <1>0, <3>1, IngressIds
      <3>3. work.pin # Len(ingress) \/ lock \notin {"edit", "taken", "placed"}
        BY <1>0, <3>1, IngressIds
      <3>4. ingress'[work.pin] # None
        <4>1. CASE UNCHANGED ingress
          BY <1>0, <1>2, <2>1, <4>1 DEF PinGoing
        <4>2. CASE \E o \in Owners, k \in Keys, c \in Contents : EditCapture(o, k, c)
          <5>1. PICK row \in Ingress \cup {None} : ingress' = Append(ingress, row)
            BY <4>2 DEF EditCapture, Ingress
          <5>2. ingress'[work.pin] = ingress[work.pin]
            BY <1>0, <3>2, <5>1, AppendProperties, IngressIds DEF TypeOK
          <5> QED  BY <1>0, <1>2, <2>1, <5>2 DEF PinGoing
        <4>3. CASE EditCommit
          <5>1. ingress' = [ingress EXCEPT ![Len(ingress)].state = "committed"] /\ work.pin # Len(ingress)
            BY <3>3, <4>3 DEF EditCommit
          <5>2. ingress'[work.pin] = ingress[work.pin]
            BY <1>0, <3>2, <5>1 DEF TypeOK
          <5> QED  BY <1>0, <1>2, <2>1, <5>2 DEF PinGoing
        <4>4. CASE EditRefused /\ DiscardIngress(Len(ingress))
          <5>1. Len(ingress) \in DOMAIN ingress /\ work.pin # Len(ingress)
            BY <1>0, <3>3, <4>4, EditFields DEF EditRefused
          <5>2. ingress'[work.pin] = ingress[work.pin]
            BY <1>0, <3>2, <4>4, <5>1, DiscardType
          <5> QED  BY <1>0, <1>2, <2>1, <5>2 DEF PinGoing
        <4>5. CASE \E p \in DOMAIN ingress : Reclaim(p)
          BY <1>2, <4>5 DEF Reclaim
        <4>6. CASE DropIngress
          <5>1. work \in Work /\ work' = [work EXCEPT !.at = "clean"]
            BY <1>0, <1>2, <4>6 DEF ShapeInv, TypeOK, DropIngress
          <5>2. work'.at = "clean"
            BY <5>1 DEF Work
          <5> QED  BY <1>2, <2>1, <5>2
        <4> QED  BY <1>0, <4>1, <4>2, <4>3, <4>4, <4>5, <4>6, IngressStep DEF DropPin
      <3> QED  BY <1>0, <1>2, <2>1, <3>2, <3>4, EditRowStep DEF PinGoing
    <2>2. ASSUME work.at = "droppin"
          PROVE  \E j \in {work.id} \cup Later(work.id)' : ops'[j].state = "complete"
      <3>1. PICK i \in DOMAIN ops : i = work.id
        BY <1>0, <1>2 DEF ShapeInv, WorkShaped
      <3>2. \E j \in {i} \cup Later(i)' : ops'[j].state = "complete"
        BY <1>0, <1>2, <2>2, <3>1, LaterStep DEF PinGoing
      <3> QED  BY <1>2, <3>1, <3>2 DEF Later
    <2> QED  BY <1>2, <2>1, <2>2 DEF PinGoing
  <1>3. CASE work # None /\ work' # None /\ work \in Work /\ UNCHANGED <<ops, owners, disk, lock>> /\ Asked
    <2>0. work.id \in DOMAIN ops
      BY <1>0, <1>3 DEF ShapeInv, WorkShaped
    <2>1. CASE Clean /\ work.at = "clean" /\ \E p \in Leftover : work' = [work EXCEPT !.at = "dropingress", !.pin = p]
      <3>1. PICK p \in Leftover : work' = [work EXCEPT !.at = "dropingress", !.pin = p]
        BY <2>1
      <3>2. work'.at = "dropingress" /\ work'.pin = p /\ work'.op = work.op
        BY <1>3, <3>1 DEF Work
      <3>3. ingress[p] # None /\ ingress[p].owner = work.op.shape.owner
        BY DEF Leftover
      <3>4. UNCHANGED ingress
        BY <2>1 DEF Clean
      <3> QED  BY <3>2, <3>3, <3>4 DEF PinGoing
    <2>2. CASE Clean /\ work.at = "clean" /\ Settled(work.id) /\ work' = [work EXCEPT !.at = "droppin"]
      <3>1. work'.at = "droppin" /\ work'.id = work.id
        BY <1>3, <2>2 DEF Work
      <3>2. PICK i \in DOMAIN ops : i = work.id
        BY <2>0
      <3>3. \E j \in {i} \cup Later(i) : ops[j].state = "complete"
        BY <1>0, <2>2, <3>2, SettledLater
      <3> QED  BY <1>3, <3>1, <3>2, <3>3 DEF PinGoing, Later
    <2>3. CASE \/ work' = [work EXCEPT !.at = "write", !.found = disk[Chosen.key]]
               \/ \E k \in work.left : work' = [work EXCEPT !.at = "ask", !.key = k]
               \/ work' = [work EXCEPT !.at = "keep"]
               \/ \E k \in work.left : work' = [work EXCEPT !.at = "drop", !.key = k]
      <3>1. work'.at \notin {"dropingress", "droppin"}
        BY <1>3, <2>3 DEF Work
      <3> QED  BY <3>1 DEF PinGoing
    <2> QED  BY <1>3, <2>1, <2>2, <2>3 DEF Asked
  <1>4. CASE Swap /\ work' # None
    BY <1>0, <1>4, SwapMove DEF PinGoing
  <1> QED  BY <1>0, <1>1, <1>2, <1>3, <1>4, AskedStep

\* A later plan, or the edit's own, that is complete takes the edit's pin over.
Covered(o, p) ==
  \E i \in DOMAIN ops : /\ ops[i].shape.owner = o /\ ops[i].pin >= p
                        /\ \E j \in {i} \cup Later(i) : ops[j].state = "complete"

LEMMA CoveredStays ==
  ASSUME ShapeInv, [Next]_vars, NEW o, NEW p, Covered(o, p)
  PROVE  Covered(o, p)'
  <1>1. PICK i \in DOMAIN ops : /\ ops[i].shape.owner = o /\ ops[i].pin >= p
                                /\ \E j \in {i} \cup Later(i) : ops[j].state = "complete"
    BY DEF Covered
  <1>2. i \in DOMAIN ops' /\ ops'[i].shape.owner = o /\ ops'[i].pin >= p
    BY <1>1, Grows DEF SamePlan
  <1>3. \E j \in {i} \cup Later(i)' : ops'[j].state = "complete"
    BY <1>1, LaterStep
  <1> QED  BY <1>2, <1>3 DEF Covered

LEMMA EditsKeptStep ==
  ASSUME EditsInv, [Next]_vars
  PROVE  EditsKept'
  <1>0. AlignedInv /\ ShapeInv /\ TypeOK /\ PinOwners /\ PinGoing /\ EditHeld
    BY DEF EditsInv, LineInv, AlignedInv, ShapeInv
  <1> SUFFICES ASSUME NEW e \in spent'.acked, ~Covered(e.owner, e.pin)'  PROVE cache'[e.pin] = e.content
    BY DEF EditsKept, Covered
  <1>1. CASE e \in spent.acked
    <2>1. ~Covered(e.owner, e.pin)
      BY <1>0, CoveredStays
    <2>2. cache[e.pin] = e.content /\ e.pin \in DOMAIN ingress
      BY <1>0, <1>1, <2>1 DEF EditsInv, EditsKept, PinOwners, Covered
    <2>3. ~Unpinned(e.pin)
      <3>1. ~(lock \in {"edit", "taken"} /\ e.pin = Len(ingress))
        BY <1>0, <1>1 DEF EditHeld
      <3>2. ~(ingress[e.pin] # None /\ ingress[e.pin].state = "preparing")
        BY <1>0, <1>1 DEF PinOwners
      <3>3. ~(work # None /\ work.at = "dropingress" /\ e.pin = work.pin)
        <4>1. SUFFICES ASSUME work # None, work.at = "dropingress", e.pin = work.pin  PROVE FALSE
          OBVIOUS
        <4>2. e.owner = work.op.shape.owner
          BY <1>0, <1>1, <4>1 DEF PinGoing, PinOwners
        <4>3. work.pin \in 1..work.op.pin /\ work.op.state = "complete" /\ work.id \in DOMAIN ops /\ ops[work.id] = work.op
          BY <1>0, <4>1 DEF ShapeInv, WorkShaped, Cleaning
        <4>4. work.op.pin \in Nat
          BY <1>0, <4>1, AtClean DEF Cleaning
        <4>5. ops[work.id].pin >= e.pin
          BY <4>1, <4>3, <4>4
        <4> QED  BY <2>1, <4>2, <4>3, <4>5 DEF Covered
      <3>4. ~(work # None /\ work.at = "droppin" /\ e.pin = work.op.pin)
        <4>1. SUFFICES ASSUME work # None, work.at = "droppin", e.pin = work.op.pin  PROVE FALSE
          OBVIOUS
        <4>2. work.id \in DOMAIN ops /\ ops[work.id] = work.op /\ work.op.pin # 0 /\ work.op.pin \in Nat
          BY <1>0, <4>1, AtClean DEF ShapeInv, WorkShaped, Cleaning
        <4>3. e.owner = ops[work.id].shape.owner
          BY <1>0, <1>1, <4>1, <4>2 DEF PinOwners
        <4> QED  BY <1>0, <2>1, <4>1, <4>2, <4>3 DEF Covered, PinGoing
      <3> QED  BY <3>1, <3>2, <3>3, <3>4 DEF Unpinned
    <2> QED  BY <1>0, <2>2, <2>3, PinStep
  <1>2. CASE EditCommit /\ e = ThisEdit
    BY <1>0, <1>2 DEF EditCommit, ThisEdit, EditHeld
  <1> QED  BY <1>0, <1>1, <1>2, AckedStep

\* The bytes of an acknowledged edit stay pinned until its generation, or a later
\* one of the owner, is complete (ReplicaService.js, applyEdit and cleanup).
THEOREM EditsCorrect == Spec => []EditsInv
  <1>1. Init => EditsInv
    <2> SUFFICES ASSUME Init PROVE EditsInv
      OBVIOUS
    <2>1. DOMAIN ops = {} /\ spent.acked = {} /\ work = None /\ lock = "free"
      BY DEF Init
    <2> QED  BY <2>1, InitShape, InitAligned, InitWatched, InitLine
             DEF EditsInv, LineInv, AlignedInv, PinOwners, EditHeld, PinGoing, EditsKept
  <1>2. EditsInv /\ [Next]_vars => EditsInv'
    <2> SUFFICES ASSUME EditsInv, [Next]_vars  PROVE EditsInv'
      OBVIOUS
    <2>1. LineInv /\ AlignedInv /\ ShapeInv
      BY DEF EditsInv, LineInv, AlignedInv
    <2>2. LineInv'
      BY <2>1, NextShape, AlignedStep, WatchedStep, NewestStep, PassStepKept DEF LineInv, AlignedInv
    <2> QED  BY <2>2, PinOwnersStep, EditHeldStep, PinGoingStep, EditsKeptStep DEF EditsInv
  <1> QED  BY <1>1, <1>2, PTL DEF Spec

-----------------------------------------------------------------------------
(***************************************************************************)
(* The bytes of plans                                                       *)
(***************************************************************************)
CompletedAfter(i) == \E j \in Later(i) : ops[j].state = "complete"

\* The bytes of a plan that is not finished are pinned, or where its caller said.
LiveHeld ==
  \A i \in DOMAIN ops : Live(i) =>
    /\ ops[i].pinned => staged[i] = ops[i].content
    /\ i \notin spent.late /\ ops[i].shape.targets # <<>> =>
         \/ staged[i] = ops[i].content
         \/ ops[i].pin # 0 /\ cache[ops[i].pin] = ops[i].content
         \/ ops[i].source # None /\ (disk[ops[i].source] = ops[i].content \/ touched[ops[i].source])

\* What a withdrawn plan pinned stays until a later one is complete.
WithdrawnHeld ==
  \A i \in DOMAIN ops : ops[i].state = "cancelled" /\ ops[i].pinned =>
    staged[i] = ops[i].content \/ CompletedAfter(i)

OutlivedSoon(i) == \E j \in Later(i) : ops[j].state = "complete" \/ AllVerified(ops[j])

\* The copies of a complete plan stay, and in the ledger, until a later plan of
\* the owner is verified or writes over them.
CopyHeld(i, k) ==
  /\ \E o \in Owners : o = ops[i].shape.owner /\ \E r \in Replicas(o) : r.key = k
  /\ disk[k] = ops[i].content \/ touched[k] \/ \E j \in Later(i) : k \in Outcomes(ops[j])

CompleteHeld ==
  \A i \in DOMAIN ops : ops[i].state = "complete" /\ ~OutlivedSoon(i) =>
    /\ Len(ops[i].outcomes) = Len(ops[i].shape.targets)
    /\ \A k \in Outcomes(ops[i]) : CopyHeld(i, k)

\* No other open plan takes its bytes from what is about to go.
NoSourceAt(k) == \A i \in Open \ {work.id} : i \notin spent.late => ops[i].source # k
NoPin(p) == \A i \in Open : i \notin spent.late => ops[i].pin # p

RemovalAlone ==
  /\ work # None /\ work.at \in {"keep", "unlink", "delete", "drop"} => NoSourceAt(work.key)
  /\ work # None /\ Replacement => NoSourceAt(Chosen.key)
  /\ work # None /\ work.at = "dropingress" => NoPin(work.pin)
  /\ work # None /\ work.at = "droppin" => NoPin(work.op.pin)

PlansInv == LedgerInv /\ LiveHeld /\ WithdrawnHeld /\ CompleteHeld /\ RemovalAlone

\* A plan is marked as late only when it is accepted.
LEMMA LateStep ==
  ASSUME ShapeInv, [Next]_vars
  PROVE  /\ \A i \in DOMAIN ops : i \in spent'.late <=> i \in spent.late
         /\ \A i \in DOMAIN ops' \ DOMAIN ops :
              \E r \in NewReceipts :
                /\ Submit(r) \/ \E j \in DOMAIN ops : Supersede(j, r)
                /\ r \in Op /\ ops'[i].pin = r.pin /\ ops'[i].source = r.source /\ ops'[i].content = r.content
                /\ ops'[i].shape = r.shape /\ ~ops'[i].pinned /\ ops'[i].state = "pending"
                /\ i \notin spent'.late => ~Doomed(r)
                /\ UNCHANGED <<disk, cache, work>>
  <1>0. /\ TypeOK
        /\ spent \in [foreign: 0..MaxForeign, faults: 0..MaxFaults, late: SUBSET Ids,
                      acked: SUBSET [pin: Pins, owner: Owners, content: Contents]]
    BY DEF ShapeInv, TypeOK
  <1>1. ASSUME NEW r \in NewReceipts, Submit(r) \/ \E j \in DOMAIN ops : Supersede(j, r)
        PROVE  /\ \A i \in DOMAIN ops : i \in spent'.late <=> i \in spent.late
               /\ Len(ops) + 1 \notin spent'.late => ~Doomed(r)
    <2>1. Accepted(r) /\ Len(ops) < MaxOps
      BY <1>1 DEF Submit, Supersede
    <2>2. spent'.late = IF Doomed(r) THEN spent.late \cup {Len(ops) + 1} ELSE spent.late
      BY <1>0, <2>1, AcceptedType
    <2>3. Len(ops) + 1 \notin DOMAIN ops
      BY <1>0, OpIds
    <2> QED  BY <2>2, <2>3
  <1>2. ASSUME ~(\E r \in NewReceipts : Submit(r) \/ \E i \in DOMAIN ops : Supersede(i, r))
        PROVE  spent'.late = spent.late
    <2>1. CASE (\E i \in DOMAIN ops : Retry(i) \/ Elapse(i)) \/ \E o \in Owners : \E r \in Replicas(o) : Adopt(o, r)
      BY <2>1 DEF Retry, Elapse, Adopt
    <2>2. CASE (\E o \in Owners, k \in Keys, c \in Contents : EditCapture(o, k, c)) \/ EditTake \/ EditPlace \/ EditRefused
               \/ \E p \in DOMAIN ingress : Reclaim(p)
      BY <2>2 DEF EditCapture, EditTake, EditPlace, EditRefused, Reclaim
    <2>3. CASE EditCommit
      BY <1>0, <2>3 DEF EditCommit
    <2>4. CASE Environment
      BY <1>0, <2>4 DEF Environment, Foreign, Transient, Crash
    <2>5. CASE StartPass \/ Visit \/ UNCHANGED vars
      BY <2>5 DEF StartPass, Visit, vars
    <2>6. CASE Executor
      BY <2>6, SwapFrame
         DEF Executor, Begin, Stage, StageVerify, Resolve, Inspect, Verify, Placed,
             Retire, Ask, Retired, Check, Release, Drop, Complete, Clean, DropIngress, DropPin, Rest
    <2> QED  BY <1>2, <2>1, <2>2, <2>3, <2>4, <2>5, <2>6 DEF Next, Callers, Edit
  <1>3. \A i \in DOMAIN ops : i \in spent'.late <=> i \in spent.late
    BY <1>1, <1>2
  <1>4. ASSUME NEW i \in DOMAIN ops' \ DOMAIN ops
        PROVE  \E r \in NewReceipts :
                /\ Submit(r) \/ \E j \in DOMAIN ops : Supersede(j, r)
                /\ r \in Op /\ ops'[i].pin = r.pin /\ ops'[i].source = r.source /\ ops'[i].content = r.content
                /\ ops'[i].shape = r.shape /\ ~ops'[i].pinned /\ ops'[i].state = "pending"
                /\ i \notin spent'.late => ~Doomed(r)
                /\ UNCHANGED <<disk, cache, work>>
    <2>1. PICK r \in NewReceipts :
                /\ Submit(r) \/ \E j \in DOMAIN ops : Supersede(j, r)
                /\ r \in Op /\ i = Len(ops) + 1
                /\ ops'[i].pin = r.pin /\ ops'[i].source = r.source /\ ops'[i].content = r.content /\ ops'[i].shape = r.shape
      BY NewRow
    <2>2. i \notin spent'.late => ~Doomed(r)
      BY <1>1, <2>1
    <2>3. UNCHANGED <<disk, cache, work>>
      BY <2>1 DEF Submit, Supersede, executor
    <2>4. ~ops'[i].pinned /\ ops'[i].state = "pending"
      BY NewRowFields
    <2> QED  BY <2>1, <2>2, <2>3, <2>4
  <1> QED  BY <1>3, <1>4

\* Who changes the pinned bytes of an operation.
LEMMA StagedStep ==
  ASSUME ShapeInv, [Next]_vars, NEW i \in Ids
  PROVE  \/ staged'[i] = staged[i]
         \/ work # None /\ work.at = "stage" /\ i = work.id /\ staged[i] = Absent
         \/ work # None /\ work.at = "staged" /\ i = work.id /\ staged[i] # work.op.content
         \/ work # None /\ work.at = "clean" /\ i = work.id /\ Settled(i)
  <1>0. staged \in [Ids -> Bytes]
    BY DEF ShapeInv, TypeOK
  <1>1. CASE UNCHANGED staged
    BY <1>1
  <1>2. CASE Stage
    BY <1>0, <1>2 DEF Stage, At, Block, Leave
  <1>3. CASE StageVerify
    BY <1>0, <1>3 DEF StageVerify, At
  <1>4. CASE Clean
    BY <1>0, <1>4 DEF Clean, At
  <1>5. CASE Callers \/ StartPass \/ Visit \/ Edit
             \/ (\E p \in DOMAIN ingress : Reclaim(p)) \/ (\E j \in DOMAIN ops : Elapse(j)) \/ Environment \/ UNCHANGED vars
    BY <1>5 DEF Callers, Submit, Supersede, Retry, Adopt, EditCapture, StartPass, Visit, Edit, EditTake, EditPlace, EditCommit,
                EditRefused, Reclaim, Elapse, Environment, Foreign, Transient, Crash, vars, durable
  <1>6. CASE \/ Begin \/ Resolve \/ Inspect \/ Swap \/ Verify \/ Placed
             \/ Retire \/ Ask \/ Retired \/ Check \/ Release \/ Drop \/ Complete \/ DropIngress \/ DropPin
    BY <1>6, SwapFrame DEF Begin, Resolve, Inspect, Verify, Placed,
                Retire, Ask, Retired, Check, Release, Drop, Complete, DropIngress, DropPin
  <1> QED  BY <1>1, <1>2, <1>3, <1>4, <1>5, <1>6 DEF Next, Executor

LEMMA OpenStep ==
  ASSUME AlignedInv, [Next]_vars, NEW i \in DOMAIN ops, ~Terminal(ops'[i])
  PROVE  i \in Open \/ (Executing /\ i = work.id)
  <1>1. Live(i)'
    BY DEF Live
  <1> QED  BY <1>1, LiveStep DEF Live, Open

LEMMA RemovalAloneStep ==
  ASSUME AlignedInv, RemovalAlone, [Next]_vars
  PROVE  RemovalAlone'
  <1>0. ShapeInv
    BY DEF AlignedInv
  <1>1. CASE work' = None \/ (work' # None /\ work'.at \in Harmless)
    BY <1>1 DEF RemovalAlone, Replacement, Harmless
  <1>2. CASE work' = work /\ work # None
    <2>1. ASSUME NEW i \in DOMAIN ops', ~Terminal(ops'[i]), i \notin spent'.late, i # work.id \/ ~Executing
          PROVE  \/ i \in Open /\ i \notin spent.late /\ ops'[i].source = ops[i].source /\ ops'[i].pin = ops[i].pin
                 \/ \E r \in NewReceipts : ~Doomed(r) /\ ops'[i].source = r.source /\ ops'[i].pin = r.pin
      <3>1. CASE i \in DOMAIN ops
        BY <1>0, <2>1, <3>1, OpenStep, LateStep, Grows DEF SamePlan
      <3>2. CASE i \notin DOMAIN ops
        BY <1>0, <2>1, <3>2, LateStep
      <3> QED  BY <3>1, <3>2
    <2>2. ASSUME NEW k, NoSourceAt(k), \A r \in NewReceipts : ~Doomed(r) => r.source # k  PROVE NoSourceAt(k)'
      BY <1>2, <2>1, <2>2 DEF NoSourceAt, Open
    <2>3. ASSUME NEW p, NoPin(p), ~Executing, \A r \in NewReceipts : ~Doomed(r) => r.pin # p  PROVE NoPin(p)'
      BY <2>1, <2>3 DEF NoPin, Open
    <2>4. work.at \in {"keep", "unlink", "delete", "drop"} => NoSourceAt(work.key)'
      BY <1>2, <2>2 DEF RemovalAlone, Doomed
    <2>5. Replacement => NoSourceAt(Chosen.key)'
      BY <1>2, <2>2 DEF RemovalAlone, Replacement, Doomed, Chosen
    <2>6. work.at = "dropingress" => NoPin(work.pin)'
      BY <1>2, <2>3 DEF RemovalAlone, Doomed, Executing, Cleaning
    <2>7. work.at = "droppin" => NoPin(work.op.pin)'
      BY <1>2, <2>3 DEF RemovalAlone, Doomed, Executing, Cleaning
    <2> QED  BY <1>2, <2>4, <2>5, <2>6, <2>7 DEF RemovalAlone, Replacement, Chosen
  <1>3. CASE work # None /\ work' # None /\ work \in Work /\ UNCHANGED <<ops, owners, disk, lock>> /\ Asked
    <2>0. spent'.late = spent.late
      <3>1. \A i \in DOMAIN ops : i \in spent'.late <=> i \in spent.late
        BY <1>0, LateStep
      <3>2. UNCHANGED spent
        BY <1>3 DEF Asked, Inspect, Retire, Ask, Release, Clean, Rest
      <3> QED  BY <3>2
    <2>1. ASSUME NEW k, NoSourceAt(k), work'.id = work.id  PROVE NoSourceAt(k)'
      BY <1>3, <2>0, <2>1 DEF NoSourceAt, Open
    <2>2. ASSUME NEW p, NoPin(p)  PROVE NoPin(p)'
      BY <1>3, <2>0, <2>2 DEF NoPin, Open
    <2>3. ASSUME NEW k \in Keys, ~OtherClaims(work.id, k) \/ Idle(work.id, k)  PROVE NoSourceAt(k)
      <3>1. k # None
        BY NoneAssumption
      <3> QED  BY <2>3, <3>1 DEF OtherClaims, Idle, Planned, NoSourceAt
    <2>4. CASE /\ Inspect /\ work.at = "target" /\ More /\ Resolved /\ ~Refused(disk[Chosen.key])
               /\ work' = [work EXCEPT !.at = "write", !.found = disk[Chosen.key]]
      <3>1. work'.id = work.id /\ work'.op = work.op /\ work'.n = work.n /\ work'.found = disk[Chosen.key] /\ work'.at = "write"
        BY <1>3, <2>4 DEF Work
      <3>2. Chosen.key \in Keys
        BY <1>0, <1>3, <2>4, AtTarget
      <3>3. disk[Chosen.key] # Absent => NoSourceAt(Chosen.key)
        BY <2>3, <2>4, <3>2 DEF Refused
      <3> QED  BY <2>1, <3>1, <3>3 DEF RemovalAlone, Replacement, Chosen
    <2>5. CASE work.at = "retire" /\ \E k \in work.left : work' = [work EXCEPT !.at = "ask", !.key = k]
      <3>1. work'.at = "ask"
        BY <1>3, <2>5 DEF Work
      <3> QED  BY <3>1 DEF RemovalAlone, Replacement
    <2>6. CASE work.at = "ask" /\ Idle(work.id, work.key) /\ work' = [work EXCEPT !.at = "keep"]
      <3>1. work'.id = work.id /\ work'.op = work.op /\ work'.key = work.key /\ work'.at = "keep"
        BY <1>3, <2>6 DEF Work
      <3>2. work.key \in Keys
        BY <1>0, <1>3, <2>6 DEF ShapeInv, WorkShaped
      <3> QED  BY <2>1, <2>3, <2>6, <3>1, <3>2 DEF RemovalAlone, Replacement
    <2>7. CASE /\ work.at = "release"
               /\ \E k \in work.left : ~OtherClaims(work.id, k) /\ work' = [work EXCEPT !.at = "drop", !.key = k]
      <3>1. PICK k \in work.left : ~OtherClaims(work.id, k) /\ work' = [work EXCEPT !.at = "drop", !.key = k]
        BY <2>7
      <3>2. work'.id = work.id /\ work'.op = work.op /\ work'.key = k /\ work'.at = "drop" /\ k \in Keys
        BY <1>3, <3>1 DEF Work
      <3> QED  BY <2>1, <2>3, <3>1, <3>2 DEF RemovalAlone, Replacement
    <2>8. CASE Clean /\ work.at = "clean" /\ \E p \in Leftover : work' = [work EXCEPT !.at = "dropingress", !.pin = p]
      <3>1. PICK p \in Leftover : work' = [work EXCEPT !.at = "dropingress", !.pin = p]
        BY <2>8
      <3>2. work'.pin = p /\ work'.at = "dropingress" /\ NoPin(p)
        BY <1>3, <3>1 DEF Work, Leftover, PinInUse, NoPin
      <3> QED  BY <2>2, <3>2 DEF RemovalAlone, Replacement
    <2>9. CASE Clean /\ work.at = "clean" /\ ~PinInUse(work.op.pin) /\ work' = [work EXCEPT !.at = "droppin"]
      <3>1. work'.op = work.op /\ work'.at = "droppin" /\ NoPin(work.op.pin)
        BY <1>3, <2>9 DEF Work, PinInUse, NoPin
      <3> QED  BY <2>2, <3>1 DEF RemovalAlone, Replacement
    <2> QED  BY <1>3, <2>4, <2>5, <2>6, <2>7, <2>8, <2>9 DEF Asked
  <1>4. CASE Swap /\ work' # None /\ work'.at \notin Harmless
    <2>1. /\ work # None /\ work'.id = work.id /\ work'.op = work.op /\ work'.n = work.n /\ UNCHANGED <<ops, spent>>
          /\ \/ Replacement /\ work'.at \in {"retain", "capture", "replace"}
             \/ work.at = "keep" /\ work'.at \in {"unlink", "delete"} /\ work'.key = work.key
      BY <1>0, <1>4, SwapMove DEF Harmless
    <2>2. ASSUME NEW k, NoSourceAt(k)  PROVE NoSourceAt(k)'
      BY <2>1, <2>2 DEF NoSourceAt, Open
    <2> QED  BY <2>1, <2>2 DEF RemovalAlone, Replacement, Chosen
  <1> QED  BY <1>1, <1>2, <1>3, <1>4, AskedStep

\* Bytes that an unfinished plan has pinned are not taken away.
LEMMA PinnedBytesStay ==
  ASSUME ShapeInv, [Next]_vars, NEW i \in DOMAIN ops, Live(i) \/ (ops[i].state = "cancelled" /\ ~CompletedAfter(i)),
         staged[i] = ops[i].content
  PROVE  staged'[i] = ops[i].content
  <1>1. i \in Ids /\ ops[i].content # Absent
    BY OpIds, OpFields, NoneAssumption DEF ShapeInv
  <1>2. ~(work # None /\ work.at = "staged" /\ i = work.id /\ staged[i] # work.op.content)
    BY AtWork DEF Alike, Locked
  <1>3. ~(work # None /\ work.at = "clean" /\ i = work.id /\ Settled(i))
    <2>1. SUFFICES ASSUME work # None, work.at = "clean", i = work.id, Settled(i)  PROVE FALSE
      OBVIOUS
    <2>2. Terminal(ops[i]) /\ ~Live(i)
      BY <2>1, AtClean DEF Cleaning, Live, Executing
    <2>3. \E j \in {i} \cup Later(i) : ops[j].state = "complete"
      BY <2>1, SettledLater
    <2> QED  BY <2>2, <2>3 DEF CompletedAfter
  <1> QED  BY <1>1, <1>2, <1>3, StagedStep

LEMMA WithdrawnHeldStep ==
  ASSUME PlansInv, [Next]_vars
  PROVE  WithdrawnHeld'
  <1>0. ShapeInv /\ LiveHeld /\ WithdrawnHeld
    BY DEF PlansInv, LedgerInv, LineInv, AlignedInv
  <1> SUFFICES ASSUME NEW i \in DOMAIN ops', ops'[i].state = "cancelled", ops'[i].pinned, ~CompletedAfter(i)'
               PROVE  staged'[i] = ops'[i].content
    BY DEF WithdrawnHeld
  <1>1. i \in DOMAIN ops
    BY <1>0, NewRowFields
  <1>2. ~CompletedAfter(i)
    BY <1>0, <1>1, LaterStep DEF CompletedAfter
  <1>3. RowKept(i) /\ ops'[i].content = ops[i].content
    BY <1>0, <1>1, RowStep DEF RowKept, SamePlan
  <1>4. CASE ~ops[i].pinned
    BY <1>3, <1>4 DEF RowKept
  <1>5. CASE ops[i].pinned
    <2>1. ops[i].state # "complete"
      BY <1>3 DEF RowKept
    <2>2. Live(i) \/ ops[i].state = "cancelled"
      BY <2>1 DEF Live, Terminal
    <2>3. staged[i] = ops[i].content
      BY <1>0, <1>1, <1>2, <1>5, <2>2 DEF LiveHeld, WithdrawnHeld
    <2> QED  BY <1>0, <1>1, <1>2, <1>3, <2>2, <2>3, PinnedBytesStay
  <1> QED  BY <1>4, <1>5

\* The endpoint an unfinished plan takes its bytes from is not emptied or written
\* over by the service before they are pinned.
LEMMA SourceStays ==
  ASSUME PlansInv, [Next]_vars, NEW i \in DOMAIN ops, Live(i), i \notin spent.late,
         ops[i].shape.targets # <<>>, ops[i].source # None,
         disk[ops[i].source] = ops[i].content \/ touched[ops[i].source], staged[i] # ops[i].content
  PROVE  disk'[ops[i].source] = ops[i].content \/ touched'[ops[i].source]
  <1>0. AlignedInv /\ ShapeInv /\ TypeOK /\ RemovalAlone /\ disk \in [Keys -> Bytes] /\ touched \in [Keys -> BOOLEAN]
    BY DEF PlansInv, LedgerInv, LineInv, AlignedInv, ShapeInv, TypeOK
  <1>1. ops[i] \in Op /\ ops[i].content # Absent
    BY <1>0, OpIds, OpFields, NoneAssumption
  <1>2. PICK k \in Keys : k = ops[i].source
    BY <1>1 DEF Op
  <1>3. CASE disk'[k] = disk[k] /\ touched'[k] = touched[k]
    BY <1>2, <1>3
  <1>4. CASE \E f \in ForeignKeys, b \in Bytes : Foreign(f, b)
    <2>1. PICK f \in ForeignKeys, b \in Bytes : Foreign(f, b)
      BY <1>4
    <2>2. disk' = [disk EXCEPT ![f] = b] /\ touched' = [touched EXCEPT ![f] = TRUE]
      BY <2>1 DEF Foreign
    <2> QED  BY <1>0, <1>2, <2>2
  <1>5. CASE EditTake \/ EditPlace
    BY <1>0, <1>2, <1>5 DEF EditTake, EditPlace
  <1>9. ASSUME NEW x, PutsBack(x), touched[x], UNCHANGED touched
        PROVE  disk'[k] = ops[i].content \/ touched'[k]
    <2>1. CASE k = x
      BY <1>9, <2>1
    <2> QED  BY <1>0, <1>2, <1>9, <2>1 DEF PutsBack
  <1>10. CASE EditRefused /\ lock = "taken" /\ PutsBack(Edited.key) /\ UNCHANGED touched
    BY <1>0, <1>2, <1>9, <1>10 DEF AlignedInv, Watched
  <1>11. CASE Restore /\ PutsBack(work.key) /\ UNCHANGED touched
    BY <1>0, <1>2, <1>9, <1>11 DEF AlignedInv, Watched, Restore, At
  <1>6. ASSUME work # None, work.at \in Locked \ {"stage", "staged"}  PROVE i # work.id /\ i \in Open
    <2>1. i # work.id
      <3>1. SUFFICES ASSUME i = work.id  PROVE FALSE
        OBVIOUS
      <3>2. Alike(work.op, ops[i])
        BY <1>0, <1>6, <3>1, AtWork
      <3>3. NeedsBytes
        BY <3>2 DEF NeedsBytes, Alike
      <3> QED  BY <1>0, <1>6, <3>1, <3>2, <3>3, AtWork DEF Alike
    <2> QED  BY <2>1 DEF Live, Open
  <1>7. CASE Puts
    <2>0. /\ work # None /\ work.at \in Placing /\ work.at \in Locked \ {"stage", "staged"}
          /\ disk' = [disk EXCEPT ![Chosen.key] = staged[work.id]]
          /\ touched' = [touched EXCEPT ![Chosen.key] = @ /\ OtherClaims(work.id, Chosen.key)]
          /\ work.at # "replace" => disk[Chosen.key] = Absent
      BY <1>7 DEF Puts, Publishes, Placing, Locked
    <2>1. CASE k # Chosen.key
      BY <1>0, <1>2, <2>0, <2>1
    <2>2. CASE k = Chosen.key
      <3>1. i \in Open \ {work.id}
        BY <1>6, <2>0
      <3>2. work.at # "replace"
        BY <1>0, <1>2, <2>0, <2>2, <3>1 DEF RemovalAlone, Replacement, NoSourceAt
      <3>3. touched[k]
        BY <1>1, <1>2, <2>0, <2>2, <3>2
      <3>4. OtherClaims(work.id, k)
        <4>1. k # None
          BY NoneAssumption
        <4> QED  BY <1>2, <3>1, <4>1 DEF OtherClaims, Planned
      <3> QED  BY <1>0, <1>2, <2>0, <2>2, <3>3, <3>4
    <2> QED  BY <2>1, <2>2
  <1>12. CASE Capture /\ Takes(Chosen.key) /\ UNCHANGED touched
    <2>0. work # None /\ work.at = "capture" /\ work.at \in Locked \ {"stage", "staged"}
      BY <1>12 DEF Capture, At, Locked
    <2>1. k # Chosen.key
      BY <1>0, <1>2, <1>6, <2>0 DEF RemovalAlone, Replacement, NoSourceAt
    <2> QED  BY <1>0, <1>2, <1>12, <2>1 DEF Takes
  <1>8. CASE (Unlink \/ Delete \/ Drop) /\ disk' = [disk EXCEPT ![work.key] = Absent] /\ UNCHANGED touched
    <2>0. work # None /\ work.at \in {"unlink", "delete", "drop"} /\ work.at \in Locked \ {"stage", "staged"}
      BY <1>8 DEF Unlink, Delete, Drop, At, Locked
    <2>1. k # work.key
      BY <1>0, <1>2, <1>6, <2>0 DEF RemovalAlone, NoSourceAt
    <2> QED  BY <1>0, <1>2, <1>8, <2>1
  <1> QED  BY <1>0, <1>2, <1>3, <1>4, <1>5, <1>7, <1>8, <1>10, <1>11, <1>12, DiskStep DEF Takes

\* Nor is the edit's pin it takes its bytes from deleted.
LEMMA PinStays ==
  ASSUME PlansInv, [Next]_vars, NEW i \in DOMAIN ops, Live(i), i \notin spent.late, ops[i].pin # 0
  PROVE  cache'[ops[i].pin] = cache[ops[i].pin]
  <1>0. AlignedInv /\ ShapeInv /\ TypeOK /\ RemovalAlone
    BY DEF PlansInv, LedgerInv, LineInv, AlignedInv, ShapeInv
  <1>1. ops[i].pin \in DOMAIN ingress
    <2>1. ops[i].pin <= Len(ingress) /\ ops[i].pin \in Nat
      BY <1>0, OpIds, OpFields DEF ShapeInv, JournalShaped
    <2> QED  BY <1>0, <2>1, IngressIds
  <1>2. ~(lock \in {"edit", "taken"} /\ ops[i].pin = Len(ingress) /\ ~PinInUse(Len(ingress)))
    <2>1. SUFFICES ASSUME lock \in {"edit", "taken"}, ops[i].pin = Len(ingress), ~PinInUse(Len(ingress))  PROVE FALSE
      OBVIOUS
    <2>2. Terminal(ops[i])
      BY <2>1 DEF PinInUse, Open
    <2>3. ops[i].pin < Len(ingress)
      BY <1>0, <2>1, <2>2, EditFields
    <2> QED  BY <1>0, <2>1, <2>3, IngressIds
  <1>3. ~(work = None /\ ~PinInUse(ops[i].pin))
    BY DEF Live, Executing, PinInUse, Open
  <1>4. ~(work # None /\ work.at = "dropingress" /\ ops[i].pin = work.pin)
    BY <1>0 DEF RemovalAlone, NoPin, Live, Executing, Cleaning, Open
  <1>5. ~(work # None /\ work.at = "droppin" /\ ops[i].pin = work.op.pin)
    BY <1>0 DEF RemovalAlone, NoPin, Live, Executing, Cleaning, Open
  <1>6. ~Unpinned(ops[i].pin)
    BY <1>2, <1>3, <1>4, <1>5 DEF Unpinned
  <1> QED  BY <1>0, <1>1, <1>6, PinStep

LEMMA LiveHeldStep ==
  ASSUME PlansInv, [Next]_vars
  PROVE  LiveHeld'
  <1>0. AlignedInv /\ ShapeInv /\ TypeOK /\ LiveHeld
    BY DEF PlansInv, LedgerInv, LineInv, AlignedInv, ShapeInv
  <1> SUFFICES ASSUME NEW i \in DOMAIN ops', Live(i)'
               PROVE  /\ ops'[i].pinned => staged'[i] = ops'[i].content
                      /\ i \notin spent'.late /\ ops'[i].shape.targets # <<>> =>
                           \/ staged'[i] = ops'[i].content
                           \/ ops'[i].pin # 0 /\ cache'[ops'[i].pin] = ops'[i].content
                           \/ /\ ops'[i].source # None
                              /\ disk'[ops'[i].source] = ops'[i].content \/ touched'[ops'[i].source]
    BY DEF LiveHeld
  <1>1. CASE i \notin DOMAIN ops
    <2>1. PICK r \in NewReceipts :
            /\ ops'[i].pin = r.pin /\ ops'[i].source = r.source /\ ops'[i].content = r.content
            /\ ~ops'[i].pinned
            /\ i \notin spent'.late => ~Doomed(r)
            /\ UNCHANGED <<disk, cache>>
      BY <1>0, <1>1, LateStep
    <2>2. CASE r.source \in r.shape.from /\ disk[r.source] = r.content
      <3>1. r.source # None
        <4>1. r \in Op
          BY <1>0, Receipts
        <4>2. r.shape \in Shape
          BY <4>1, OpFields
        <4> QED  BY <2>2, <4>2, NoneAssumption, DiskAssumption DEF Shape
      <3> QED  BY <2>1, <2>2, <3>1
    <2>3. CASE r.pin \in DOMAIN ingress
      <3>1. r.pin # 0
        BY <1>0, <2>3, IngressIds
      <3>2. ~Doomed(r) => cache[r.pin] = r.content
        BY <3>1 DEF Doomed
      <3> QED  BY <2>1, <3>1, <3>2
    <2> QED  BY <1>0, <2>2, <2>3, Receipts
  <1>2. CASE i \in DOMAIN ops
    <2>1. Live(i)
      BY <1>0, <1>2, LiveStep
    <2>2. RowKept(i) /\ SamePlan(ops[i], ops'[i])
      BY <1>0, <1>2, RowStep DEF RowKept
    <2>3. staged[i] = ops[i].content => staged'[i] = ops[i].content
      BY <1>0, <1>2, <2>1, PinnedBytesStay
    <2>4. ops'[i].pinned => staged'[i] = ops'[i].content
      BY <1>0, <1>2, <2>1, <2>2, <2>3 DEF LiveHeld, RowKept, SamePlan
    <2>5. ASSUME i \notin spent'.late, ops'[i].shape.targets # <<>>, staged'[i] # ops'[i].content
          PROVE  \/ ops[i].pin # 0 /\ cache'[ops[i].pin] = ops[i].content
                 \/ ops[i].source # None /\ (disk'[ops[i].source] = ops[i].content \/ touched'[ops[i].source])
      <3>1. i \notin spent.late /\ ops[i].shape.targets # <<>> /\ staged[i] # ops[i].content
        BY <1>0, <1>2, <2>2, <2>3, <2>5, LateStep DEF SamePlan
      <3>2. \/ ops[i].pin # 0 /\ cache[ops[i].pin] = ops[i].content
            \/ ops[i].source # None /\ (disk[ops[i].source] = ops[i].content \/ touched[ops[i].source])
        BY <1>0, <1>2, <2>1, <3>1 DEF LiveHeld
      <3> QED  BY <1>2, <2>1, <3>1, <3>2, PinStays, SourceStays
    <2> QED  BY <2>2, <2>4, <2>5 DEF SamePlan
  <1> QED  BY <1>1, <1>2

\* A later generation that is verified stays so.
LEMMA OutlivedStays ==
  ASSUME AlignedInv, [Next]_vars, NEW i \in DOMAIN ops, OutlivedSoon(i)
  PROVE  OutlivedSoon(i)'
  <1>1. PICK j \in Later(i) : ops[j].state = "complete" \/ AllVerified(ops[j])
    BY DEF OutlivedSoon
  <1>2. j \in DOMAIN ops /\ j \in Later(i)'
    BY LaterStep DEF AlignedInv, Later
  <1>3. ops[j].state = "complete" => ops'[j].state = "complete"
    BY <1>1, LaterStep DEF AlignedInv
  <1>4. AllVerified(ops[j]) => AllVerified(ops'[j])
    BY <1>2, VerifiedKept
  <1> QED  BY <1>1, <1>2, <1>3, <1>4 DEF OutlivedSoon

\* The operation at work comes after every completed one of its owner.
LEMMA WorksLater ==
  ASSUME LineInv, NEW i \in DOMAIN ops, ops[i].state = "complete",
         NEW j \in DOMAIN ops, Live(j), ops[j].shape.owner = ops[i].shape.owner
  PROVE  j \in Later(i)
  <1>1. i <= Entry(ops[i].shape.owner).op /\ j > Entry(ops[i].shape.owner).op
    BY DEF LineInv, Newest
  <1>2. i \in Nat /\ j \in Nat /\ ops[i].shape.owner \in Owners
    BY OpIds, OpFields DEF LineInv, AlignedInv, ShapeInv
  <1>3. Entry(ops[i].shape.owner).op \in Nat
    BY <1>2, EntryType DEF LineInv, AlignedInv, ShapeInv
  <1>4. j > i
    BY <1>1, <1>2, <1>3
  <1> QED  BY <1>4 DEF Later

\* The ledger names the copies of a completed generation until a later one is
\* verified.
LEMMA CopyNamed ==
  ASSUME PlansInv, [Next]_vars, NEW i \in DOMAIN ops, ops[i].state = "complete", ~OutlivedSoon(i)',
         NEW o \in Owners, o = ops[i].shape.owner, NEW r \in Replicas(o)
  PROVE  \E x \in Replicas(o)' : x.key = r.key
  <1>0. LineInv /\ AlignedInv /\ ShapeInv /\ TypeOK
    BY DEF PlansInv, LedgerInv, LineInv, AlignedInv, ShapeInv
  <1>1. r \in Replica /\ owners[o] # None
    BY <1>0, EntryType
  <1>2. CASE Complete /\ work # None /\ o = work.op.shape.owner
    <2>1. work.id \in DOMAIN ops /\ Executing /\ ops'[work.id].state = "complete" /\ work.op.shape = ops[work.id].shape
      BY <1>0, <1>2, Completed
    <2>2. PICK id \in DOMAIN ops : id = work.id
      BY <2>1
    <2>3. id \in Later(i)
      BY <1>0, <1>2, <2>1, <2>2, WorksLater DEF Live
    <2>4. id \in Later(i)'
      BY <1>0, <2>3, LaterStep
    <2> QED  BY <2>1, <2>2, <2>4 DEF OutlivedSoon
  <1>3. CASE \E x \in Replicas(o) : /\ x \in Replica /\ Adopt(o, x)
                                    /\ Replicas(o)' = (Replicas(o) \ {x}) \cup {[x EXCEPT !.managed = TRUE]}
    <2>1. PICK x \in Replicas(o) : x \in Replica /\ Replicas(o)' = (Replicas(o) \ {x}) \cup {[x EXCEPT !.managed = TRUE]}
      BY <1>3
    <2>2. [x EXCEPT !.managed = TRUE].key = x.key
      BY <2>1 DEF Replica
    <2> QED  BY <2>1, <2>2
  <1>4. CASE \E g \in NewReceipts : \E j \in Open :
               Supersede(j, g) /\ o = ops[j].shape.owner /\ Replicas(o)' = Inherited(ops[j])
    <2>1. PICK j \in Open : o = ops[j].shape.owner /\ Replicas(o)' = Inherited(ops[j])
      BY <1>4
    <2>2. CASE \E n \in LandedAt(ops[j]) : ops[j].outcomes[n].key = r.key
      <3>1. PICK n \in LandedAt(ops[j]) : ops[j].outcomes[n].key = r.key
        BY <2>2
      <3>2. Installed(ops[j], n) \in Inherited(ops[j])
        BY <3>1 DEF Inherited, Installed, LandedAt
      <3> QED  BY <2>1, <3>1, <3>2 DEF Installed
    <2>3. CASE \A n \in LandedAt(ops[j]) : ops[j].outcomes[n].key # r.key
      <3>1. r \in Inherited(ops[j])
        BY <1>1, <2>1, <2>3 DEF Inherited, LandedAt
      <3> QED  BY <2>1, <3>1
    <2> QED  BY <2>2, <2>3
  <1>5. CASE Replicas(o)' = Replicas(o)
    BY <1>5
  <1> QED  BY <1>0, <1>2, <1>3, <1>4, <1>5, ReplicasStep DEF Rewritten

\* A copy of a completed generation stays, until another writer or a later
\* generation of the owner takes its place.
LEMMA CopyThere ==
  ASSUME PlansInv, [Next]_vars, NEW i \in DOMAIN ops, ops[i].state = "complete", ~OutlivedSoon(i),
         NEW k \in Outcomes(ops[i]), CopyHeld(i, k)
  PROVE  disk'[k] = ops[i].content \/ touched'[k] \/ \E j \in Later(i) : k \in Outcomes(ops'[j])
  <1>0. /\ LineInv /\ AlignedInv /\ ShapeInv /\ TypeOK /\ AloneAt
        /\ disk \in [Keys -> Bytes] /\ touched \in [Keys -> BOOLEAN]
    BY DEF PlansInv, LedgerInv, LineInv, AlignedInv, ShapeInv, TypeOK
  <1>1. ops[i] \in Op /\ ops[i].content # Absent /\ ops[i].shape.owner \in Owners /\ k \in Keys
    <2>1. ops[i] \in Op
      BY <1>0, OpIds
    <2>2. \A n \in DOMAIN ops[i].outcomes : ops[i].outcomes[n].key \in Keys
      BY <2>1, OpFields DEF Outcome
    <2> QED  BY <2>1, <2>2, OpFields, NoneAssumption DEF Outcomes
  <1>2. PICK r \in Replicas(ops[i].shape.owner) : r.key = k
    BY DEF CopyHeld
  <1>3. ASSUME NEW j \in Later(i), k \in Outcomes(ops[j])  PROVE k \in Outcomes(ops'[j])
    BY <1>0, <1>3, OutcomesGrow DEF Later
  <1>4. CASE disk'[k] = disk[k] /\ touched'[k] = touched[k]
    BY <1>3, <1>4 DEF CopyHeld
  <1>5. CASE (\E f \in ForeignKeys, b \in Bytes : Foreign(f, b)) \/ EditTake \/ EditPlace
    <2>1. \A x \in Keys : \/ disk'[x] = disk[x] /\ touched'[x] = touched[x]
                          \/ touched'[x]
      BY <1>0, <1>5 DEF Foreign, EditTake, EditPlace
    <2> QED  BY <1>1, <1>4, <2>1
  <1>10. ASSUME NEW x, PutsBack(x), touched[x], UNCHANGED touched
         PROVE  touched'[k] \/ (disk'[k] = disk[k] /\ touched'[k] = touched[k])
    <2>1. CASE k = x
      BY <1>10, <2>1
    <2> QED  BY <1>0, <1>1, <1>10, <2>1 DEF PutsBack
  <1>11. CASE EditRefused /\ lock = "taken" /\ PutsBack(Edited.key) /\ UNCHANGED touched
    BY <1>0, <1>4, <1>10, <1>11 DEF AlignedInv, Watched
  <1>12. CASE Restore /\ PutsBack(work.key) /\ UNCHANGED touched
    BY <1>0, <1>4, <1>10, <1>12 DEF AlignedInv, Watched, Restore, At
  <1>6. ASSUME work # None, work.at \in Locked, ops[work.id].shape.owner = ops[i].shape.owner
        PROVE  work.id \in Later(i)
    <2>1. work.id \in DOMAIN ops
      BY <1>0, <1>6, AtWork
    <2>2. Live(work.id)
      BY <1>6 DEF Live, Executing, Locked, Cleaning
    <2> QED  BY <1>0, <1>6, <2>1, <2>2, WorksLater
  <1>7. CASE Puts /\ UNCHANGED ops
    <2>0. /\ work # None /\ work.at \in Placing /\ work.at \in Locked /\ UNCHANGED ops
          /\ disk' = [disk EXCEPT ![Chosen.key] = staged[work.id]]
          /\ touched' = [touched EXCEPT ![Chosen.key] = @ /\ OtherClaims(work.id, Chosen.key)]
          /\ work.at # "replace" => disk[Chosen.key] = Absent
      BY <1>7 DEF Puts, Publishes, Placing, Locked
    <2>1. work.n \in DOMAIN work.op.outcomes /\ work.id \in DOMAIN ops /\ Alike(work.op, ops[work.id])
      BY <1>0, <2>0, AtWrite, AtWork DEF Placing
    <2>2. CASE k # Chosen.key
      BY <1>0, <1>1, <1>4, <2>0, <2>2
    <2>3. CASE k = Chosen.key /\ ops[work.id].shape.owner = ops[i].shape.owner
      <3>1. work.id \in Later(i)
        BY <1>6, <2>0, <2>3
      <3>2. k \in Outcomes(ops[work.id])
        BY <2>1, <2>3 DEF Outcomes, Chosen, Alike
      <3> QED  BY <2>0, <3>1, <3>2
    <2>4. CASE k = Chosen.key /\ ops[work.id].shape.owner # ops[i].shape.owner
      <3>1. work.at # "replace"
        BY <1>0, <1>1, <1>2, <2>0, <2>1, <2>4 DEF AloneAt, Replacement, OwnOnly, Alike
      <3>2. disk[k] # ops[i].content
        BY <1>1, <2>0, <2>4, <3>1
      <3>3. OtherClaims(work.id, k)
        BY <1>1, <1>2, <2>1, <2>4 DEF OtherClaims
      <3>4. touched[k] => touched'[k]
        BY <1>0, <1>1, <2>0, <2>4, <3>3
      <3> QED  BY <1>3, <3>2, <3>4 DEF CopyHeld
    <2> QED  BY <2>2, <2>3, <2>4
  <1>13. CASE Capture /\ Takes(Chosen.key) /\ UNCHANGED <<touched, ops>>
    <2>0. work # None /\ work.at = "capture" /\ work.at \in Locked
      BY <1>13 DEF Capture, At, Locked
    <2>1. work.n \in DOMAIN work.op.outcomes /\ work.id \in DOMAIN ops /\ Alike(work.op, ops[work.id])
      BY <1>0, <2>0, AtWrite, AtWork
    <2>2. CASE k # Chosen.key
      BY <1>0, <1>1, <1>4, <1>13, <2>2 DEF Takes
    <2>3. CASE k = Chosen.key
      <3>1. ops[work.id].shape.owner = ops[i].shape.owner
        BY <1>0, <1>1, <1>2, <2>0, <2>1, <2>3 DEF AloneAt, Replacement, OwnOnly, Alike
      <3>2. work.id \in Later(i)
        BY <1>6, <2>0, <3>1
      <3>3. k \in Outcomes(ops[work.id])
        BY <2>1, <2>3 DEF Outcomes, Chosen, Alike
      <3> QED  BY <1>13, <3>2, <3>3
    <2> QED  BY <2>2, <2>3
  <1>8. CASE (Unlink \/ Delete \/ Drop) /\ disk' = [disk EXCEPT ![work.key] = Absent] /\ UNCHANGED touched
    <2>0. work # None /\ work.at \in {"unlink", "delete", "drop"} /\ work.at \in Locked /\ work.at \in Past
      BY <1>8 DEF Unlink, Delete, Drop, At, Locked, Past
    <2>1. CASE k # work.key
      BY <1>0, <1>1, <1>4, <1>8, <2>1
    <2>2. CASE k = work.key
      <3>1. work.id \in DOMAIN ops /\ Alike(work.op, ops[work.id])
        BY <1>0, <2>0, AtWork
      <3>2. ops[work.id].shape.owner = ops[i].shape.owner
        BY <1>0, <1>1, <1>2, <2>0, <2>2, <3>1 DEF AloneAt, OwnOnly, Alike
      <3>3. AllVerified(ops[work.id])
        BY <1>0, <2>0, <3>1 DEF AlignedInv, Aligned, AllVerified, Alike
      <3> QED  BY <1>6, <2>0, <3>2, <3>3 DEF OutlivedSoon
    <2> QED  BY <2>1, <2>2
  <1>9. CASE UNCHANGED <<disk, touched>>
    BY <1>4, <1>9
  <1> QED  BY <1>0, <1>5, <1>7, <1>8, <1>9, <1>11, <1>12, <1>13, DiskStep DEF Takes

\* A generation that completes has every copy in its place.
LEMMA JustCompleted ==
  ASSUME PlansInv, [Next]_vars, Complete
  PROVE  /\ Len(ops'[work.id].outcomes) = Len(ops'[work.id].shape.targets)
         /\ \A k \in Outcomes(ops'[work.id]) :
              /\ \E r \in Result(work.op) : r.key = k
              /\ disk'[k] = ops'[work.id].content \/ touched'[k]
  <1>0. AlignedInv /\ ShapeInv /\ Landed
    BY DEF PlansInv, LedgerInv, LandedInv, LineInv, AlignedInv
  <1>1. /\ work # None /\ work.at = "release" /\ work.at \in Locked /\ work.at \in Past
        /\ ops' = [ops EXCEPT ![work.id] = [work.op EXCEPT !.state = "complete"]] /\ UNCHANGED <<disk, touched>>
    BY DEF Complete, At, Save, Locked, Past
  <1>2. work.op \in Op /\ work.id \in DOMAIN ops
    BY <1>0, <1>1, AtWork
  <1> DEFINE row == [work.op EXCEPT !.state = "complete"]
  <1>3. /\ row \in Op /\ row.outcomes = work.op.outcomes /\ row.shape = work.op.shape /\ row.content = work.op.content
    BY <1>2 DEF Op
  <1>4. ops' = [ops EXCEPT ![work.id] = row]
    BY <1>1
  <1> HIDE DEF row
  <1>5. ops'[work.id] = row
    BY <1>0, <1>1, <1>2, <1>3, <1>4, Written
  <1>6. PlacedEverywhere(work.op)
    BY <1>0, <1>1 DEF Landed
  <1>7. \A n \in DOMAIN work.op.outcomes : Installed(work.op, n) \in Result(work.op) /\ Installed(work.op, n).key = work.op.outcomes[n].key
    BY DEF Result, Installed
  <1> QED  BY <1>1, <1>3, <1>5, <1>6, <1>7 DEF PlacedEverywhere, AllVerified, Outcomes

LEMMA CompleteHeldStep ==
  ASSUME PlansInv, [Next]_vars
  PROVE  CompleteHeld'
  <1>0. LineInv /\ AlignedInv /\ ShapeInv /\ TypeOK /\ CompleteHeld
    BY DEF PlansInv, LedgerInv, LineInv, AlignedInv, ShapeInv
  <1> SUFFICES ASSUME NEW i \in DOMAIN ops', ops'[i].state = "complete", ~OutlivedSoon(i)'
               PROVE  /\ Len(ops'[i].outcomes) = Len(ops'[i].shape.targets)
                      /\ \A k \in Outcomes(ops'[i]) :
                           /\ \E o \in Owners : o = ops'[i].shape.owner /\ \E r \in Replicas(o)' : r.key = k
                           /\ disk'[k] = ops'[i].content \/ touched'[k] \/ \E j \in Later(i)' : k \in Outcomes(ops'[j])
    BY DEF CompleteHeld, CopyHeld
  <1>1. i \in DOMAIN ops
    <2>1. i \notin DOMAIN ops => ops'[i].state = "pending"
      BY <1>0, NewRowFields
    <2> QED  BY <2>1
  <1>2. SamePlan(ops[i], ops'[i]) /\ ops[i].shape.owner \in Owners /\ (ops[i].state = "complete" \/ (Complete /\ i = work.id))
    BY <1>0, <1>1, RowStep, OpIds, OpFields DEF RowKept
  <1>3. PICK o \in Owners : o = ops[i].shape.owner /\ o = ops'[i].shape.owner
    BY <1>2 DEF SamePlan
  <1>4. CASE Complete /\ i = work.id
    <2>1. o = work.op.shape.owner
      BY <1>0, <1>1, <1>3, <1>4, Completed
    <2>2. Replicas(o)' = Result(work.op)
      BY <1>0, <1>4, <2>1, ReplicasStep
    <2>3. /\ Len(ops'[i].outcomes) = Len(ops'[i].shape.targets)
          /\ \A k \in Outcomes(ops'[i]) : (\E r \in Result(work.op) : r.key = k) /\ (disk'[k] = ops'[i].content \/ touched'[k])
      BY <1>4, JustCompleted
    <2> QED  BY <1>3, <2>2, <2>3
  <1>5. CASE ops[i].state = "complete"
    <2>1. ~OutlivedSoon(i)
      BY <1>0, <1>1, OutlivedStays
    <2>2. ops'[i].outcomes = ops[i].outcomes
      <3>1. ~(work # None /\ work.at \in {"target", "verify"} /\ i = work.id)
        BY <1>0, <1>5, AtWork DEF Locked
      <3> QED  BY <1>0, <1>1, <3>1, OutcomesStep
    <2>3. /\ Len(ops[i].outcomes) = Len(ops[i].shape.targets)
          /\ \A k \in Outcomes(ops[i]) : CopyHeld(i, k)
      BY <1>0, <1>1, <1>5, <2>1 DEF CompleteHeld
    <2>4. Outcomes(ops'[i]) = Outcomes(ops[i])
      BY <2>2 DEF Outcomes
    <2>5. ASSUME NEW k \in Outcomes(ops[i])
          PROVE  \E x \in Replicas(o)' : x.key = k
      <3>1. PICK r \in Replicas(o) : r.key = k
        BY <1>3, <2>3, <2>5 DEF CopyHeld
      <3> QED  BY <1>1, <1>3, <1>5, <3>1, CopyNamed
    <2>6. ASSUME NEW k \in Outcomes(ops[i])
          PROVE  disk'[k] = ops[i].content \/ touched'[k] \/ \E j \in Later(i)' : k \in Outcomes(ops'[j])
      <3>1. disk'[k] = ops[i].content \/ touched'[k] \/ \E j \in Later(i) : k \in Outcomes(ops'[j])
        BY <1>1, <1>5, <2>1, <2>3, <2>6, CopyThere
      <3> QED  BY <1>0, <1>1, <3>1, LaterStep
    <2> QED  BY <1>2, <1>3, <2>2, <2>3, <2>4, <2>5, <2>6 DEF SamePlan
  <1> QED  BY <1>2, <1>4, <1>5

\* What the three parts say of a plan is the promise.
LEMMA HeldKeepsPlans ==
  ASSUME PlansInv
  PROVE  PlansKept
  <1>0. ShapeInv /\ TypeOK /\ LiveHeld /\ WithdrawnHeld /\ CompleteHeld
    BY DEF PlansInv, LedgerInv, LineInv, AlignedInv, ShapeInv
  <1> SUFFICES ASSUME NEW i \in DOMAIN ops, Promised(i), ~Outlived(i), ~TakenAway(i)
               PROVE  Somewhere(ops[i].content)
    BY DEF PlansKept
  <1>1. ops[i] \in Op /\ i \in Ids
    BY <1>0, OpIds
  <1>2. CASE Live(i)
    <2>1. \/ staged[i] = ops[i].content
          \/ ops[i].pin # 0 /\ cache[ops[i].pin] = ops[i].content
          \/ ops[i].source # None /\ (disk[ops[i].source] = ops[i].content \/ touched[ops[i].source])
      BY <1>0, <1>2 DEF LiveHeld, Promised
    <2>2. CASE staged[i] = ops[i].content
      BY <1>1, <2>2 DEF Somewhere
    <2>3. CASE ops[i].pin # 0 /\ cache[ops[i].pin] = ops[i].content
      <3>1. ops[i].pin <= Len(ingress) /\ ops[i].pin \in Nat
        BY <1>0, <1>1, OpFields DEF ShapeInv, JournalShaped
      <3>2. ops[i].pin \in DOMAIN cache
        BY <1>0, <2>3, <3>1, IngressIds
      <3> QED  BY <2>3, <3>2 DEF Somewhere
    <2>4. CASE ops[i].source # None /\ (disk[ops[i].source] = ops[i].content \/ touched[ops[i].source])
      <3>1. ops[i].source \in Keys
        BY <1>1, <2>4 DEF Op
      <3>2. disk[ops[i].source] = ops[i].content
        BY <2>4 DEF TakenAway
      <3> QED  BY <3>1, <3>2 DEF Somewhere
    <2> QED  BY <2>1, <2>2, <2>3, <2>4
  <1>3. CASE ops[i].state = "cancelled"
    <2>1. staged[i] = ops[i].content
      BY <1>0, <1>3 DEF WithdrawnHeld, Promised, Outlived, CompletedAfter
    <2> QED  BY <1>1, <2>1 DEF Somewhere
  <1>4. CASE ops[i].state = "complete"
    <2>1. /\ Len(ops[i].outcomes) = Len(ops[i].shape.targets)
          /\ \A k \in Outcomes(ops[i]) : CopyHeld(i, k)
      BY <1>0, <1>4 DEF CompleteHeld, Outlived, OutlivedSoon
    <2>2. PICK k \in Outcomes(ops[i]) : \A j \in Later(i) : k \notin Outcomes(ops[j])
      BY <1>4 DEF Outlived
    <2>3. k \in Keys
      <3>1. \A n \in DOMAIN ops[i].outcomes : ops[i].outcomes[n].key \in Keys
        BY <1>1, OpFields DEF Outcome
      <3> QED  BY <3>1 DEF Outcomes
    <2>4. disk[k] = ops[i].content
      BY <2>1, <2>2 DEF CopyHeld, TakenAway
    <2> QED  BY <2>3, <2>4 DEF Somewhere
  <1> QED  BY <1>2, <1>3, <1>4 DEF Live, Terminal

LEMMA InitPlans == Init => LiveHeld /\ WithdrawnHeld /\ CompleteHeld /\ RemovalAlone
  <1> SUFFICES ASSUME Init  PROVE LiveHeld /\ WithdrawnHeld /\ CompleteHeld /\ RemovalAlone
    OBVIOUS
  <1>1. DOMAIN ops = {} /\ work = None
    BY DEF Init
  <1> QED  BY <1>1 DEF LiveHeld, WithdrawnHeld, CompleteHeld, RemovalAlone

\* Where the content of every plan is held, from its acceptance to the next
\* generation.
THEOREM PlansCorrect == StagingApart /\ TargetsApart => (Spec => []PlansInv)
  <1> SUFFICES ASSUME StagingApart, TargetsApart  PROVE Spec => []PlansInv
    OBVIOUS
  <1>1. Spec => []LedgerInv
    BY LedgerCorrect
  <1>2. Init /\ LedgerInv => PlansInv
    BY InitPlans DEF PlansInv
  <1>3. PlansInv /\ [Next]_vars /\ LedgerInv' => PlansInv'
    <2> SUFFICES ASSUME PlansInv, [Next]_vars, LedgerInv'  PROVE PlansInv'
      OBVIOUS
    <2>1. AlignedInv /\ RemovalAlone
      BY DEF PlansInv, LedgerInv, LineInv
    <2>2. LiveHeld' /\ WithdrawnHeld'
      BY LiveHeldStep, WithdrawnHeldStep
    <2>3. CompleteHeld' /\ RemovalAlone'
      BY <2>1, CompleteHeldStep, RemovalAloneStep
    <2> QED  BY <2>2, <2>3 DEF PlansInv
  <1> QED  BY <1>1, <1>2, <1>3, PTL DEF Spec

\* The service loses no bytes: NothingLost itself, for plans whose copies stay
\* clear of the staging locations the owner releases and of each other's names.
THEOREM NothingLostCorrect == StagingApart /\ TargetsApart => (Spec => []NothingLost)
  <1> SUFFICES ASSUME StagingApart, TargetsApart  PROVE Spec => []NothingLost
    OBVIOUS
  <1>1. Spec => []PlansInv
    BY PlansCorrect
  <1>2. PlansInv => PlansKept
    BY HeldKeepsPlans
  <1>3. EditsInv => EditsKept
    BY DEF EditsInv
  <1>4. PlansKept /\ EditsKept => NothingLost
    BY DEF NothingLost
  <1> QED  BY <1>1, <1>2, <1>3, <1>4, EditsCorrect, PTL

=============================================================================
