----------------------------- MODULE ReplicaService -----------------------------
(***************************************************************************)
(* sync/ReplicaService.js: the journal of replica plans and the executor    *)
(* that carries them out. Each action is a segment of a handler between two *)
(* awaits; everything it writes to LMDB is one transaction. The storage     *)
(* lock is runtime/MutationQueue.js. The Mutant operators are defects that   *)
(* the properties are shown to catch.                                        *)
(***************************************************************************)
EXTENDS Naturals, Sequences, FiniteSets

CONSTANTS
  Owners,       \* logical owners (documents)
  Keys,         \* endpoints: a backend and a key in it
  ForeignKeys,  \* the endpoints other programs write
  SourceKeys,   \* the endpoints callers hand bytes over at
  Contents,     \* content identities
  Shapes,       \* what callers ask: owner, whence, targets, what to keep and release
  Spare,        \* endpoint -> the free names onConflict "rename" tries
  OnDisk,       \* what the endpoints hold at first
  MaxOps, MaxEdits, MaxForeign, MaxFaults,  \* bounds of the instance
  MaxEvents,    \* bound of edits, foreign writes and faults together
  Absent, None

Ids == 1..MaxOps
Pins == 1..MaxEdits       \* an ingress pin is named by its seq
Bytes == Contents \cup {Absent}

Target == [key: Keys, onConflict: {"error", "rename", "overwrite"}, mirror: BOOLEAN]
Shape == [owner: Owners, from: SUBSET SourceKeys, targets: Seq(Target), preserve: SUBSET Keys, releases: BOOLEAN]
ASSUME ShapesAssumption ==
  /\ Shapes \subseteq Shape
  /\ \A s \in Shapes : \A m, n \in DOMAIN s.targets : s.targets[m].key = s.targets[n].key => m = n
(* Only staging is released: a private blob store that nobody else writes. *)
ASSUME StagingAssumption == \A s \in Shapes : s.releases => s.from \cap ForeignKeys = {}
ASSUME DiskAssumption == ForeignKeys \cup SourceKeys \subseteq Keys /\ Spare \in [Keys -> SUBSET Keys] /\ OnDisk \in [Keys -> Bytes]
ASSUME NoneAssumption == None \notin Bytes \cup Keys /\ Absent \notin Contents
ASSUME BoundsAssumption == {MaxOps, MaxEdits, MaxForeign, MaxFaults, MaxEvents} \subseteq Nat

Replica == [key: Keys, asked: Keys, content: Contents, managed: BOOLEAN, mirror: BOOLEAN]
Outcome == [key: Keys, asked: Keys, managed: BOOLEAN, mirror: BOOLEAN,
            expected: Bytes, replaces: Bytes, verified: BOOLEAN]
Ledger == [op: 0..MaxOps, replicas: SUBSET Replica]

(* A journal row. "pin" is sourceCacheKey with ingressSeq (0: none), "heir"
   supersededBy (0: none), "waiting" a nextAt in the future. *)
Location == [key: Keys, content: Contents]

Op == [shape: Shapes, content: Contents, source: Keys \cup {None}, pin: 0..MaxEdits,
       release: SUBSET Location,
       state: {"pending", "running", "blocked", "complete", "cancelled"},
       base: Ledger \cup {None}, outcomes: Seq(Outcome),
       pinned: BOOLEAN, heir: 0..MaxOps, waiting: BOOLEAN, cleaned: BOOLEAN]

Ingress == [owner: Owners, key: Keys, content: Contents, state: {"preparing", "committed"}]

(* What was moved off an endpoint, by an operation or by an edit (0: not). *)
Item == [key: Keys, content: Contents, op: 0..MaxOps, pin: 0..MaxEdits]

(* "retain" to "replace" write a target, "keep" to "delete" remove an old replica,
   and "restore" gives up either: calls of the file backend, which no outage
   makes wait. *)
Swaps == {"retain", "capture", "publish", "replace", "keep", "unlink", "delete", "restore"}
Steps == Swaps \cup {"queued", "stage", "staged", "target", "write", "verify", "retire", "ask",
                    "check", "release", "drop", "clean", "dropingress", "droppin"}
(* The executor: the journal row as it read it, and where it stands. *)
Work == [id: Ids, op: Op, at: Steps, n: Nat, found: Bytes, left: SUBSET Keys, key: Keys \cup {None}, pin: 0..MaxEdits]
ASSUME RecordAssumption == None \notin Ledger /\ None \notin Ingress /\ None \notin Work

VARIABLES
  ops,      \* LMDB: the journal, its position is the row's seq
  owners,   \* LMDB: what each owner's replicas are
  ingress,  \* LMDB: rows of accepted edits
  cache,    \* the pinned bytes of each ingress row
  staged,   \* the pinned bytes of each operation (replica-operation:<id>)
  disk,     \* what each endpoint holds
  trash,    \* the files moved off an endpoint before it is written or removed
  lock,     \* memory: who runs in the mutation queue
  todo,     \* memory: rows the current pass has not visited
  held,     \* memory: owners the current pass skips
  work,     \* memory: the operation being applied or cleaned
  placed,   \* history: versions this service put at an endpoint, or found there as it wanted
  touched,  \* history: endpoints another writer changed since
  spent     \* history: acknowledged edits, plans accepted too late for their bytes,
            \* and how often the environment acted

durable == <<ops, owners, ingress, cache, staged>>
executor == <<todo, held, work>>
vars == <<durable, disk, trash, lock, executor, placed, touched, spent>>

Init ==
  /\ ops = <<>> /\ owners = [o \in Owners |-> None]
  /\ ingress = <<>> /\ cache = <<>>
  /\ staged = [i \in Ids |-> Absent] /\ disk = OnDisk /\ trash = {}
  /\ lock = "free" /\ todo = {} /\ held = {} /\ work = None
  /\ placed = {} /\ touched = [k \in Keys |-> FALSE]
  /\ spent = [foreign |-> 0, faults |-> 0, acked |-> {}, late |-> {}]

(***************************************************************************)
(* Questions the service asks of its journal                                *)
(***************************************************************************)
Terminal(op) == op.state \in {"complete", "cancelled"}

Open == {i \in DOMAIN ops : ~Terminal(ops[i])}

Planned(op) == {op.shape.targets[n].key : n \in DOMAIN op.shape.targets} \cup ({op.source} \ {None})

Outcomes(op) == {op.outcomes[n].key : n \in DOMAIN op.outcomes}

Entry(o) == IF owners[o] = None THEN [op |-> 0, replicas |-> {}] ELSE owners[o]

Replicas(o) == Entry(o).replicas

MutantOtherClaims(i, k) == \E j \in Open \ {i} : k \in Planned(ops[j])

OtherClaims(i, k) ==
  \/ \E o \in Owners \ {ops[i].shape.owner} : \E r \in Replicas(o) : r.key = k
  \/ \E j \in Open \ {i} : k \in Planned(ops[j])

Idle(i, k) ==
  \A j \in Open \ {i} :
    k \notin Planned(ops[j]) \cup Outcomes(ops[j])
             \cup (IF ops[j].base = None THEN {} ELSE {r.key : r \in ops[j].base.replicas})

PinInUse(p) == \E j \in Open : ops[j].pin = p

(* supersededBy leads from the operation to one that is complete. *)
Settled(i) ==
  \E n \in Ids : \E chain \in [1..n -> DOMAIN ops] :
    /\ chain[1] = i /\ ops[chain[n]].state = "complete"
    /\ \A m \in 1..(n - 1) : ops[chain[m]].state = "cancelled" /\ ops[chain[m]].heir = chain[m + 1]

(***************************************************************************)
(* Callers                                                                  *)
(***************************************************************************)
Receipt(shape, content, source, pin) ==
  [shape |-> shape, content |-> content, source |-> source, pin |-> pin, state |-> "pending",
   release |-> IF shape.releases /\ source # None THEN {[key |-> source, content |-> content]} ELSE {},
   base |-> None, outcomes |-> <<>>, pinned |-> FALSE, heir |-> 0, waiting |-> FALSE, cleaned |-> FALSE]

(* A caller names an endpoint that holds the bytes, or the ingress row that
   sourceFor finds for an edit of the owner. *)
Offers(shape) ==
  {[source |-> k, pin |-> 0, content |-> disk[k]] : k \in {x \in shape.from : disk[x] # Absent}}
  \cup {[source |-> None, pin |-> p, content |-> ingress[p].content] :
          p \in {q \in DOMAIN ingress : ingress[q] # None /\ ingress[q].owner = shape.owner}}

NewReceipts == UNION {{Receipt(s, f.content, f.source, f.pin) : f \in Offers(s)} : s \in Shapes}

(* The executor has asked whether anybody needs these bytes and is about to
   remove them, or their pin is gone and its row is not (README, section 5). *)
Doomed(r) ==
  \/ /\ work # None
     /\ \/ work.at \in {"keep", "unlink", "delete", "drop"} /\ r.source = work.key
        \/ work.at \in {"write", "retain", "capture", "replace"} /\ r.source = work.op.outcomes[work.n].key
        \/ work.at = "dropingress" /\ r.pin = work.pin
        \/ work.at = "droppin" /\ r.pin = work.op.pin
  \/ r.pin # 0 /\ cache[r.pin] # r.content

Accepted(r) == spent' = IF Doomed(r) THEN [spent EXCEPT !.late = @ \cup {Len(ops) + 1}] ELSE spent

Submit(r) ==
  /\ Len(ops) < MaxOps
  /\ ops' = Append(ops, r) /\ Accepted(r)
  /\ UNCHANGED <<owners, ingress, cache, staged, disk, trash, lock, executor, placed, touched>>

MutantInherited(op) ==
  Replicas(op.shape.owner)
    \cup {LET x == op.outcomes[n] IN
            [key |-> x.key, asked |-> x.asked, content |-> disk[x.key], managed |-> x.managed, mirror |-> x.mirror] :
              n \in DOMAIN op.outcomes}

(* The partial effects of the superseded operation that are really there
   become the owner's, so that the successor starts from them. Its caller names
   the staging locations of the old plan next to its own
   (tests/replica-service.test.js:76). *)
Inherited(op) ==
  LET old == IF owners[op.shape.owner] # None THEN Replicas(op.shape.owner)
             ELSE IF op.base # None THEN op.base.replicas ELSE {}
      landed == {n \in DOMAIN op.outcomes : disk[op.outcomes[n].key] = op.content}
  IN  {r \in old : \A n \in landed : op.outcomes[n].key # r.key}
      \cup {LET x == op.outcomes[n] IN
              [key |-> x.key, asked |-> x.asked, content |-> op.content, managed |-> x.managed, mirror |-> x.mirror] : n \in landed}

Supersede(i, r) ==
  /\ lock = "free" /\ Len(ops) < MaxOps
  /\ ops[i].shape.owner = r.shape.owner /\ ops[i].content # r.content
  /\ \/ /\ ops[i].state = "complete"
        /\ ops' = Append(ops, [r EXCEPT !.release = @ \cup ops[i].release]) /\ UNCHANGED <<owners, placed>>
     \/ /\ i \in Open
        /\ ops' = Append([ops EXCEPT ![i].state = "cancelled", ![i].heir = Len(ops) + 1],
                         [r EXCEPT !.release = @ \cup ops[i].release])
        /\ owners' = [owners EXCEPT ![r.shape.owner] = [Entry(r.shape.owner) EXCEPT !.replicas = Inherited(ops[i])]]
        /\ placed' = placed \cup {<<x.key, x.content>> : x \in {y \in Inherited(ops[i]) : y.managed}}
  /\ Accepted(r)
  /\ UNCHANGED <<ingress, cache, staged, disk, trash, lock, executor, touched>>

Retry(i) ==
  /\ i \in Open /\ (ops[i].state # "pending" \/ ops[i].waiting)
  /\ ops' = [ops EXCEPT ![i].state = "pending", ![i].waiting = FALSE]
  /\ UNCHANGED <<owners, ingress, cache, staged, disk, trash, lock, executor, placed, touched, spent>>

Adopt(o, r) ==
  /\ lock = "free" /\ r \in Replicas(o) /\ ~r.managed /\ disk[r.key] = r.content
  /\ owners' = [owners EXCEPT ![o].replicas = (@ \ {r}) \cup {[r EXCEPT !.managed = TRUE]}]
  /\ placed' = placed \cup {<<r.key, r.content>>}
  /\ UNCHANGED <<ops, ingress, cache, staged, disk, trash, lock, executor, touched, spent>>

Eventful == Len(ingress) + spent.foreign + spent.faults < MaxEvents

(* An edit through the API of a mirrored replica: its bytes are pinned first,
   placed like those of an operation, then acknowledged. *)
Mirrored(o, k) == \E r \in Replicas(o) : r.key = k /\ r.mirror

EditCapture(o, k, c) ==
  /\ lock = "free" /\ Len(ingress) < MaxEdits /\ Eventful
  /\ Mirrored(o, k) /\ \A x \in Owners \ {o} : ~Mirrored(x, k)
  /\ c # disk[k]
  /\ ingress' = Append(ingress, [owner |-> o, key |-> k, content |-> c, state |-> "preparing"])
  /\ cache' = Append(cache, c)
  /\ lock' = "edit"
  /\ UNCHANGED <<ops, owners, staged, disk, trash, executor, placed, touched, spent>>

Edited == ingress[Len(ingress)]

(* The file that is there is moved away. *)
EditTake ==
  /\ lock = "edit" /\ disk[Edited.key] # Absent
  /\ trash' = trash \cup {[key |-> Edited.key, content |-> disk[Edited.key], op |-> 0, pin |-> Len(ingress)]}
  /\ disk' = [disk EXCEPT ![Edited.key] = Absent]
  /\ touched' = [touched EXCEPT ![Edited.key] = TRUE]
  /\ lock' = "taken"
  /\ UNCHANGED <<durable, executor, placed, spent>>

(* A free name is linked; where nothing was moved away, the file is replaced. *)
EditPlace ==
  /\ lock = "edit" \/ (lock = "taken" /\ disk[Edited.key] = Absent)
  /\ disk' = [disk EXCEPT ![Edited.key] = Edited.content]
  /\ touched' = [touched EXCEPT ![Edited.key] = TRUE]
  /\ lock' = "placed"
  /\ UNCHANGED <<durable, trash, executor, placed, spent>>

MutantEditCommit ==
  /\ lock = "placed"
  /\ lock' = "free"
  /\ LET p == Len(ingress) IN
     spent' = [spent EXCEPT !.acked = @ \cup {[pin |-> p, owner |-> ingress[p].owner, content |-> ingress[p].content]}]
  /\ UNCHANGED <<ops, owners, ingress, cache, staged, disk, trash, executor, placed, touched>>

EditCommit ==
  /\ lock = "placed"
  /\ ingress' = [ingress EXCEPT ![Len(ingress)].state = "committed"]
  /\ lock' = "free"
  /\ LET p == Len(ingress) IN
     spent' = [spent EXCEPT !.acked = @ \cup {[pin |-> p, owner |-> ingress[p].owner, content |-> ingress[p].content]}]
  /\ UNCHANGED <<ops, owners, cache, staged, disk, trash, executor, placed, touched>>

DiscardIngress(p) ==
  /\ cache' = [cache EXCEPT ![p] = Absent]
  /\ ingress' = [ingress EXCEPT ![p] = None]

(* What an edit moved away goes back if the name is free. *)
EditRefused ==
  /\ lock \in {"edit", "taken"}
  /\ IF PinInUse(Len(ingress)) THEN UNCHANGED <<ingress, cache>> ELSE DiscardIngress(Len(ingress))
  /\ lock' = "free"
  /\ \/ UNCHANGED <<disk, trash>>
     \/ /\ lock = "taken" /\ disk[Edited.key] = Absent
        /\ \E t \in trash :
             /\ t.pin = Len(ingress) /\ t.key = Edited.key
             /\ disk' = [disk EXCEPT ![t.key] = t.content] /\ trash' = trash \ {t}
  /\ UNCHANGED <<ops, owners, staged, executor, placed, touched, spent>>

(* The head of a pass: an old row that was never acknowledged. *)
Reclaim(p) ==
  /\ lock = "free" /\ work = None /\ todo = {} /\ ingress[p] # None /\ ingress[p].state = "preparing"
  /\ \/ /\ disk[ingress[p].key] = ingress[p].content
        /\ ingress' = [ingress EXCEPT ![p].state = "committed"] /\ UNCHANGED cache
     \/ /\ disk[ingress[p].key] # ingress[p].content /\ ~PinInUse(p)
        /\ DiscardIngress(p)
  /\ UNCHANGED <<ops, owners, staged, disk, trash, lock, executor, placed, touched, spent>>

(***************************************************************************)
(* The executor: passes over the journal                                    *)
(***************************************************************************)
StartPass ==
  /\ todo = {} /\ work = None
  /\ todo' = DOMAIN ops /\ held' = {}
  /\ todo' # {}
  /\ UNCHANGED <<durable, disk, trash, lock, work, placed, touched, spent>>

MutantRow == CHOOSE i \in todo : \A j \in todo : i >= j

Row == CHOOSE i \in todo : \A j \in todo : i <= j

Begun(i, at) ==
  [id |-> i, op |-> ops[i], at |-> at, n |-> 1, found |-> Absent, left |-> {}, key |-> None, pin |-> 0]

(* The next row: clean a finished one, skip one that must wait and with it its
   owner, mark the others as running and queue for the storage lock. *)
Visit ==
  LET i == Row  op == ops[i]  waits == op.state = "blocked" \/ op.waiting IN
  /\ todo # {} /\ work = None
  /\ todo' = todo \ {i}
  /\ \/ /\ Terminal(op) /\ work' = Begun(i, "clean")
        /\ UNCHANGED <<ops, held>>
     \/ /\ ~Terminal(op) /\ (waits \/ op.shape.owner \in held)
        /\ held' = held \cup {op.shape.owner}
        /\ UNCHANGED <<ops, work>>
     \/ /\ ~Terminal(op) /\ ~waits /\ op.shape.owner \notin held
        /\ ops' = [ops EXCEPT ![i].state = "running"]
        /\ work' = [Begun(i, "queued") EXCEPT !.op.state = "running"]
        /\ UNCHANGED held
  /\ UNCHANGED <<owners, ingress, cache, staged, disk, trash, lock, placed, touched, spent>>

(* Each save writes the whole row the executor holds. *)
Save(op, next) ==
  /\ ops' = [ops EXCEPT ![work.id] = op]
  /\ work' = [next EXCEPT !.op = op]

MutantLeave(op) ==
  /\ ops' = [ops EXCEPT ![work.id] = op]
  /\ work' = None /\ lock' = lock
  /\ held' = held \cup {op.shape.owner}

Leave(op) ==
  /\ ops' = [ops EXCEPT ![work.id] = op]
  /\ work' = None /\ lock' = "free"
  /\ held' = held \cup {op.shape.owner}

Block == Leave([work.op EXCEPT !.state = "blocked", !.waiting = FALSE])

Rest == UNCHANGED <<owners, ingress, cache, todo, placed, touched, spent>>

At(step) == work # None /\ work.at = step

Begin ==
  /\ At("queued") /\ lock = "free"
  /\ lock' = "executor"
  /\ LET op == work.op IN
     IF op.base # None THEN work' = [work EXCEPT !.at = "stage"] /\ UNCHANGED ops
     ELSE Save([op EXCEPT !.base = Entry(op.shape.owner)], [work EXCEPT !.at = "stage"])
  /\ Rest /\ UNCHANGED <<staged, disk, trash, held>>

(* The bytes are pinned once, from the caller's pin, its endpoint, or a replica
   the owner already has. *)
Sources(op) ==
  IF op.pin # 0 THEN {cache[op.pin]}
  ELSE IF op.source # None THEN {disk[op.source]}
  ELSE {disk[r.key] : r \in op.base.replicas}

NeedsBytes == work.op.shape.targets # <<>> \/ work.op.base.replicas # {}

Stage ==
  /\ At("stage")
  /\ \/ /\ ~NeedsBytes
        /\ work' = [work EXCEPT !.at = "target"]
        /\ UNCHANGED <<ops, staged, lock, held>>
     \/ /\ NeedsBytes /\ staged[work.id] = work.op.content
        /\ Save([work.op EXCEPT !.pinned = TRUE], [work EXCEPT !.at = "target"])
        /\ UNCHANGED <<staged, lock, held>>
     \/ /\ NeedsBytes /\ staged[work.id] \notin {Absent, work.op.content}
        /\ Block /\ UNCHANGED staged
     \/ /\ NeedsBytes /\ staged[work.id] = Absent
        /\ \E bytes \in Sources(work.op) \ {Absent} :
             /\ staged' = [staged EXCEPT ![work.id] = bytes]
             /\ work' = [work EXCEPT !.at = "staged"]
        /\ UNCHANGED <<ops, lock, held>>
     \/ /\ NeedsBytes /\ staged[work.id] = Absent /\ (Absent \in Sources(work.op) \/ Sources(work.op) = {})
        /\ Block /\ UNCHANGED staged
  /\ Rest /\ UNCHANGED <<disk, trash>>

StageVerify ==
  /\ At("staged")
  /\ \/ /\ staged[work.id] = work.op.content
        /\ Save([work.op EXCEPT !.pinned = TRUE], [work EXCEPT !.at = "target"])
        /\ UNCHANGED <<staged, lock, held>>
     \/ /\ staged[work.id] # work.op.content
        /\ staged' = [staged EXCEPT ![work.id] = Absent] /\ Block
  /\ Rest /\ UNCHANGED <<disk, trash>>

(***************************************************************************)
(* Placing a target                                                         *)
(***************************************************************************)
MutantMore == work.n < Len(work.op.shape.targets)

More == work.n <= Len(work.op.shape.targets)
Wanted == work.op.shape.targets[work.n]
Resolved == work.n <= Len(work.op.outcomes)
Chosen == work.op.outcomes[work.n]

(* The replica of the owner that stands for this target: the first in the row,
   which has the preserved copies before the outcomes. *)
Prior == {r \in work.op.base.replicas : r.asked = Wanted.key}
Previous == IF \E r \in Prior : ~r.mirror THEN CHOOSE r \in Prior : ~r.mirror ELSE CHOOSE r \in Prior : TRUE
Owned == Prior # {} /\ Previous.managed

ManagedAt(k) == \E o \in Owners : \E r \in Replicas(o) : r.key = k /\ r.managed

Resolution(k) ==
  LET now == disk[k] IN
  [key |-> k, asked |-> Wanted.key, mirror |-> Wanted.mirror, expected |-> now, verified |-> FALSE,
   managed |-> Owned \/ now = Absent \/ ManagedAt(Wanted.key),
   replaces |-> IF Owned /\ Previous.mirror THEN Previous.content ELSE Absent]

Record(x) == Save([work.op EXCEPT !.outcomes = Append(@, x)], work) /\ UNCHANGED <<lock, held>>

Resolve ==
  /\ At("target") /\ More /\ ~Resolved
  /\ LET k == IF Wanted.onConflict = "rename" /\ Prior # {} THEN Previous.key ELSE Wanted.key
         x == Resolution(k)
         changed == Owned /\ disk[k] \notin {Absent, Previous.content, work.op.content}
         taken == disk[k] \notin {Absent, work.op.content, x.replaces}
     IN  \/ /\ changed /\ Block
         \/ /\ ~changed /\ ~(taken /\ Wanted.onConflict = "rename")
            /\ Record(x)
         \/ /\ ~changed /\ taken /\ Wanted.onConflict = "rename"
            /\ \E free \in Spare[Wanted.key] : disk[free] = Absent
                 /\ Record([x EXCEPT !.key = free, !.expected = Absent, !.managed = TRUE])
  /\ Rest /\ UNCHANGED <<staged, disk, trash>>

(* What the destination holds decides: it is there already, it may be
   written, or somebody else's bytes are in the way. *)
Refused(found) ==
  \/ found # Absent /\ found # Chosen.replaces /\ Wanted.onConflict # "overwrite"
  \/ found # Absent /\ OtherClaims(work.id, Chosen.key)
  \/ found # Absent /\ found # Chosen.expected
  \/ found = Absent /\ Chosen.expected # Absent /\ Chosen.verified

Verified == Save([work.op EXCEPT !.outcomes[work.n].verified = TRUE], [work EXCEPT !.at = "target", !.n = @ + 1])

Inspect ==
  LET found == disk[Chosen.key] IN
  /\ At("target") /\ More /\ Resolved
  /\ \/ /\ found = work.op.content /\ Verified
        /\ placed' = IF Chosen.managed THEN placed \cup {<<Chosen.key, found>>} ELSE placed
        /\ UNCHANGED <<lock, held>>
     \/ /\ found # work.op.content /\ Refused(found) /\ Block /\ UNCHANGED placed
     \/ /\ found # work.op.content /\ ~Refused(found)
        /\ work' = [work EXCEPT !.at = "write", !.found = found]
        /\ UNCHANGED <<ops, lock, held, placed>>
  /\ UNCHANGED <<owners, ingress, cache, staged, todo, disk, trash, touched, spent>>

(***************************************************************************)
(* Taking the file at an endpoint away, for writeObject and for removeObject *)
(***************************************************************************)

(* A version is copied to the pool: nothing is if there is no file, and a file
   that is not the version expected fails, unless the pool has that already. *)
Retained(k, version, next, bare) ==
  /\ \/ disk[k] = Absent /\ work' = [work EXCEPT !.at = bare] /\ UNCHANGED <<ops, lock, held>>
     \/ disk[k] # Absent /\ work' = [work EXCEPT !.at = next] /\ UNCHANGED <<ops, lock, held>>
     \/ disk[k] \notin {Absent, version} /\ Block
  /\ UNCHANGED <<disk, trash>>

MutantDiffers(k, version) == FALSE

Differs(k, version) == disk[k] # version

(* The file is moved away first and compared then. *)
Captured(k, version, next) ==
  \/ disk[k] = Absent /\ Block /\ UNCHANGED <<disk, trash>>
  \/ /\ disk[k] # Absent
     /\ trash' = trash \cup {[key |-> k, content |-> disk[k], op |-> work.id, pin |-> 0]}
     /\ disk' = [disk EXCEPT ![k] = Absent]
     /\ work' = IF Differs(k, version) THEN [work EXCEPT !.at = "restore", !.key = k, !.found = disk[k]] ELSE next
     /\ UNCHANGED <<ops, lock, held>>

(* The captured file goes back if the name is free; a failure is swallowed. *)
Restore ==
  /\ At("restore") /\ Block
  /\ \/ UNCHANGED <<disk, trash>>
     \/ /\ disk[work.key] = Absent
        /\ \E t \in trash :
             /\ t.op = work.id /\ t.key = work.key /\ t.content = work.found
             /\ disk' = [disk EXCEPT ![work.key] = t.content] /\ trash' = trash \ {t}
  /\ Rest /\ UNCHANGED staged

(* writeObject reads what is at the key before it begins. *)
StillThere == disk[Chosen.key] = work.found

Writing == UNCHANGED <<owners, ingress, cache, staged, todo, spent>>

(* The new version is there from one instant to the next, by a link or a rename. *)
Publishes ==
  /\ disk' = [disk EXCEPT ![Chosen.key] = staged[work.id]]
  /\ touched' = [touched EXCEPT ![Chosen.key] = @ /\ OtherClaims(work.id, Chosen.key)]
  /\ placed' = placed \cup {<<Chosen.key, staged[work.id]>>}
  /\ work' = [work EXCEPT !.at = "verify"]
  /\ UNCHANGED <<ops, trash, lock, held>>

Write ==
  /\ At("write")
  /\ \/ /\ StillThere /\ work.found = Absent
        /\ Publishes
     \/ /\ StillThere /\ work.found # Absent
        /\ work' = [work EXCEPT !.at = "retain"]
        /\ UNCHANGED <<ops, lock, held, disk, trash, touched, placed>>
     \/ ~StillThere /\ Block /\ UNCHANGED <<disk, trash, touched, placed>>
  /\ Writing

Retain ==
  /\ At("retain") /\ Retained(Chosen.key, work.found, "capture", "replace")
  /\ Rest /\ UNCHANGED staged

Capture ==
  /\ At("capture") /\ Captured(Chosen.key, work.found, [work EXCEPT !.at = "publish"])
  /\ Rest /\ UNCHANGED staged

Publish ==
  /\ At("publish")
  /\ \/ disk[Chosen.key] = Absent /\ Publishes
     \/ /\ disk[Chosen.key] # Absent
        /\ work' = [work EXCEPT !.at = "restore", !.key = Chosen.key]
        /\ UNCHANGED <<ops, lock, held, disk, trash, touched, placed>>
  /\ Writing

(* Nothing was captured: whatever is at the name by now is replaced. *)
Replace == At("replace") /\ Publishes /\ Writing

Verify ==
  /\ At("verify")
  /\ \/ disk[Chosen.key] = work.op.content /\ Verified /\ UNCHANGED <<lock, held>>
     \/ disk[Chosen.key] # work.op.content /\ Block
  /\ Rest /\ UNCHANGED <<staged, disk, trash>>

Placed ==
  /\ At("target") /\ ~More
  /\ Save(work.op, [work EXCEPT !.at = "retire", !.left = {r.key : r \in work.op.base.replicas}])
  /\ Rest /\ UNCHANGED <<staged, disk, trash, lock, held>>

(***************************************************************************)
(* Retiring what the new generation no longer has                           *)
(***************************************************************************)
Mirrors(k) == {r \in work.op.base.replicas : r.key = k /\ r.mirror /\ r.managed}

Old(k) == CHOOSE r \in Mirrors(k) : TRUE

Retires(k) ==
  /\ k \notin Outcomes(work.op) \cup work.op.shape.preserve
  /\ Mirrors(k) # {}
  /\ ~OtherClaims(work.id, k)

Retire ==
  /\ At("retire")
  /\ \E k \in work.left :
       \/ /\ ~Retires(k) \/ disk[k] = Absent
          /\ work' = [work EXCEPT !.left = @ \ {k}] /\ UNCHANGED <<ops, lock, held>>
       \/ /\ Retires(k) /\ disk[k] \notin {Absent, Old(k).content}
          /\ Block
       \/ /\ Retires(k) /\ disk[k] = Old(k).content
          /\ work' = [work EXCEPT !.at = "ask", !.key = k] /\ UNCHANGED <<ops, lock, held>>
  /\ Rest /\ UNCHANGED <<staged, disk, trash>>

(* removeObject asks again whether the endpoint is idle. *)
Ask ==
  /\ At("ask")
  /\ \/ Idle(work.id, work.key) /\ work' = [work EXCEPT !.at = "keep"] /\ UNCHANGED <<ops, lock, held>>
     \/ ~Idle(work.id, work.key) /\ Block
  /\ Rest /\ UNCHANGED <<staged, disk, trash>>

Keep ==
  /\ At("keep") /\ Retained(work.key, Old(work.key).content, "unlink", "delete")
  /\ Rest /\ UNCHANGED staged

Gone == [work EXCEPT !.at = "retire", !.left = @ \ {work.key}]

Unlink ==
  /\ At("unlink") /\ Captured(work.key, Old(work.key).content, Gone)
  /\ Rest /\ UNCHANGED staged

(* Nothing was captured: whatever is at the name by now is removed. *)
Delete ==
  /\ At("delete")
  /\ disk' = [disk EXCEPT ![work.key] = Absent] /\ work' = Gone
  /\ Rest /\ UNCHANGED <<ops, staged, trash, lock, held>>

Retired ==
  /\ At("retire") /\ work.left = {}
  /\ work' = [work EXCEPT !.at = "check", !.n = 1]
  /\ Rest /\ UNCHANGED <<ops, staged, disk, trash, lock, held>>

(***************************************************************************)
(* Every destination again, then the staging locations, then the commit     *)
(***************************************************************************)
ReleaseKeys(op) == {l.key : l \in op.release}

Released(k) == [key |-> k, content |-> disk[k]] \in work.op.release

Check ==
  /\ At("check")
  /\ \/ /\ work.n <= Len(work.op.outcomes) /\ disk[Chosen.key] = work.op.content
        /\ work' = [work EXCEPT !.n = @ + 1] /\ UNCHANGED <<ops, lock, held>>
     \/ /\ work.n <= Len(work.op.outcomes) /\ disk[Chosen.key] # work.op.content
        /\ Block
     \/ /\ work.n > Len(work.op.outcomes)
        /\ work' = [work EXCEPT !.at = "release", !.left = IF work.op.outcomes = <<>> THEN {} ELSE ReleaseKeys(work.op)]
        /\ UNCHANGED <<ops, lock, held>>
  /\ Rest /\ UNCHANGED <<staged, disk, trash>>

Release ==
  /\ At("release")
  /\ \E k \in work.left :
       \/ /\ OtherClaims(work.id, k) \/ disk[k] = Absent
          /\ work' = [work EXCEPT !.left = @ \ {k}] /\ UNCHANGED <<ops, lock, held>>
       \/ /\ ~OtherClaims(work.id, k) /\ disk[k] # Absent /\ ~Released(k)
          /\ Block
       \/ /\ ~OtherClaims(work.id, k) /\ Released(k)
          /\ work' = [work EXCEPT !.at = "drop", !.key = k] /\ UNCHANGED <<ops, lock, held>>
  /\ Rest /\ UNCHANGED <<staged, disk, trash>>

Drop ==
  /\ At("drop")
  /\ disk' = [disk EXCEPT ![work.key] = Absent]
  /\ work' = [work EXCEPT !.at = "release", !.left = @ \ {work.key}]
  /\ Rest /\ UNCHANGED <<ops, staged, trash, lock, held>>

Kept(op) ==
  {[r EXCEPT !.mirror = FALSE] :
     r \in {x \in op.base.replicas : /\ ~x.mirror \/ x.key \in op.shape.preserve
                                     /\ x.key \notin Outcomes(op) \cup ReleaseKeys(op)}}

Result(op) ==
  Kept(op) \cup {[key |-> op.outcomes[n].key, asked |-> op.outcomes[n].asked, content |-> op.content,
                  managed |-> op.outcomes[n].managed, mirror |-> op.outcomes[n].mirror] : n \in DOMAIN op.outcomes}

Complete ==
  /\ At("release") /\ work.left = {}
  /\ owners' = [owners EXCEPT ![work.op.shape.owner] = [op |-> work.id, replicas |-> Result(work.op)]]
  /\ Save([work.op EXCEPT !.state = "complete"], [work EXCEPT !.at = "clean"])
  /\ UNCHANGED <<ingress, cache, staged, disk, trash, lock, todo, held, placed, touched, spent>>

(***************************************************************************)
(* Cleaning up the pins. In a pass it runs outside the storage lock; each   *)
(* pin goes in two steps, the question who uses it and the deletion.        *)
(***************************************************************************)
Done == work' = None /\ lock' = IF lock = "executor" THEN "free" ELSE lock

Leftover ==
  {p \in 1..work.op.pin : /\ work.op.state = "complete" /\ p \in DOMAIN ingress /\ ingress[p] # None
                          /\ ingress[p].owner = work.op.shape.owner /\ ~PinInUse(p)}

Clean ==
  /\ At("clean")
  /\ \/ /\ Leftover # {}
        /\ \E p \in Leftover : work' = [work EXCEPT !.at = "dropingress", !.pin = p]
        /\ UNCHANGED <<ops, staged, lock>>
     \/ /\ Leftover = {} /\ (work.op.cleaned \/ ~Settled(work.id))
        /\ Done /\ UNCHANGED <<ops, staged>>
     \/ /\ Leftover = {} /\ ~work.op.cleaned /\ Settled(work.id)
        /\ staged' = IF work.op.pinned THEN [staged EXCEPT ![work.id] = Absent] ELSE staged
        /\ \/ /\ work.op.pin = 0
              /\ ops' = [ops EXCEPT ![work.id] = [work.op EXCEPT !.cleaned = TRUE]] /\ Done
           \/ /\ work.op.pin # 0 /\ PinInUse(work.op.pin)
              /\ Done /\ UNCHANGED ops
           \/ /\ work.op.pin # 0 /\ ~PinInUse(work.op.pin)
              /\ work' = [work EXCEPT !.at = "droppin"] /\ UNCHANGED <<ops, lock>>
  /\ UNCHANGED <<owners, ingress, cache, disk, trash, todo, held, placed, touched, spent>>

DropIngress ==
  /\ At("dropingress")
  /\ DiscardIngress(work.pin)
  /\ work' = [work EXCEPT !.at = "clean"]
  /\ UNCHANGED <<ops, owners, staged, disk, trash, lock, todo, held, placed, touched, spent>>

DropPin ==
  /\ At("droppin")
  /\ cache' = [cache EXCEPT ![work.op.pin] = Absent]
  /\ ops' = [ops EXCEPT ![work.id] = [work.op EXCEPT !.cleaned = TRUE]] /\ Done
  /\ UNCHANGED <<owners, ingress, staged, disk, trash, todo, held, placed, touched, spent>>

(***************************************************************************)
(* Failures and the environment                                             *)
(***************************************************************************)
(* A backend is offline, or the owner is held: the operation waits. *)
Transient ==
  /\ work # None /\ work.at \in Steps \ (Swaps \cup {"queued", "clean", "dropingress", "droppin"})
  /\ spent.faults < MaxFaults /\ Eventful /\ spent' = [spent EXCEPT !.faults = @ + 1]
  /\ Leave([work.op EXCEPT !.state = "pending", !.waiting = TRUE])
  /\ UNCHANGED <<owners, ingress, cache, staged, disk, trash, todo, placed, touched>>

Elapse(i) ==
  /\ ops[i].waiting /\ (work # None => work.id # i)
  /\ ops' = [ops EXCEPT ![i].waiting = FALSE]
  /\ UNCHANGED <<owners, ingress, cache, staged, disk, trash, lock, executor, placed, touched, spent>>

Crash ==
  /\ spent.faults < MaxFaults /\ Eventful /\ spent' = [spent EXCEPT !.faults = @ + 1]
  /\ ops' = [i \in DOMAIN ops |-> IF ops[i].state = "running" THEN [ops[i] EXCEPT !.state = "pending"] ELSE ops[i]]
  /\ lock' = "free" /\ todo' = {} /\ held' = {} /\ work' = None
  /\ UNCHANGED <<owners, ingress, cache, staged, disk, trash, placed, touched>>

Foreign(k, bytes) ==
  /\ spent.foreign < MaxForeign /\ Eventful /\ spent' = [spent EXCEPT !.foreign = @ + 1]
  /\ bytes # disk[k]
  /\ disk' = [disk EXCEPT ![k] = bytes]
  /\ touched' = [touched EXCEPT ![k] = TRUE]
  /\ UNCHANGED <<durable, trash, lock, executor, placed>>

Callers ==
  \/ \E r \in NewReceipts : Submit(r) \/ \E i \in DOMAIN ops : Supersede(i, r)
  \/ \E i \in DOMAIN ops : Retry(i)
  \/ \E o \in Owners : \E r \in Replicas(o) : Adopt(o, r)
  \/ \E o \in Owners, k \in Keys, c \in Contents : EditCapture(o, k, c)

Environment ==
  \/ \E k \in ForeignKeys, b \in Bytes : Foreign(k, b)
  \/ Transient \/ Crash

(* The steps at which the file backend moves, writes or removes a file. *)
Swap == Write \/ Retain \/ Capture \/ Publish \/ Replace \/ Restore \/ Keep \/ Unlink \/ Delete

Executor ==
  \/ Begin \/ Stage \/ StageVerify \/ Resolve \/ Inspect \/ Swap \/ Verify \/ Placed
  \/ Retire \/ Ask \/ Retired \/ Check \/ Release \/ Drop \/ Complete
  \/ Clean \/ DropIngress \/ DropPin

Edit == EditTake \/ EditPlace \/ EditCommit \/ EditRefused

Next ==
  \/ Callers \/ Environment
  \/ StartPass \/ Visit \/ Executor \/ Edit
  \/ \E p \in DOMAIN ingress : Reclaim(p)
  \/ \E i \in DOMAIN ops : Elapse(i)

Spec == Init /\ [][Next]_vars

(* The timer drains the journal again and again; awaits end; backoffs pass. *)
Scheduled ==
  /\ WF_vars(StartPass \/ Visit \/ Executor) /\ WF_vars(Edit)
  /\ \A i \in Ids : WF_vars(i \in DOMAIN ops /\ Elapse(i))

FairSpec == Spec /\ Scheduled

(***************************************************************************)
(* Properties                                                               *)
(***************************************************************************)

(* The state keeps its type. *)
TypeOK ==
  /\ ops \in Seq(Op) /\ Len(ops) <= MaxOps
  /\ owners \in [Owners -> Ledger \cup {None}]
  /\ ingress \in Seq(Ingress \cup {None}) /\ cache \in Seq(Bytes)
  /\ Len(ingress) <= MaxEdits /\ Len(cache) = Len(ingress)
  /\ staged \in [Ids -> Bytes] /\ disk \in [Keys -> Bytes]
  /\ trash \subseteq Item /\ lock \in {"free", "executor", "edit", "taken", "placed"}
  /\ todo \subseteq Ids /\ held \subseteq Owners
  /\ work \in Work \cup {None}
  /\ placed \subseteq Keys \X Contents /\ touched \in [Keys -> BOOLEAN]
  /\ spent \in [foreign: 0..MaxForeign, faults: 0..MaxFaults, late: SUBSET Ids,
                 acked: SUBSET [pin: Pins, owner: Owners, content: Contents]]

(* What callers owe, and the code does not check: a plan has no copy at a
   staging location the owner releases, and no target of a plan is a name that
   another target of it may be given. *)
Names(target) == Spare[target.key] \cup {target.key}

StagingApart ==
  \A s, t \in Shapes : s.releases /\ s.owner = t.owner =>
    \A n \in DOMAIN t.targets : s.from \cap Names(t.targets[n]) = {}

TargetsApart ==
  \A s \in Shapes : \A m, n \in DOMAIN s.targets :
    m # n => Names(s.targets[m]) \cap Names(s.targets[n]) = {}

(* What the owner ledger says of an endpoint is what the endpoint holds, unless
   another writer changed it since, or an unfinished operation of the owner has
   put its new version there, has moved the old one to the trash to do so, or
   retired it with its destinations verified (the last two leave the name free,
   and another owner may place something there). No operation of another owner
   takes it away. *)
AllVerified(op) ==
  /\ op.base # None /\ Len(op.outcomes) = Len(op.shape.targets)
  /\ \A n \in DOMAIN op.outcomes : op.outcomes[n].verified

Leaves(op, k) ==
  /\ AllVerified(op) /\ k \notin Outcomes(op)
  /\ \/ k \in ReleaseKeys(op)
     \/ k \notin op.shape.preserve /\ \E r \in op.base.replicas : r.key = k /\ r.mirror /\ r.managed

Holds(i, k) == k \in Outcomes(ops[i]) /\ disk[k] = ops[i].content

InTrash(i, k) == \E t \in trash : t.key = k /\ t.op = i

Cleared(i, k) == Leaves(ops[i], k) \/ (k \in Outcomes(ops[i]) /\ InTrash(i, k))

LedgerHolds ==
  \A o \in Owners : \A r \in Replicas(o) :
    \/ disk[r.key] = r.content \/ touched[r.key]
    \/ \E i \in DOMAIN ops :
         /\ ops[i].shape.owner = o /\ ops[i].state # "complete"
         /\ \/ Holds(i, r.key)
            \/ /\ Cleared(i, r.key)
               /\ disk[r.key] = Absent \/ \E j \in DOMAIN ops : ops[j].shape.owner # o /\ Holds(j, r.key)

(* The service replaces and removes only versions it put there itself, or that it
   put elsewhere when this name was asked for, unless the caller asked to
   overwrite or to release them. A version that came between the last look and
   the capture is in the trash and about to be put back; only where there was
   nothing to capture a file that appears meanwhile is lost. *)
Ours(k) ==
  \/ <<k, disk[k]>> \in placed
  \/ \E r \in work.op.base.replicas : r.asked = k /\ r.managed /\ r.mirror /\ <<r.key, disk[k]>> \in placed
  \/ Released(k)
  \/ \E n \in DOMAIN work.op.shape.targets :
       work.op.shape.targets[n].key = k /\ work.op.shape.targets[n].onConflict = "overwrite"

Caught(k) ==
  /\ work.at \in {"capture", "unlink"} /\ work'.at = "restore" /\ work'.found = disk[k]
  /\ \E t \in trash' : t.key = k /\ t.content = disk[k] /\ t.op = work.id

Editing == lock \in {"edit", "taken"}

OthersBytesKept ==
  [][\A k \in Keys : disk'[k] # disk[k] /\ disk[k] # Absent /\ spent' = spent /\ ~Editing
       => Ours(k) \/ Caught(k) \/ work.at \in {"replace", "delete"}]_vars

(* The old generation and the staging locations go last: whenever the service
   removes an endpoint for an operation, every destination of it is recorded as
   verified, and still holds the content unless another writer changed it. What
   it moves away before, at a destination, is in the trash and the new version
   is pinned. *)
PlacedEverywhere(op) ==
  /\ AllVerified(op)
  /\ \A n \in DOMAIN op.outcomes : disk[op.outcomes[n].key] = op.content \/ touched[op.outcomes[n].key]

Replacing(k) ==
  /\ work.at = "capture" /\ k \in Outcomes(work.op) /\ staged[work.id] = work.op.content
  /\ \E t \in trash' : t.key = k /\ t.content = disk[k] /\ t.op = work.id

RemovesLast ==
  [][\A k \in Keys : disk[k] # Absent /\ disk'[k] = Absent /\ spent' = spent /\ ~Editing
       => PlacedEverywhere(work.op) \/ Replacing(k)]_vars

(* The service loses no bytes: the content of an accepted plan that has targets
   is on an endpoint or pinned, unless another writer changed an endpoint it was
   put on, or a later generation of the owner is verified or has written over
   each of its copies; the bytes of an acknowledged edit stay pinned until its
   generation, or a later one, is complete. A withdrawn plan that was never
   pinned is not held, nor one accepted when the bytes it names were going. *)
Somewhere(c) ==
  \/ \E k \in Keys : disk[k] = c
  \/ \E i \in Ids : staged[i] = c
  \/ \E p \in DOMAIN cache : cache[p] = c

TakenAway(i) == \E k \in Outcomes(ops[i]) \cup ({ops[i].source} \ {None}) : touched[k]

Later(i) == {j \in DOMAIN ops : j > i /\ ops[j].shape.owner = ops[i].shape.owner}

Outlived(i) ==
  \/ \E j \in Later(i) : ops[j].state = "complete" \/ AllVerified(ops[j])
  \/ ops[i].state = "complete" /\ \A k \in Outcomes(ops[i]) : \E j \in Later(i) : k \in Outcomes(ops[j])

Promised(i) ==
  /\ ops[i].shape.targets # <<>> /\ i \notin spent.late
  /\ ops[i].state = "cancelled" => ops[i].pinned

PlansKept == \A i \in DOMAIN ops : Promised(i) => Somewhere(ops[i].content) \/ TakenAway(i) \/ Outlived(i)

EditsKept ==
  \A e \in spent.acked :
    \/ cache[e.pin] = e.content
    \/ \E i \in DOMAIN ops : /\ ops[i].shape.owner = e.owner /\ ops[i].pin >= e.pin
                            /\ \E j \in {i} \cup Later(i) : ops[j].state = "complete"

NothingLost == PlansKept /\ EditsKept

(* Every accepted plan ends: it completes, is replaced, or the owner's line is
   stopped by an operation that reports why it is blocked. *)
Ended(i) ==
  /\ i \in DOMAIN ops
  /\ \/ Terminal(ops[i])
     \/ \E j \in 1..i : ops[j].shape.owner = ops[i].shape.owner /\ ops[j].state = "blocked"

Settles == \A i \in Ids : i \in DOMAIN ops ~> Ended(i)

(* The journal and the ledger carry out the promise. *)
Status(op) ==
  IF op.state = "complete" THEN "done" ELSE IF op.state = "cancelled" THEN "withdrawn" ELSE "open"

Promise == INSTANCE ReplicaPromise WITH
  gens <- [i \in DOMAIN ops |-> [owner |-> ops[i].shape.owner, content |-> ops[i].content, status |-> Status(ops[i])]],
  current <- [o \in Owners |-> IF owners[o] = None THEN 0 ELSE owners[o].op]

KeepsPromise == Promise!Spec
=============================================================================
