--------------------------------- MODULE Trash ---------------------------------
(***************************************************************************)
(* Deleting, overwriting, restoring and purging on one file backend with a  *)
(* retention window: trash.js (one row per deletion), the retained blob     *)
(* pool of index.js (one record per digest), and the two private places of  *)
(* backends/file/index.js, retained/<digest> and trash/<id>.                *)
(* Calls run one at a time in the mutation queue; listings, the sweep timer *)
(* and programs outside Stored run between any two of their awaits. Mutant  *)
(* operators are defects that the properties are shown to catch.            *)
(***************************************************************************)
EXTENDS Naturals, Sequences, FiniteSets

CONSTANTS
  Keys, Contents,
  Dir,                       \* the folder that holds the keys
  OnDisk,                    \* what the keys hold at first
  Kinds,                     \* which calls are made
  MaxItems, MaxCalls, MaxEvents,   \* bounds of the instance
  Absent, None

Bytes == Contents \cup {Absent}
Ids == 1..MaxItems
Under(key) == IF key = Dir THEN Keys ELSE {key}

ASSUME DirAssumption == Dir \notin Keys
ASSUME DiskAssumption == OnDisk \in [Keys -> Bytes]
ASSUME KindsAssumption == Kinds \subseteq {"remove", "propagate", "write", "restore", "discard", "folder"}
ASSUME NoneAssumption == Absent \notin Contents /\ None \notin Bytes
ASSUME BoundsAssumption == {MaxItems, MaxCalls, MaxEvents} \subseteq Nat

(* A row of backend-trash-v1. "captured" is quarantined or a folder: the bytes
   are at trash/<id>; "manual" has its own cache pin and never expires; "old"
   means deletedAt is outside the window. *)
Item == [key: Keys \cup {Dir}, content: Bytes, state: {"pending", "active", "restored", "discarding", "discarded"},
         reason: {"delete", "overwrite"}, captured: BOOLEAN, manual: BOOLEAN, ready: BOOLEAN, old: BOOLEAN]

ASSUME RowAssumption == None \notin Item

(* A record of the retained pool; "old" means lastAt is outside the window. *)
Record == [keys: SUBSET Keys, versions: SUBSET Keys, old: BOOLEAN]

ASSUME RecordAssumption == None \notin Record

Steps == {"retain", "record", "mark", "capture", "finish", "bare", "place", "index", "pin",
          "look", "move", "replace", "blob", "settle", "unpin", "purge", "dereference", "blobs", "forget"}
(* A call in the mutation queue: what it was asked, the item row it holds in
   memory, and the version of the key it believes to replace. *)
Call == [kind: Kinds, at: Steps, key: Keys \cup {Dir}, id: 0..MaxItems, row: Item \cup {None},
         found: Bytes, new: Bytes, create: BOOLEAN]
Listing == [id: Ids, row: Item, found: BOOLEAN]
Sweep == [rows: SUBSET Ids, digests: SUBSET Contents, dropped: 0..MaxItems, digest: Contents \cup {None}]

VARIABLES
  disk,     \* the files of the backend
  index,    \* the path index of Stored
  kept,     \* the blobs under retained/
  retained, \* LMDB: the records of the pool
  items,    \* LMDB: the trash rows
  trashed,  \* what is at trash/<id>: the captured files
  pins,     \* the cache entries trash:<id>
  locked,   \* memory: digests whose lock is held
  call, listing, sweep, timer,   \* memory: what runs
  spent     \* history: budgets, and what became of the bytes taken off the disk

memory == <<locked, call, listing, sweep, timer>>
vars == <<disk, index, kept, retained, items, trashed, pins, memory, spent>>

Nothing == [k \in Keys |-> Absent]

Init ==
  /\ disk = OnDisk /\ index = OnDisk
  /\ kept = {} /\ retained = [c \in Contents |-> None]
  /\ items = <<>> /\ trashed = [i \in Ids |-> Nothing] /\ pins = [i \in Ids |-> Absent]
  /\ locked = {} /\ call = None /\ listing = None /\ sweep = None /\ timer = FALSE
  /\ spent = [calls |-> 0, events |-> 0,
              taken |-> {}, waived |-> {}, undone |-> {}, back |-> {}, stale |-> {}]

(***************************************************************************)
(* Questions on rows                                                        *)
(***************************************************************************)
Ended(item) == item.state \in {"restored", "discarded"}

(* get() has something to show: the row may still be pending. *)
Offered(item) ==
  /\ item # None /\ ~Ended(item) /\ (item.manual \/ ~item.old)
  /\ item.state = "pending" /\ item.manual => item.ready

Captured(i) == trashed[i] # Nothing

(* A pending deletion took place if its bytes are in private trash, or the
   file is no longer where it was. *)
TookPlace(i, row) == IF row.captured THEN Captured(i) ELSE disk[row.key] = Absent

MutantRefers(c, except, key) == FALSE

Refers(c, except, key) ==
  \E j \in DOMAIN items \ {except} :
    /\ items[j] # None /\ items[j].content = c /\ ~Ended(items[j])
    /\ key = None \/ items[j].key = key

(* Steps of a call *)
At(step) == call # None /\ call.at = step
Goto(step) == call' = [call EXCEPT !.at = step]
Return == call' = None

Put(row) == items' = [items EXCEPT ![call.id] = row]

Taken(bytes) == [spent EXCEPT !.taken = @ \cup (bytes \ {Absent}), !.waived = @ \ bytes, !.undone = @ \ bytes]
Waived(bytes) == [spent EXCEPT !.waived = @ \cup (bytes \ {Absent})]
Files(tree) == {tree[k] : k \in Keys} \ {Absent}

Ask(kind, at, key) ==
  [kind |-> kind, at |-> at, key |-> key, id |-> 0, row |-> None, found |-> Absent, new |-> Absent, create |-> FALSE]

Accept(kind) ==
  /\ kind \in Kinds /\ call = None /\ spent.calls < MaxCalls
  /\ spent' = [spent EXCEPT !.calls = @ + 1]

(***************************************************************************)
(* Taking a version off its key: retain a copy, record it, capture the file *)
(***************************************************************************)
Remove(k) ==
  /\ Accept("remove") /\ index[k] # Absent /\ Len(items) < MaxItems
  /\ call' = [Ask("remove", "retain", k) EXCEPT !.found = index[k]]
  /\ UNCHANGED <<disk, index, kept, retained, items, trashed, pins, locked, listing, sweep, timer>>

(* writeObject looks at the file itself and brings the index up to date. *)
Write(k, c, create) ==
  /\ Accept("write") /\ disk[k] # c /\ (create => disk[k] = Absent) /\ Len(items) < MaxItems
  /\ index' = [index EXCEPT ![k] = disk[k]]
  /\ call' = [Ask("write", IF disk[k] = Absent THEN "place" ELSE "retain", k)
                EXCEPT !.found = disk[k], !.new = c, !.create = create]
  /\ UNCHANGED <<disk, kept, retained, items, trashed, pins, locked, listing, sweep, timer>>

(* backend.retain: a copy that is already there is verified and taken as it is. *)
Retain ==
  LET k == call.key  c == call.found IN
  /\ At("retain") /\ c \notin locked
  /\ \/ /\ disk[k] = Absent
        /\ Goto(CASE call.kind = "remove" -> "bare" [] call.kind = "write" -> "place" [] OTHER -> "mark")
        /\ UNCHANGED <<kept, locked>>
     \/ /\ disk[k] # Absent /\ (c \in kept \/ disk[k] = c)
        /\ kept' = kept \cup {c} /\ locked' = locked \cup {c}
        /\ Goto("record")
     \/ /\ disk[k] \notin {Absent, c} /\ c \notin kept
        /\ Return /\ UNCHANGED <<kept, locked>>
  /\ UNCHANGED <<disk, index, retained, items, trashed, pins, listing, sweep, timer, spent>>

MutantRow(key, content, reason) ==
  [key |-> key, content |-> content, state |-> "pending", reason |-> IF key = Dir THEN None ELSE reason,
   captured |-> key = Dir, manual |-> FALSE, ready |-> FALSE, old |-> FALSE]

Row(key, content, reason) ==
  [key |-> key, content |-> content, state |-> "pending", reason |-> reason,
   captured |-> key = Dir, manual |-> FALSE, ready |-> FALSE, old |-> FALSE]

Noted(record, k, version) ==
  [keys |-> {k} \cup (IF record = None THEN {} ELSE record.keys),
   versions |-> (IF version THEN {k} ELSE {}) \cup (IF record = None THEN {} ELSE record.versions),
   old |-> FALSE]

(* The deletion's row is written under the digest lock, next to the record. *)
RecordRetained ==
  LET k == call.key  c == call.found IN
  /\ At("record")
  /\ retained' = [retained EXCEPT ![c] = Noted(@, k, call.kind # "remove")]
  /\ IF call.kind = "propagate"
     THEN Goto("mark") /\ UNCHANGED items
     ELSE LET row == Row(k, c, IF call.kind = "remove" THEN "delete" ELSE "overwrite") IN
          /\ items' = Append(items, row)
          /\ call' = [call EXCEPT !.at = "mark", !.id = Len(items) + 1, !.row = row]
  /\ locked' = locked \ {c} /\ timer' = TRUE
  /\ UNCHANGED <<disk, index, kept, trashed, pins, listing, sweep, spent>>

MutantMark ==
  LET row == [call.row EXCEPT !.captured = TRUE] IN
  /\ At("mark")
  /\ call' = [call EXCEPT !.at = "capture", !.row = row]
  /\ UNCHANGED <<disk, index, kept, retained, items, trashed, pins, locked, listing, sweep, timer, spent>>

(* quarantine(item), before the rename *)
Mark ==
  LET row == [call.row EXCEPT !.captured = TRUE] IN
  /\ At("mark")
  /\ Put(row) /\ call' = [call EXCEPT !.at = "capture", !.row = row]
  /\ UNCHANGED <<disk, index, kept, retained, trashed, pins, locked, listing, sweep, timer, spent>>

(* One rename takes whatever is there, then the captured file is hashed. A
   folder without files counts as gone. A deletion made again under the same
   id renames over what its first attempt captured. *)
Capture ==
  LET tree == [k \in Keys |-> IF k \in Under(call.key) THEN disk[k] ELSE Absent] IN
  /\ At("capture")
  /\ \/ /\ tree = Nothing /\ call.key # Dir
        /\ Return /\ UNCHANGED <<disk, trashed, spent>>
     \/ /\ tree # Nothing
        /\ trashed' = [trashed EXCEPT ![call.id] = tree]
        /\ disk' = [k \in Keys |-> IF k \in Under(call.key) THEN Absent ELSE disk[k]]
        /\ Goto("finish")
        /\ spent' = [Taken(Files(tree)) EXCEPT !.undone = @ \cup (Files(trashed[call.id]) \ Files(tree))]
  /\ UNCHANGED <<index, kept, retained, items, pins, locked, listing, sweep, timer>>

Intended == call.key = Dir \/ trashed[call.id][call.key] = call.found

(* The row becomes active; bytes that are not the version meant go back. *)
Finish ==
  /\ At("finish")
  /\ Put([call.row EXCEPT !.state = "active"])
  /\ IF ~Intended THEN Goto(IF call.row.manual THEN "replace" ELSE "move") /\ UNCHANGED index
     ELSE IF call.kind = "write" THEN Goto("place") /\ UNCHANGED index
     ELSE /\ index' = [k \in Keys |-> IF k \in Under(call.key) THEN Absent ELSE index[k]]
          /\ Return
  /\ timer' = (timer \/ call.key = Dir)
  /\ UNCHANGED <<disk, kept, retained, trashed, pins, locked, listing, sweep, spent>>

(* Nothing was there to retain: the driver deletes what is there now. *)
Bare ==
  /\ At("bare")
  /\ disk' = [disk EXCEPT ![call.key] = Absent]
  /\ index' = [index EXCEPT ![call.key] = Absent]
  /\ spent' = Waived({disk[call.key]})
  /\ Return
  /\ UNCHANGED <<kept, retained, items, trashed, pins, locked, listing, sweep, timer>>

(* A captured version and a conditional create are followed by a link, which
   refuses an occupied key; otherwise the new file is renamed over it. *)
Place ==
  LET k == call.key  safe == call.create \/ call.row # None IN
  /\ At("place")
  /\ \/ /\ ~safe \/ disk[k] = Absent
        /\ disk' = [disk EXCEPT ![k] = call.new]
        /\ spent' = Waived({disk[k]})
        /\ Goto("index")
     \/ /\ safe /\ disk[k] # Absent
        /\ IF call.row # None THEN Goto("move") ELSE Return
        /\ UNCHANGED <<disk, spent>>
  /\ UNCHANGED <<index, kept, retained, items, trashed, pins, locked, listing, sweep, timer>>

Index ==
  /\ At("index")
  /\ index' = [index EXCEPT ![call.key] = call.new]
  /\ Return
  /\ UNCHANGED <<disk, kept, retained, items, trashed, pins, locked, listing, sweep, timer, spent>>

TrashFolder ==
  /\ Accept("folder") /\ disk # Nothing /\ Len(items) < MaxItems
  /\ items' = Append(items, Row(Dir, Absent, "delete"))
  /\ call' = [Ask("folder", "capture", Dir) EXCEPT !.id = Len(items) + 1, !.row = Row(Dir, Absent, "delete")]
  /\ UNCHANGED <<disk, index, kept, retained, trashed, pins, locked, listing, sweep, timer>>

(***************************************************************************)
(* A deletion propagated from elsewhere, under the caller's operation id    *)
(***************************************************************************)
Propagate(k) ==
  LET row == [Row(k, index[k], "delete") EXCEPT !.manual = TRUE] IN
  /\ Accept("propagate") /\ index[k] # Absent /\ disk[k] # Absent /\ Len(items) < MaxItems
  /\ items' = Append(items, row)
  /\ call' = [Ask("propagate", "pin", k) EXCEPT !.id = Len(items) + 1, !.row = row, !.found = index[k]]
  /\ UNCHANGED <<disk, index, kept, retained, trashed, pins, locked, listing, sweep, timer>>

Again(i) ==
  LET row == items[i] IN
  /\ Accept("propagate") /\ row # None /\ row.manual /\ row.state = "pending"
  /\ \/ /\ disk[row.key] = Absent /\ row.ready
        /\ items' = [items EXCEPT ![i].state = "active"] /\ UNCHANGED call
     \/ /\ disk[row.key] # Absent /\ (row.ready => index[row.key] = row.content)
        /\ call' = [Ask("propagate", IF row.ready THEN "retain" ELSE "pin", row.key)
                      EXCEPT !.id = i, !.row = row, !.found = row.content]
        /\ UNCHANGED items
  /\ UNCHANGED <<disk, index, kept, retained, trashed, pins, locked, listing, sweep, timer>>

Pin ==
  LET row == [call.row EXCEPT !.ready = TRUE] IN
  /\ At("pin")
  /\ \/ /\ disk[call.key] = call.found
        /\ pins' = [pins EXCEPT ![call.id] = call.found]
        /\ Put(row)
        /\ IF index[call.key] = call.found THEN call' = [call EXCEPT !.at = "retain", !.row = row] ELSE Return
     \/ /\ disk[call.key] # call.found
        /\ pins' = [pins EXCEPT ![call.id] = Absent] /\ Return /\ UNCHANGED items
  /\ UNCHANGED <<disk, index, kept, retained, trashed, locked, listing, sweep, timer, spent>>

(***************************************************************************)
(* Restoring an item                                                        *)
(***************************************************************************)
MutantRestore(i) ==
  /\ Accept("restore") /\ Offered(items[i])
  /\ call' = [Ask("restore", "look", items[i].key) EXCEPT !.id = i, !.row = items[i]]
  /\ UNCHANGED <<disk, index, kept, retained, items, trashed, pins, locked, listing, sweep, timer>>

Restore(i) ==
  /\ Accept("restore") /\ Offered(items[i]) /\ items[i].state # "discarding"
  /\ call' = [Ask("restore", "look", items[i].key) EXCEPT !.id = i, !.row = items[i]]
  /\ UNCHANGED <<disk, index, kept, retained, items, trashed, pins, locked, listing, sweep, timer>>

Look ==
  LET row == [call.row EXCEPT !.state = "active"] IN
  /\ At("look")
  /\ IF call.row.state = "pending" /\ ~TookPlace(call.id, call.row) THEN Return /\ UNCHANGED items
     ELSE /\ IF call.row.state = "pending" THEN Put(row) ELSE UNCHANGED items
          /\ call' = [call EXCEPT !.row = row,
                        !.at = IF row.manual THEN "replace" ELSE IF row.captured THEN "move" ELSE "blob"]
  /\ UNCHANGED <<disk, index, kept, retained, trashed, pins, locked, listing, sweep, timer, spent>>

(* restoreTrashedDirectory: back to the original place, never over anything. *)
Move ==
  LET tree == trashed[call.id] IN
  /\ At("move")
  /\ \/ /\ \A k \in Under(call.key) : disk[k] = Absent
        /\ tree # Nothing
        /\ disk' = [k \in Keys |-> IF k \in Under(call.key) THEN tree[k] ELSE disk[k]]
        /\ trashed' = [trashed EXCEPT ![call.id] = Nothing]
        /\ spent' = [spent EXCEPT !.taken = @ \ Files(tree), !.back = @ \cup {call.id}]
        /\ Goto("settle")
     \/ /\ tree = Nothing \/ \E k \in Under(call.key) : disk[k] # Absent
        /\ Return /\ UNCHANGED <<disk, trashed, spent>>
  /\ UNCHANGED <<index, kept, retained, items, pins, locked, listing, sweep, timer>>

(* restorePinned and restoreRetained: a conditional write of the pinned or the
   retained bytes. *)
Rewrite(step, bytes) ==
  LET k == call.key IN
  /\ At(step)
  /\ \/ /\ disk[k] = Absent /\ bytes # Absent
        /\ disk' = [disk EXCEPT ![k] = bytes] /\ index' = [index EXCEPT ![k] = bytes]
        /\ spent' = [spent EXCEPT !.taken = @ \ {bytes}]
        /\ Goto("settle")
     \/ /\ disk[k] # Absent \/ bytes = Absent
        /\ Return /\ UNCHANGED <<disk, index, spent>>
  /\ UNCHANGED <<kept, retained, items, trashed, pins, locked, listing, sweep, timer>>

Replace == Rewrite("replace", IF call = None THEN Absent ELSE IF call.id = 0 THEN Absent ELSE pins[call.id])

Blob ==
  LET c == IF call = None THEN Absent ELSE call.row.content IN
  Rewrite("blob", IF c \in kept /\ retained[c] # None THEN c ELSE Absent)

(* refreshObject, then the row is restored. *)
Settle ==
  /\ At("settle")
  /\ index' = IF call.row.captured /\ call.key # Dir /\ disk[call.key] # Absent
              THEN [index EXCEPT ![call.key] = disk[call.key]] ELSE index
  /\ Put([call.row EXCEPT !.state = "restored"])
  /\ IF call.row.manual
     THEN /\ Goto("unpin")
          /\ spent' = [spent EXCEPT !.undone = @ \cup (Files(trashed[call.id]) \ {call.row.content})]
     ELSE Return /\ UNCHANGED spent
  /\ UNCHANGED <<disk, kept, retained, trashed, pins, locked, listing, sweep, timer>>

(* A restored propagated deletion gives up its pin, and what was captured. *)
Unpin ==
  /\ At("unpin")
  /\ pins' = [pins EXCEPT ![call.id] = Absent]
  /\ IF call.row.captured
     THEN trashed' = [trashed EXCEPT ![call.id] = Nothing] ELSE UNCHANGED trashed
  /\ Return
  /\ UNCHANGED <<disk, index, kept, retained, items, locked, listing, sweep, timer, spent>>

(***************************************************************************)
(* Purging an item: the intent is recorded before the bytes go              *)
(***************************************************************************)
MutantDiscard(i) ==
  /\ "discard" \in Kinds /\ call = None /\ spent.calls < MaxCalls
  /\ items[i] # None /\ ~Ended(items[i])
  /\ call' = [Ask("discard", "purge", items[i].key) EXCEPT !.id = i, !.row = items[i]]
  /\ spent' = [Waived({items[i].content} \cup Files(trashed[i])) EXCEPT !.calls = @ + 1]
  /\ UNCHANGED <<disk, index, kept, retained, items, trashed, pins, locked, listing, sweep, timer>>

Discard(i) ==
  /\ "discard" \in Kinds /\ call = None /\ spent.calls < MaxCalls
  /\ items[i] # None /\ ~Ended(items[i])
  /\ items' = [items EXCEPT ![i].state = "discarding"]
  /\ call' = [Ask("discard", "purge", items[i].key) EXCEPT !.id = i, !.row = items[i]]
  /\ spent' = [Waived({items[i].content} \cup Files(trashed[i])) EXCEPT !.calls = @ + 1]
  /\ UNCHANGED <<disk, index, kept, retained, trashed, pins, locked, listing, sweep, timer>>

Discarded == Put([call.row EXCEPT !.state = "discarded"])

Purge ==
  LET row == call.row IN
  /\ At("purge")
  /\ trashed' = IF row.captured THEN [trashed EXCEPT ![call.id] = Nothing] ELSE trashed
  /\ pins' = IF row.manual THEN [pins EXCEPT ![call.id] = Absent] ELSE pins
  /\ IF row.manual \/ row.key = Dir THEN Discarded /\ Return ELSE Goto("dereference") /\ UNCHANGED items
  /\ UNCHANGED <<disk, index, kept, retained, locked, listing, sweep, timer, spent>>

(* Keys whose deletion or version still needs the shared bytes. *)
StillNeeded(i, row) ==
  LET record == retained[row.content] IN
  {k \in record.keys : k # row.key \/ k \in record.versions \/ Refers(row.content, i, row.key)}

Dereference ==
  LET c == call.row.content IN
  /\ At("dereference") /\ c \notin locked
  /\ \/ /\ retained[c] = None
        /\ Discarded /\ Return /\ UNCHANGED <<retained, locked>>
     \/ /\ retained[c] # None
        /\ StillNeeded(call.id, call.row) # {} \/ Refers(c, call.id, None)
        /\ retained' = [retained EXCEPT ![c].keys = StillNeeded(call.id, call.row)]
        /\ Discarded /\ Return /\ UNCHANGED locked
     \/ /\ retained[c] # None
        /\ StillNeeded(call.id, call.row) = {} /\ ~Refers(c, call.id, None)
        /\ locked' = locked \cup {c}
        /\ Goto("blobs") /\ UNCHANGED <<items, retained>>
  /\ UNCHANGED <<disk, index, kept, trashed, pins, listing, sweep, timer, spent>>

Blobs ==
  /\ At("blobs")
  /\ kept' = kept \ {call.row.content}
  /\ Goto("forget")
  /\ UNCHANGED <<disk, index, retained, items, trashed, pins, locked, listing, sweep, timer, spent>>

Forget ==
  /\ At("forget")
  /\ retained' = [retained EXCEPT ![call.row.content] = None]
  /\ locked' = locked \ {call.row.content}
  /\ Discarded /\ Return
  /\ UNCHANGED <<disk, index, kept, trashed, pins, listing, sweep, timer, spent>>

(* The driver throws while it removes bytes. *)
PurgeFails ==
  /\ At("purge") \/ At("blobs")
  /\ spent.events < MaxEvents /\ spent' = [spent EXCEPT !.events = @ + 1]
  /\ locked' = IF call.at = "blobs" THEN locked \ {call.row.content} ELSE locked
  /\ Return
  /\ UNCHANGED <<disk, index, kept, retained, items, trashed, pins, listing, sweep, timer>>

(***************************************************************************)
(* The sweep timer, outside the mutation queue                              *)
(***************************************************************************)
Expired(i) == items[i] # None /\ items[i].old /\ ~items[i].manual

StartSweep ==
  /\ timer /\ sweep = None
  /\ (\E i \in DOMAIN items : Expired(i)) \/ \E c \in Contents : retained[c] # None /\ retained[c].old
  /\ sweep' = [rows |-> {i \in DOMAIN items : Expired(i)}, digests |-> {c \in Contents : retained[c] # None},
               dropped |-> 0, digest |-> None]
  /\ UNCHANGED <<disk, index, kept, retained, items, trashed, pins, locked, call, listing, timer, spent>>

SweepTrashed ==
  /\ sweep # None /\ sweep.dropped = 0
  /\ \E i \in sweep.rows :
       /\ sweep' = [sweep EXCEPT !.dropped = i]
       /\ IF items[i] # None /\ items[i].captured
          THEN trashed' = [trashed EXCEPT ![i] = Nothing] /\ spent' = Waived(Files(trashed[i]))
          ELSE UNCHANGED <<trashed, spent>>
  /\ UNCHANGED <<disk, index, kept, retained, items, pins, locked, call, listing, timer>>

SweepRow ==
  /\ sweep # None /\ sweep.dropped # 0
  /\ items' = [items EXCEPT ![sweep.dropped] = None]
  /\ sweep' = [sweep EXCEPT !.rows = @ \ {sweep.dropped}, !.dropped = 0]
  /\ UNCHANGED <<disk, index, kept, retained, trashed, pins, locked, call, listing, timer, spent>>

MutantStale(c) == retained[c] # None

Stale(c) == retained[c] # None /\ retained[c].old

SweepDigest ==
  /\ sweep # None /\ sweep.rows = {} /\ sweep.digest = None
  /\ \E c \in sweep.digests \ locked :
       IF Stale(c)
       THEN /\ locked' = locked \cup {c} /\ kept' = kept \ {c}
            /\ sweep' = [sweep EXCEPT !.digest = c]
            /\ spent' = Waived({c})
       ELSE sweep' = [sweep EXCEPT !.digests = @ \ {c}] /\ UNCHANGED <<locked, kept, spent>>
  /\ UNCHANGED <<disk, index, retained, items, trashed, pins, call, listing, timer>>

SweepRecord ==
  /\ sweep # None /\ sweep.digest # None
  /\ retained' = [retained EXCEPT ![sweep.digest] = None]
  /\ locked' = locked \ {sweep.digest}
  /\ sweep' = [sweep EXCEPT !.digests = @ \ {sweep.digest}, !.digest = None]
  /\ UNCHANGED <<disk, index, kept, items, trashed, pins, call, listing, timer, spent>>

EndSweep ==
  /\ sweep # None /\ sweep.rows = {} /\ sweep.digests = {}
  /\ sweep' = None
  /\ UNCHANGED <<disk, index, kept, retained, items, trashed, pins, locked, call, listing, timer, spent>>

(***************************************************************************)
(* A listing, outside the mutation queue: get() finishes a pending row it   *)
(* read before it looked at the disk                                        *)
(***************************************************************************)
List(i) ==
  /\ listing = None /\ spent.events < MaxEvents
  /\ Offered(items[i]) /\ items[i].state = "pending"
  /\ listing' = [id |-> i, row |-> items[i], found |-> FALSE]
  /\ spent' = [spent EXCEPT !.events = @ + 1]
  /\ UNCHANGED <<disk, index, kept, retained, items, trashed, pins, locked, call, sweep, timer>>

ListLook ==
  /\ listing # None /\ ~listing.found
  /\ listing' = IF TookPlace(listing.id, listing.row) THEN [listing EXCEPT !.found = TRUE] ELSE None
  /\ UNCHANGED <<disk, index, kept, retained, items, trashed, pins, locked, call, sweep, timer, spent>>

ListFinish ==
  /\ listing # None /\ listing.found
  /\ items' = [items EXCEPT ![listing.id] = [listing.row EXCEPT !.state = "active"]]
  /\ spent' = IF items[listing.id] = listing.row THEN spent ELSE [spent EXCEPT !.stale = @ \cup {listing.id}]
  /\ listing' = None
  /\ UNCHANGED <<disk, index, kept, retained, trashed, pins, locked, call, sweep, timer>>

(***************************************************************************)
(* The environment                                                          *)
(***************************************************************************)
Foreign(k, bytes) ==
  /\ spent.events < MaxEvents /\ disk[k] # bytes
  /\ disk' = [disk EXCEPT ![k] = bytes]
  /\ spent' = [spent EXCEPT !.events = @ + 1]
  /\ UNCHANGED <<index, kept, retained, items, trashed, pins, memory>>

(* The watcher or a scan brings the index up to date; a key a call holds is
   left alone. *)
Watch(k) ==
  /\ index[k] # disk[k] /\ (call # None => k \notin Under(call.key))
  /\ index' = [index EXCEPT ![k] = disk[k]]
  /\ UNCHANGED <<disk, kept, retained, items, trashed, pins, memory, spent>>

(* The window passes for everything recorded so far; no call or sweep lasts
   as long as the window. *)
Age ==
  /\ call = None /\ listing = None /\ sweep = None /\ spent.events < MaxEvents
  /\ items' = [i \in DOMAIN items |-> IF items[i] = None THEN None ELSE [items[i] EXCEPT !.old = TRUE]]
  /\ retained' = [c \in Contents |-> IF retained[c] = None THEN None ELSE [retained[c] EXCEPT !.old = TRUE]]
  /\ spent' = [spent EXCEPT !.events = @ + 1]
  /\ UNCHANGED <<disk, index, kept, trashed, pins, memory>>

Crash ==
  /\ spent.events < MaxEvents /\ spent' = [spent EXCEPT !.events = @ + 1]
  /\ locked' = {} /\ call' = None /\ listing' = None /\ sweep' = None /\ timer' = FALSE
  /\ UNCHANGED <<disk, index, kept, retained, items, trashed, pins>>

Calls ==
  \/ \E k \in Keys : Remove(k) \/ Propagate(k) \/ \E c \in Contents, create \in BOOLEAN : Write(k, c, create)
  \/ TrashFolder
  \/ \E i \in DOMAIN items : Again(i) \/ Restore(i) \/ Discard(i)

Step ==
  \/ Retain \/ RecordRetained \/ Mark \/ Capture \/ Finish \/ Bare \/ Place \/ Index \/ Pin
  \/ Look \/ Move \/ Replace \/ Blob \/ Settle \/ Unpin \/ Purge \/ Dereference \/ Blobs \/ Forget

Sweeping == StartSweep \/ SweepTrashed \/ SweepRow \/ SweepDigest \/ SweepRecord \/ EndSweep

Environment ==
  \/ \E k \in Keys : Watch(k) \/ \E b \in Bytes : Foreign(k, b)
  \/ \E i \in DOMAIN items : List(i)
  \/ Age \/ Crash \/ PurgeFails

Next == Calls \/ Step \/ Sweeping \/ ListLook \/ ListFinish \/ Environment

Spec == Init /\ [][Next]_vars

(***************************************************************************)
(* Properties                                                               *)
(***************************************************************************)

(* The state keeps its type. *)
TypeOK ==
  /\ disk \in [Keys -> Bytes] /\ index \in [Keys -> Bytes]
  /\ kept \subseteq Contents /\ retained \in [Contents -> Record \cup {None}]
  /\ items \in Seq(Item \cup {None}) /\ Len(items) <= MaxItems
  /\ trashed \in [Ids -> [Keys -> Bytes]] /\ pins \in [Ids -> Bytes]
  /\ locked \subseteq Contents
  /\ call \in Call \cup {None} /\ listing \in Listing \cup {None} /\ sweep \in Sweep \cup {None}
  /\ timer \in BOOLEAN

(* Whatever the trash offers inside the window can be given back: its bytes
   are where its restore looks for them, or back on the disk already. A row
   that a listing wrote again after its deletion moved on is left out. *)
Available(i) ==
  LET row == items[i] IN
  IF row.manual THEN pins[i] = row.content
  ELSE IF row.captured THEN Captured(i) \/ i \in spent.back
  ELSE row.content \in kept /\ retained[row.content] # None

Restorable ==
  \A i \in DOMAIN items \ spent.stale :
    Offered(items[i]) /\ items[i].state = "active" => Available(i)

(* What Stored took off a key stays behind an item that is not over, until it
   is given back. Left out: bytes the user purged, that expired, or that
   appeared at a key after the call had found it empty; what CapturedKept is
   about; and, as above, that a listing can write a row again without its
   "captured". *)
WithinReach(c) ==
  \E i \in DOMAIN items :
    /\ c \in Files(trashed[i])
    /\ i \in spent.stale \/ (items[i] # None /\ ~Ended(items[i]) /\ items[i].captured)

StillRecoverable == \A c \in spent.taken \ (spent.waived \cup spent.undone) : WithinReach(c)

(* index.js:927 says of the file a removal captured when another writer had
   changed it: "The captured inode is recoverable even if it is still open in
   that process." *)
CapturedKept ==
  \A c \in spent.undone :
    \/ c \in kept \/ \E k \in Keys : disk[k] = c
    \/ \E i \in Ids : c \in Files(trashed[i]) \cup {pins[i]}

(* The record of a digest has its bytes while a version or a deletion inside
   the window needs them, whatever purges and sweeps of equal content do. *)
Needs(i, c) ==
  /\ items[i] # None /\ items[i].content = c /\ ~items[i].manual /\ ~items[i].old
  /\ items[i].state \in {"pending", "active"}

PoolBacked ==
  \A c \in Contents :
    /\ retained[c] # None /\ ~retained[c].old
    /\ retained[c].versions # {} \/ \E i \in DOMAIN items \ spent.stale : Needs(i, c)
    => c \in kept

(* Once the purge of an item is recorded no removal, restore, sweep, crash or
   repeated purge makes the item active again. One step of the code does, and is
   left out: a listing that read the row while it was pending writes it back as
   active after its await (trash.js:94-107). *)
Relisted(i) == ListFinish /\ listing.id = i

PurgeFinal ==
  [][\A i \in DOMAIN items :
       items[i] # None /\ items[i].state \in {"discarding", "discarded"} =>
         \/ items'[i] = None \/ items'[i].state \in {"discarding", "discarded"}
         \/ Relisted(i)]_vars
=============================================================================
