------------------------------- MODULE Transfers -------------------------------
(***************************************************************************)
(* Copies and moves between backends, the watcher's events on a backend     *)
(* whose files other programs change too, and scans: the parts of index.js  *)
(* that keep the content index (ContentIndex) true to the disks. Transfers  *)
(* run one at a time in the mutation queue; events, their timers and scans  *)
(* run between any two of a transfer's awaits. Mutant operators are defects *)
(* that the properties are shown to catch.                                  *)
(***************************************************************************)
EXTENDS ContentIndex

CONSTANTS
  Home,      \* keys of a watched file backend
  Nas,       \* keys of a second file backend, on another volume, not watched
  Cloud,     \* keys of a remote backend, written through the upload queue
  OnDisk, Indexed,           \* files and index at first
  Kinds,                     \* which calls are made
  MaxEvents, MaxActs,        \* bounds of the instance: a call counts for two acts
  Absent

Files == Home \cup Nas
File == [c: Contents, ino: Inodes \cup {None}]
SameBackend(k, m) == \E side \in {Home, Nas, Cloud} : {k, m} \subseteq side

ASSUME LocsAssumption == Locs = Home \cup Nas \cup Cloud
ASSUME DisjointAssumption == Home \cap Nas = {} /\ Cloud \cap Files = {}
ASSUME DiskAssumption == OnDisk \in [Locs -> File \cup {Absent}] /\ Indexed \in IndexType
ASSUME KindsAssumption == Kinds \subseteq {"copy", "move", "put"}
ASSUME NoneAssumption == None \notin Contents /\ None \notin Locs /\ None \notin Inodes /\ None \notin Location
ASSUME FiniteAssumption == IsFiniteSet(Locs) /\ IsFiniteSet(Contents)
ASSUME StartAssumption ==
  /\ Indexed.log = <<>>
  /\ \A k \in Locs, c \in Contents : (Indexed.locs[c][k] # None) <=> (Indexed.owner[k] = c)
  /\ \A k \in Files : Indexed.owner[k] = IF OnDisk[k] = Absent THEN None ELSE OnDisk[k].c
ASSUME BoundsAssumption == {MaxEvents, MaxActs} \subseteq Nat

(* A pending move, persistent. *)
Pending == [c: Contents, from: Locs, to: Locs]
Call == [kind: {"copy", "move", "put", "resume", "ack"},
         at: {"rename", "stream", "commit", "record", "verify", "source", "remove", "release", "forget", "write"},
         c: Contents, from: Locs, to: Locs, over: BOOLEAN, ino: Inodes \cup {None},
         locs: Locations]
Event == [kind: {"add", "change"}, key: Home, file: File]
Held == [key: Home, ino: Inodes]
Check == [key: Home, gone: BOOLEAN]   \* an unlink seen during a hold; "gone": looked at since
Scan == [todo: SUBSET Home, row: {None} \cup [key: Home, file: File], present: SUBSET Home, calm: BOOLEAN]
History == [calls: Nat, events: Nat, touched: SUBSET Locs, doubt: SUBSET Locs, twice: SUBSET Locs]

ASSUME RecordsAssumption == None \notin Call \cup Scan \cup [key: Home, file: File] /\ Absent \notin File

VARIABLES
  disk,     \* the files of every backend
  ix,       \* LMDB: the content index
  moves,    \* LMDB: moves that wait for their remote destination
  uploads,  \* the upload queue: contents staged for a remote key
  call, held, rechecks, suppressed, scan,   \* memory of Stored
  seen, hashing,                            \* memory of the watcher
  spent     \* history: budgets, and what known gaps of the code left behind

memory == <<call, held, rechecks, suppressed, scan, seen, hashing>>
vars == <<disk, ix, moves, uploads, memory, spent>>

Content(k) == IF disk[k] = Absent THEN None ELSE disk[k].c
Free == Inodes \ {disk[k].ino : k \in {m \in Files : disk[m] # Absent}}

Init ==
  /\ disk = OnDisk /\ ix = Indexed /\ moves = {} /\ uploads = {}
  /\ call = None /\ held = {} /\ rechecks = {} /\ suppressed = {} /\ scan = None
  /\ seen = [k \in Home |-> OnDisk[k]] /\ hashing = {}
  /\ spent = [calls |-> 0, events |-> 0, touched |-> {}, doubt |-> {}, twice |-> {}]

(***************************************************************************)
(* History. A key is in doubt when a known gap let the index go wrong       *)
(* about it, until a scan that nothing disturbs; two entries claim a key of *)
(* "twice" for good. The README names the gaps.                             *)
(***************************************************************************)
Able(acts) == 2 * spent.calls + spent.events + acts <= MaxActs
Present(k) == IF disk[k] = Absent THEN {} ELSE {k}
Doubt(keys) == [spent EXCEPT !.doubt = @ \cup keys]

(* A call records its content at k, where the file is another one by now, or
   which another entry has taken; "back" are locations of a stale entry. *)
Recorded(k, back) ==
  [spent EXCEPT
     !.doubt = @ \cup {m \in ({k} \cup back) \cap Files : Content(m) # call.c},
     !.twice = @ \cup {m \in {k} \cup back : ix.owner[m] \notin {None, call.c} /\ ~(m = k /\ call.over)}]

(***************************************************************************)
(* The upkeep of the index                                                  *)
(***************************************************************************)
There(ino) == [ino |-> ino, synced |-> TRUE]
Tx == LogHead(ix)

ProcessUnlink(index, tx, k) ==
  IF Owner(index, k) = None THEN index ELSE Without(index, tx, Owner(index, k), k)

(* Another entry's claim on k ends before c takes it. *)
Displaced(index, tx, k, c) ==
  IF Owner(index, k) \in {None, c} THEN index ELSE Without(index, tx, Owner(index, k), k)

Succeeded(index, tx, k, file) ==
  With(Displaced(index, tx, k, file.c), tx, file.c, k, There(file.ino))

(* finalizeMove: the destination in, the source out, one write. *)
Moved(index, tx, c, from, to, location) ==
  Put(index, tx, c, [index.locs[c] EXCEPT ![to] = location, ![from] = None],
      IF SameBackend(from, to) THEN [from |-> from, to |-> to] ELSE None)

HoldFor(ino) == {h \in held : h.ino = ino}

(* handleFileEvent for an add or a change. An add of the inode of a held
   unlink with the same content is a rename. "late" is a key the watcher has
   seen change again since. *)
Arrived(e, late) ==
  LET k == e.key  c == e.file.c  o == Owner(ix, k)
      twins == IF e.kind = "add" /\ o \in {None, c} THEN HoldFor(e.file.ino) ELSE {}
  IN
  IF twins = {} THEN ix' = Succeeded(ix, Tx, k, e.file) /\ spent' = Doubt(late) /\ UNCHANGED held
  ELSE LET h == CHOOSE h \in twins : TRUE IN
       /\ held' = held \ twins
       /\ spent' = Doubt(late \cup Present(h.key))
       /\ IF Owner(ix, h.key) = c
          THEN ix' = Put(ix, Tx, c, [ix.locs[c] EXCEPT ![h.key] = None, ![k] = There(e.file.ino)],
                         [from |-> h.key, to |-> k])
          ELSE LET gone == ProcessUnlink(ix, Tx, h.key) IN
               ix' = Succeeded(gone, LogHead(gone), k, e.file)

(* An unlink that is not deferred: a location with an inode is held for the
   rename window, one hold per inode. *)
Left(k) ==
  LET o == Owner(ix, k)
      ino == IF o = None THEN None ELSE IF ix.locs[o][k] = None THEN None ELSE ix.locs[o][k].ino
      prior == HoldFor(ino)
  IN
  IF ino = None THEN ix' = ProcessUnlink(ix, Tx, k) /\ spent' = Doubt(Present(k)) /\ UNCHANGED held
  ELSE /\ held' = (held \ prior) \cup {[key |-> k, ino |-> ino]}
       /\ IF prior = {} THEN UNCHANGED <<ix, spent>>
          ELSE LET h == CHOOSE h \in prior : TRUE IN
               ix' = ProcessUnlink(ix, Tx, h.key) /\ spent' = Doubt(Present(h.key))

(* handleFileEvent for an unlink: while the key is held the decision waits. *)
Unlinked(k, checks) ==
  IF k \in suppressed
  THEN rechecks' = checks \cup {[key |-> k, gone |-> FALSE]} /\ UNCHANGED <<ix, held, spent>>
  ELSE Left(k) /\ rechecks' = checks

(***************************************************************************)
(* The watcher                                                              *)
(***************************************************************************)

(* A vanished file is announced at once; another one is stat'ed and hashed,
   and announced whenever that is done. *)
NoticeGone(k) ==
  /\ seen[k] # Absent /\ disk[k] = Absent
  /\ seen' = [seen EXCEPT ![k] = Absent]
  /\ Unlinked(k, rechecks)
  /\ UNCHANGED <<disk, moves, uploads, call, suppressed, scan, hashing>>

Notice(k) ==
  /\ disk[k] \notin {Absent, seen[k]}
  /\ seen' = [seen EXCEPT ![k] = disk[k]]
  /\ hashing' = hashing \cup {[kind |-> IF seen[k] = Absent THEN "add" ELSE "change", key |-> k, file |-> disk[k]]}
  /\ UNCHANGED <<disk, ix, moves, uploads, call, held, rechecks, suppressed, scan, spent>>

MutantEcho(e) == e.key \in suppressed

(* Under a hold the echo of a write is the bytes just indexed there; anything
   else is a change made underneath. *)
Echo(e) == e.key \in suppressed /\ Owner(ix, e.key) = e.file.c

Deliver(e) ==
  /\ hashing' = hashing \ {e}
  /\ IF Echo(e) THEN UNCHANGED <<ix, held, spent>>
     ELSE Arrived(e, IF seen[e.key] = e.file THEN {} ELSE {e.key})
  /\ UNCHANGED <<disk, moves, uploads, call, rechecks, suppressed, scan, seen>>

(* The rename window closes: a genuine deletion, of whatever owns the key now. *)
WindowCloses(h) ==
  /\ held' = held \ {h}
  /\ ix' = ProcessUnlink(ix, Tx, h.key)
  /\ spent' = Doubt(Present(h.key))
  /\ UNCHANGED <<disk, moves, uploads, call, rechecks, suppressed, scan, seen, hashing>>

(* The keys a call holds; finalizeMove holds its source again. *)
Holding == IF call = None THEN {} ELSE
  CASE call.kind = "copy" -> {call.to} [] call.kind = "move" -> {call.from, call.to}
    [] call.kind = "resume" -> {call.from} [] OTHER -> {}

HoldExpires(k) ==
  /\ k \in suppressed \ Holding
  /\ suppressed' = suppressed \ {k}
  /\ UNCHANGED <<disk, ix, moves, uploads, call, held, rechecks, scan, seen, hashing, spent>>

(* recheckUnlink: after the hold, what the index claims is looked for on the
   disk; when it is not there, the unlink is handled, the stat being over. *)
Recheck(k) ==
  LET due == [key |-> k, gone |-> FALSE] IN
  /\ due \in rechecks /\ k \notin suppressed
  /\ rechecks' = (rechecks \ {due}) \cup (IF Owner(ix, k) # None /\ disk[k] = Absent THEN {[due EXCEPT !.gone = TRUE]} ELSE {})
  /\ UNCHANGED <<disk, ix, moves, uploads, call, held, suppressed, scan, seen, hashing, spent>>

Confirm(k) ==
  LET found == [key |-> k, gone |-> TRUE] IN
  /\ found \in rechecks /\ Unlinked(k, rechecks \ {found})
  /\ UNCHANGED <<disk, moves, uploads, call, suppressed, scan, seen, hashing>>

(***************************************************************************)
(* Planning a call                                                          *)
(***************************************************************************)
Scanning == IF scan = None THEN FALSE ELSE TRUE

(* Someone else acts while the scan runs. *)
Disturb == IF Scanning THEN scan' = [scan EXCEPT !.calm = FALSE] ELSE UNCHANGED scan

Accept(kind) ==
  /\ kind \in Kinds /\ call = None /\ Able(2)
  /\ Disturb
  /\ spent' = [spent EXCEPT !.calls = @ + 1, !.touched = {}]

Ask(kind, at, c, from, to) ==
  [kind |-> kind, at |-> at, c |-> c, from |-> from, to |-> to, over |-> FALSE, ino |-> None, locs |-> Nowhere]

MutantConflict(c, to) == FALSE

(* Other bytes than those of c are on the key. *)
Conflict(c, to) == disk[to] # Absent /\ ix.locs[c][to] = None /\ Owner(ix, to) # c

(* planTransfer: the source is a synced location; a key that holds c already
   is no target; a conflict is refused, replaced, or gets the next free key. *)
Transfer(kind, c, from, to) ==
  /\ Accept(kind)
  /\ ix.locs[c][from] # None /\ ix.locs[c][from].synced
  /\ from # to /\ ~(ix.locs[c][to] # None /\ disk[to] # Absent)
  /\ \E key \in Locs, over \in BOOLEAN :
       /\ IF ~Conflict(c, to) THEN key = to /\ ~over
          ELSE \/ key = to /\ over
               \/ SameBackend(key, to) /\ disk[key] = Absent /\ ~over
       /\ call' = [Ask(kind, IF kind = "move" /\ SameBackend(from, key) /\ from \in Files THEN "rename" ELSE "stream",
                       c, from, key) EXCEPT !.over = over, !.locs = ix.locs[c]]
       /\ suppressed' = suppressed \cup (({key} \cup IF kind = "move" THEN {from} ELSE {}) \cap Home)
  /\ UNCHANGED <<disk, ix, moves, uploads, held, rechecks, seen, hashing>>

(* put ingests new bytes and writes them to a key without asking who has it. *)
PutObject(c, to) ==
  /\ Accept("put")
  /\ call' = Ask("put", "commit", c, to, to)
  /\ UNCHANGED <<disk, ix, moves, uploads, held, rechecks, suppressed, seen, hashing>>

(***************************************************************************)
(* Placing the bytes                                                        *)
(***************************************************************************)
At(step) == IF call = None THEN FALSE ELSE call.at = step
Goto(step) == call' = [call EXCEPT !.at = step]
Return == call' = None

Overwritten(index, tx) == IF call.over THEN Displaced(index, tx, call.to, call.c) ELSE index

(* Another entry's file at the source, which the watcher never saw. *)
Unseen(k) == ix.owner[k] \notin {None, call.c} /\ (k \in Home => seen[k] = Absent)

(* tryRename: within one volume the inode moves and nothing is hashed; the
   index follows in one transaction. *)
Rename ==
  LET k == call.from  m == call.to IN
  /\ At("rename")
  /\ \/ /\ disk[k] = Absent
        /\ Goto("stream") /\ UNCHANGED <<disk, ix, spent>>
     \/ /\ disk[k] # Absent
        /\ disk' = [disk EXCEPT ![k] = Absent, ![m] = disk[k]]
        /\ call' = [call EXCEPT !.at = "release", !.ino = disk[k].ino]
        /\ spent' = Doubt(IF Unseen(k) THEN {k} ELSE {})
        /\ UNCHANGED ix
  /\ UNCHANGED <<moves, uploads, held, rechecks, suppressed, scan, seen, hashing>>

(* The source is hashed into a temporary file; other content ends the call. *)
Stream ==
  /\ At("stream")
  /\ IF Content(call.from) = call.c THEN Goto("commit") ELSE Return
  /\ UNCHANGED <<disk, ix, moves, uploads, held, rechecks, suppressed, scan, seen, hashing, spent>>

(* commit: renamed over whatever is there; a remote target is only staged. *)
Commit ==
  /\ At("commit")
  /\ IF call.to \in Cloud
     THEN call' = [call EXCEPT !.at = "record"] /\ UNCHANGED disk
     ELSE \E ino \in Free :
            /\ disk' = [disk EXCEPT ![call.to] = [c |-> call.c, ino |-> ino]]
            /\ call' = [call EXCEPT !.at = "record", !.ino = ino]
  /\ UNCHANGED <<ix, moves, uploads, held, rechecks, suppressed, scan, seen, hashing, spent>>

(* Displace, then record, in one transaction; a remote target is queued in it,
   and a move to one leaves its pending record. *)
Record ==
  LET remote == call.to \in Cloud
      cleared == Overwritten(ix, Tx)
      current == IF Listed(ix.locs[call.c]) = {} THEN call.locs ELSE ix.locs[call.c]
      back == {k \in Listed(current) : ix.locs[call.c][k] = None}
  IN
  /\ At("record")
  /\ ix' = Put(cleared, Tx, call.c, [current EXCEPT ![call.to] = [ino |-> call.ino, synced |-> ~remote]], None)
  /\ uploads' = IF remote THEN uploads \cup {[c |-> call.c, to |-> call.to]} ELSE uploads
  /\ moves' = IF remote /\ call.kind = "move"
              THEN moves \cup {[c |-> call.c, from |-> call.from, to |-> call.to]} ELSE moves
  /\ IF call.kind = "move" /\ ~remote THEN call' = [call EXCEPT !.at = "verify", !.over = FALSE] ELSE Return
  /\ spent' = Recorded(call.to, back)
  /\ UNCHANGED <<disk, held, rechecks, suppressed, scan, seen, hashing>>

(***************************************************************************)
(* Finishing a move                                                         *)
(***************************************************************************)
(* resumePendingMoves: once the destination is acknowledged. *)
Ready(m) == IF ix.locs[m.c][m.to] = None THEN FALSE ELSE ix.locs[m.c][m.to].synced

Resume(m) ==
  /\ Disturb /\ call = None /\ Ready(m)
  /\ call' = [Ask("resume", "verify", m.c, m.from, m.to) EXCEPT !.ino = ix.locs[m.c][m.to].ino]
  /\ suppressed' = suppressed \cup ({m.from} \cap Home)
  /\ spent' = [spent EXCEPT !.touched = {}]
  /\ UNCHANGED <<disk, ix, moves, uploads, held, rechecks, seen, hashing>>

MutantVerify == At("verify") /\ Goto("source") /\ UNCHANGED <<disk, ix, moves, uploads, held, rechecks, suppressed, scan, seen, hashing, spent>>

MutantGiveUp ==
  /\ At("verify")
  /\ IF Content(call.to) # call.c
     THEN Return /\ moves' = moves \ {[c |-> call.c, from |-> call.from, to |-> call.to]}
     ELSE Goto("source") /\ UNCHANGED moves
  /\ UNCHANGED <<disk, ix, uploads, held, rechecks, suppressed, scan, seen, hashing, spent>>

(* Both ends are hashed again before the source goes, the target first. *)
Verify ==
  /\ At("verify")
  /\ IF Content(call.to) = call.c THEN Goto("source") ELSE Return
  /\ UNCHANGED <<disk, ix, moves, uploads, held, rechecks, suppressed, scan, seen, hashing, spent>>

VerifySource ==
  /\ At("source")
  /\ IF disk[call.from] = Absent THEN Goto("release")
     ELSE IF Content(call.from) = call.c THEN Goto("remove") ELSE Return
  /\ UNCHANGED <<disk, ix, moves, uploads, held, rechecks, suppressed, scan, seen, hashing, spent>>

(* removeObject captures the file; other bytes than those meant are put back
   and indexed again. *)
RemoveSource ==
  LET k == call.from IN
  /\ At("remove")
  /\ IF k \notin Files \/ Owner(ix, k) # call.c THEN Return /\ UNCHANGED <<disk, ix, held, spent>>
     ELSE IF disk[k] = Absent THEN Goto("release") /\ UNCHANGED <<disk, ix, held, spent>>
     ELSE IF disk[k].c = call.c
     THEN disk' = [disk EXCEPT ![k] = Absent] /\ Goto("release") /\ UNCHANGED <<ix, held, spent>>
     ELSE Arrived([kind |-> "add", key |-> k, file |-> disk[k]], {}) /\ Return /\ UNCHANGED disk
  /\ UNCHANGED <<moves, uploads, rechecks, suppressed, scan, seen, hashing>>

(* The index first; what a transaction displaced stays so when the entry is
   gone. The pending record goes in a transaction of its own. *)
Release ==
  LET cleared == Overwritten(ix, Tx) IN
  /\ At("release")
  /\ IF Listed(ix.locs[call.c]) = {} THEN ix' = cleared /\ spent' = Doubt({call.to} \cap Files) /\ Return
     ELSE /\ ix' = Moved(cleared, Tx, call.c, call.from, call.to, There(call.ino))
          /\ spent' = [Recorded(call.to, {}) EXCEPT !.doubt =
                          @ \cup (IF Content(call.from) = call.c THEN {call.from} ELSE {})]
          /\ IF call.kind = "resume" THEN Goto("forget") ELSE Return
  /\ UNCHANGED <<disk, moves, uploads, held, rechecks, suppressed, scan, seen, hashing>>

Forget ==
  /\ At("forget")
  /\ moves' = moves \ {[c |-> call.c, from |-> call.from, to |-> call.to]}
  /\ Return
  /\ UNCHANGED <<disk, ix, uploads, held, rechecks, suppressed, scan, seen, hashing, spent>>

(***************************************************************************)
(* The upload queue, as far as the index sees it: the staged bytes arrive,  *)
(* and are acknowledged with an entry that was read before an await         *)
(***************************************************************************)
Upload(u) ==
  /\ Disturb /\ call = None /\ u \in uploads
  /\ Content(u.to) \in {None, u.c} /\ Listed(ix.locs[u.c]) # {}
  /\ disk' = [disk EXCEPT ![u.to] = [c |-> u.c, ino |-> None]]
  /\ call' = [Ask("ack", "write", u.c, u.to, u.to) EXCEPT !.locs = ix.locs[u.c]]
  /\ UNCHANGED <<ix, moves, uploads, held, rechecks, suppressed, seen, hashing, spent>>

Acknowledge ==
  LET lost == {k \in Locs : ix.locs[call.c][k] # call.locs[k]} IN
  /\ At("write")
  /\ ix' = Put(ix, Tx, call.c, [call.locs EXCEPT ![call.to] = There(None)], None)
  /\ uploads' = uploads \ {[c |-> call.c, to |-> call.to]}
  /\ spent' = [Recorded(call.to, {}) EXCEPT !.doubt = @ \cup lost, !.twice = @ \cup lost]
  /\ Return
  /\ UNCHANGED <<disk, moves, held, rechecks, suppressed, scan, seen, hashing>>

(***************************************************************************)
(* A scan of the watched backend, outside the mutation queue: walk, hash,   *)
(* index row by row, then drop what the walk did not find                   *)
(***************************************************************************)
Resting ==
  /\ call = None /\ held = {} /\ rechecks = {} /\ hashing = {} /\ scan = None
  /\ \A k \in Home : seen[k] = disk[k]

StartScan ==
  /\ scan = None /\ spent.events < MaxEvents /\ Able(1)
  /\ scan' = [todo |-> Home, row |-> None, present |-> {}, calm |-> Resting]
  /\ spent' = [spent EXCEPT !.events = @ + 1]
  /\ UNCHANGED <<disk, ix, moves, uploads, call, held, rechecks, suppressed, seen, hashing>>

ScanRead(k) ==
  /\ Scanning /\ scan.row = None /\ k \in scan.todo
  /\ scan' = [scan EXCEPT !.todo = @ \ {k},
                !.present = IF disk[k] = Absent THEN @ ELSE @ \cup {k},
                !.row = IF disk[k] = Absent THEN None ELSE [key |-> k, file |-> disk[k]]]
  /\ UNCHANGED <<disk, ix, moves, uploads, call, held, rechecks, suppressed, seen, hashing, spent>>

ScanIngest ==
  /\ Scanning /\ scan.row # None
  /\ ix' = Succeeded(ix, Tx, scan.row.key, scan.row.file)
  /\ scan' = [scan EXCEPT !.row = None]
  /\ spent' = Doubt(IF disk[scan.row.key] = scan.row.file THEN {} ELSE {scan.row.key})
  /\ UNCHANGED <<disk, moves, uploads, call, held, rechecks, suppressed, seen, hashing>>

(* removeMissingLocations: each entry that lists a missing key is put without
   it, or deleted with its last one, in a transaction of its own. *)
Pruned(index, missing) ==
  LET Lists(c, k) == index.locs[c][k] # None
      changed == {c \in Contents : \E k \in missing : Lists(c, k)}
      claims(k) == {c \in changed : Lists(c, k)}
      gone == SetToSeq({e \in {Gone(k, c) : k \in missing, c \in changed} : Lists(e.c, e.key)})
  IN [index EXCEPT
        !.locs = [c \in Contents |-> [k \in Locs |-> IF k \in missing THEN None ELSE @[c][k]]],
        !.owner = [k \in Locs |-> IF claims(k) = {} THEN @[k]
                                  ELSE IF k \in missing THEN None ELSE CHOOSE c \in claims(k) : TRUE],
        !.log = @ \o gone]

EndScan ==
  LET missing == Home \ scan.present IN
  /\ Scanning /\ scan.row = None /\ scan.todo = {}
  /\ ix' = Pruned(ix, missing)
  /\ spent' = IF scan.calm THEN [spent EXCEPT !.doubt = @ \ Home]
              ELSE Doubt({k \in missing : disk[k] # Absent})
  /\ scan' = None
  /\ UNCHANGED <<disk, moves, uploads, call, held, rechecks, suppressed, seen, hashing>>

(***************************************************************************)
(* The environment                                                          *)
(***************************************************************************)
Disturbance ==
  /\ spent.events < MaxEvents /\ Able(1) /\ Disturb
  /\ UNCHANGED <<ix, moves, uploads, call, held, rechecks, suppressed, seen, hashing>>

(* Other programs act; the watcher, which compares what it sees, is blind to
   a change that undoes one it had not seen yet. *)
Touched(keys) ==
  spent' = [spent EXCEPT !.events = @ + 1, !.touched = @ \cup keys,
              !.doubt = @ \cup {k \in keys \cap Home : disk'[k] = seen[k] /\ disk[k] # seen[k]}]

(* Another program saves a file in place, creates, deletes or renames one. *)
Save(k, c) ==
  /\ Disturbance /\ Content(k) # c
  /\ \E ino \in IF disk[k] = Absent THEN Free ELSE {disk[k].ino} :
       disk' = [disk EXCEPT ![k] = [c |-> c, ino |-> ino]]
  /\ Touched({k})

Erase(k) ==
  /\ Disturbance /\ disk[k] # Absent
  /\ disk' = [disk EXCEPT ![k] = Absent]
  /\ Touched({k})

MoveFile(k, m) ==
  /\ Disturbance /\ k # m /\ disk[k] # Absent
  /\ disk' = [disk EXCEPT ![m] = disk[k], ![k] = Absent]
  /\ Touched({k, m})

Trim(floor) ==
  /\ spent.events < MaxEvents /\ Able(1) /\ spent' = [spent EXCEPT !.events = @ + 1]
  /\ floor \in ix.floor + 1 .. LogHead(ix) + 1
  /\ ix' = Trimmed(ix, floor)
  /\ UNCHANGED <<disk, moves, uploads, memory>>

(* The process stops; the watcher starts again from what it finds. *)
Crash ==
  /\ spent.events < MaxEvents /\ Able(1)
  /\ spent' = [spent EXCEPT !.events = @ + 1, !.doubt = @ \cup {k \in Files : Owner(ix, k) # Content(k)}]
  /\ call' = None /\ held' = {} /\ rechecks' = {} /\ suppressed' = {} /\ scan' = None /\ hashing' = {}
  /\ seen' = [k \in Home |-> disk[k]]
  /\ UNCHANGED <<disk, ix, moves, uploads>>

Calls ==
  \/ \E kind \in {"copy", "move"}, c \in Contents, from \in Locs, to \in Locs : Transfer(kind, c, from, to)
  \/ \E c \in Contents, to \in Files : PutObject(c, to)
  \/ \E m \in moves : Resume(m)
  \/ \E u \in uploads : Upload(u)

Step == Rename \/ Stream \/ Commit \/ Record \/ Verify \/ VerifySource \/ RemoveSource \/ Release \/ Forget \/ Acknowledge

Watching ==
  \/ \E k \in Home : NoticeGone(k) \/ Notice(k) \/ HoldExpires(k) \/ Recheck(k) \/ Confirm(k)
  \/ \E e \in hashing : Deliver(e)
  \/ \E h \in held : WindowCloses(h)

Scans == StartScan \/ ScanIngest \/ EndScan \/ \E k \in Home : ScanRead(k)

Environment ==
  \/ \E k \in Cloud : Erase(k)
  \/ \E k \in Home : Erase(k) \/ (\E c \in Contents : Save(k, c)) \/ \E m \in Home : MoveFile(k, m)
  \/ \E floor \in 1 .. LogHead(ix) + 1 : Trim(floor)
  \/ Crash

Next == Calls \/ Step \/ Watching \/ Scans \/ Environment

Spec == Init /\ [][Next]_vars

(***************************************************************************)
(* Properties                                                               *)
(***************************************************************************)

(* The state keeps its type. *)
TypeOK ==
  /\ disk \in [Locs -> File \cup {Absent}] /\ ix \in IndexType
  /\ moves \subseteq Pending /\ uploads \subseteq [c: Contents, to: Cloud]
  /\ call \in Call \cup {None} /\ held \subseteq Held /\ rechecks \subseteq Check /\ suppressed \subseteq Home
  /\ scan \in Scan \cup {None} /\ seen \in [Home -> File \cup {Absent}] /\ hashing \subseteq Event
  /\ spent \in History

(* The change log explains the index to every reader: whoever knew the owners
   at position s and is not told that s is too old ends up, with the entries
   it is given, at the owners of now. *)
Known(s) == Replay(ix, Indexed.owner, 1..s)

LogExplains ==
  \A s \in 0 .. LogHead(ix) : ~TooOld(ix, s) =>
    \A k \in Locs \ spent.twice : Replay(ix, Known(s), Changes(ix, s))[k] = ix.owner[k]

(* A path row and the entries agree on who owns a key. *)
OneOwner ==
  \A k \in Locs \ spent.twice, c \in Contents : (ix.locs[c][k] # None) <=> (ix.owner[k] = c)

(* Once nothing is under way any more, the index says of every file key what
   is on the disk, however the echoes of Stored's own writes, the changes of
   other programs, held deletions, renames and scans were mixed. *)
QuietAgrees ==
  Resting => \A k \in Files \ (spent.doubt \cup spent.twice) : ix.owner[k] = Content(k)

(* "the source is never released before" its destination: when a move takes
   its source away, the destination has the bytes, or somebody else changed it
   since the move began. *)
SourceLast ==
  [][At("remove") /\ disk' # disk => Content(call.to) = call.c \/ call.to \in spent.touched]_vars

(* A pending move is forgotten only when its source is gone, or somebody
   changed it since, and the destination is in the index. *)
MovesKept ==
  [][\A m \in moves \ moves' :
       /\ Content(m.from) # m.c \/ m.from \in spent.touched
       /\ ix'.locs[m.c][m.to] # None]_vars
=============================================================================
