------------------------------ MODULE ContentIndex ------------------------------
(***************************************************************************)
(* The content index (index/index.js) as a value: for every content the     *)
(* locations its entry lists, the path rows that say which entry owns a     *)
(* location, and the change log. Put and Delete are what one call does      *)
(* inside a transaction that began at log position tx; a transaction is     *)
(* their composition, and every module that uses the index takes it in one  *)
(* step, as LMDB does.                                                      *)
(***************************************************************************)
EXTENDS Naturals, Sequences, FiniteSets, SequencesExt

CONSTANTS Locs, Contents, Inodes, None

(* What an entry knows of a location: the inode, if it has one, and whether a
   remote destination has acknowledged it. *)
Location == [ino: Inodes \cup {None}, synced: BOOLEAN]
Locations == [Locs -> Location \cup {None}]
Entry == [op: {"put", "delete", "rename"}, key: Locs, c: Contents, from: Locs \cup {None}]
IndexType == [locs: [Contents -> Locations], owner: [Locs -> Contents \cup {None}],
              log: Seq(Entry), floor: Nat]

Nowhere == [k \in Locs |-> None]
Listed(locations) == {k \in Locs : locations[k] # None}

LogHead(ix) == Len(ix.log)

(* index.get(path): the entry the path row points at, if that entry exists. *)
Owner(ix, k) ==
  IF ix.owner[k] = None THEN None
  ELSE IF Listed(ix.locs[ix.owner[k]]) = {} THEN None ELSE ix.owner[k]

(* A rename survives a later put of its key in the same transaction. *)
Merged(prior, entry) ==
  IF prior.op = "rename" /\ entry.op = "put"
  THEN [entry EXCEPT !.op = "rename", !.from = prior.from] ELSE entry

(* #append for one new entry per key of news, in a transaction that began at
   tx: at the place of the key's entry in this transaction, else at the end. *)
Coalesced(log, tx, news) ==
  LET Pending(s) == s > tx /\ log[s].key \in DOMAIN news
      fresh == SetToSeq({k \in DOMAIN news : \A s \in tx + 1 .. Len(log) : log[s].key # k})
  IN [s \in 1 .. Len(log) |-> IF Pending(s) THEN Merged(log[s], news[log[s].key]) ELSE log[s]]
     \o [i \in 1 .. Len(fresh) |-> news[fresh[i]]]

MutantGone(k, c) == [op |-> "unlink", key |-> k, c |-> c, from |-> None]

Gone(k, c) == [op |-> "delete", key |-> k, c |-> c, from |-> None]

(* #logLocationDiff: rename is None or [from, to] and folds that pair. *)
LogDiff(ix, tx, c, removed, added, rename) ==
  LET paired == IF rename = None THEN FALSE ELSE rename.from \in removed /\ rename.to \in added
      gone == [k \in IF paired THEN removed \ {rename.from} ELSE removed |-> Gone(k, c)]
      here == [k \in added |->
                 IF paired /\ k = rename.to
                 THEN [op |-> "rename", key |-> k, c |-> c, from |-> rename.from]
                 ELSE [op |-> "put", key |-> k, c |-> c, from |-> None]]
  IN [ix EXCEPT !.log = Coalesced(Coalesced(@, tx, gone), tx, here)]

MutantPut(ix, tx, c, locations, rename) ==
  LET before == Listed(ix.locs[c])
      after == Listed(locations)
      rows == [k \in Locs |-> IF k \in after THEN c ELSE ix.owner[k]]
  IN LogDiff([ix EXCEPT !.locs[c] = locations, !.owner = rows], tx, c, before \ after, after \ before, rename)

Put(ix, tx, c, locations, rename) ==
  LET before == Listed(ix.locs[c])
      after == Listed(locations)
      rows == [k \in Locs |-> IF k \in after THEN c ELSE IF k \in before THEN None ELSE ix.owner[k]]
  IN LogDiff([ix EXCEPT !.locs[c] = locations, !.owner = rows], tx, c, before \ after, after \ before, rename)

Delete(ix, tx, c) ==
  LET before == Listed(ix.locs[c])
      rows == [k \in Locs |-> IF k \in before THEN None ELSE ix.owner[k]]
  IN LogDiff([ix EXCEPT !.locs[c] = Nowhere, !.owner = rows], tx, c, before, {}, None)

(* The idiom of every caller: take a location away from an entry, and the
   entry with its last one. *)
Without(ix, tx, c, k) ==
  LET rest == [ix.locs[c] EXCEPT ![k] = None] IN
  IF Listed(rest) = {} THEN Delete(ix, tx, c) ELSE Put(ix, tx, c, rest, None)

With(ix, tx, c, k, location) == Put(ix, tx, c, [ix.locs[c] EXCEPT ![k] = location], None)

(***************************************************************************)
(* Reading the log                                                          *)
(***************************************************************************)
MutantTooOld(ix, since) == since + 1 < ix.floor /\ since # 0

(* floor is the oldest entry that is retained, or head + 1. *)
TooOld(ix, since) == since + 1 < ix.floor

Changes(ix, since) == {s \in since + 1 .. LogHead(ix) : s >= ix.floor}

(* trimChanges: any number of the oldest entries, by count or by age. *)
Trimmed(ix, floor) == [ix EXCEPT !.floor = floor]

(* What a reader that knew `view` makes of the entries in `seqs`. *)
Replay(ix, view, seqs) ==
  [k \in Locs |->
     LET about == {s \in seqs : ix.log[s].key = k \/ ix.log[s].from = k} IN
     IF about = {} THEN view[k]
     ELSE LET last == ix.log[Max(about)] IN
          IF last.key = k /\ last.op # "delete" THEN last.c ELSE None]
=============================================================================
