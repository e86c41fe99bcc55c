------------------------------- MODULE Mirror -------------------------------
(* The device mirror (src/src/sync/Mirror.js) for one key: a local file and  *)
(* the hub object of the same name, kept equal by way of Stored's index (the *)
(* view of both sides), the ledger's base and the durable job queue.         *)
(*                                                                           *)
(* The module composes what the decision table depends on: the canvas        *)
(* driver's change-feed poller and its row map                               *)
(* (src/src/backends/canvas/index.js), the handling of the events it emits   *)
(* and the copy, move and remove calls of Stored (src/src/index.js), the     *)
(* base ledger, and the queue, abstracted here to the set of waiting jobs of *)
(* the key (module JobQueue has it in full).                                 *)
(*                                                                           *)
(* JavaScript runs a handler up to its next await: each action is one such   *)
(* segment, and what a job read before an await travels in its record.  The  *)
(* feed is kept relative to the two cursors: unsaved is what the driver has  *)
(* read and the ledger's cursor has not passed, feed what it has not read.   *)
(* The Mutant operators are defects that the properties are shown to catch.  *)
EXTENDS Naturals, Sequences, FiniteSets

CONSTANTS
    Contents,   \* file contents, named by their digest
    Absent,     \* no such file, no such row
    NoRun,      \* no job of the key in flight
    Direction,  \* "bi", "pull" or "push"
    Deletes,    \* "propagate" or "keep"
    Faults,     \* what may happen besides: "crash", "stop", "offline",
                \* "offline start", "lost"
    MaxUser,    \* bound: what the device's user does to the file
    MaxForeign, \* bound: what other devices do to the hub object
    MaxFaults   \* bound: faults

ASSUME DirectionAssumption == Direction \in {"bi", "pull", "push"}
ASSUME DeletesAssumption == Deletes \in {"propagate", "keep"}
ASSUME AbsentAssumption == Absent \notin Contents
ASSUME BoundsAssumption == {MaxUser, MaxForeign, MaxFaults} \subseteq Nat

File == Contents \cup {Absent}
Kinds == {"push", "pull", "delete-remote", "trash-local", "conflict", "revert"}
Job == [kind : Kinds, want : File]
\* "send", "read", "remove" and "move" are a call of Stored that waits for the
\* mutation queue.
Steps == {"first", "head", "send", "plan", "put", "commit", "redecide", "fresh", "read",
          "fetch", "gone", "place", "remove", "delete", "deleted", "move", "trash", "keep",
          "upload"}
\* A job in flight: the local version and the base it read when it started, the
\* hub version it acts on, the content its copy was planned for, and whether
\* the index listed that content at the copy's target too.
Run == [kind : Kinds, want : File, step : Steps,
        L : File, B : File, R : File, src : File, ours : BOOLEAN]
ASSUME NoRunAssumption == NoRun \notin Run
Entry == [content : File, own : BOOLEAN]

VARIABLES
    disk,       \* the local file
    kept,       \* what was set aside: conflicts and trash backends
    report,     \* the watcher has yet to report what the user did
    hub,        \* the hub object
    feed,       \* the hub's change feed beyond the driver's cursor
    unsaved,    \* the feed between the ledger's cursor and the driver's
    cursor,     \* the ledger's cursor: "none", "listed" (not yet written), "saved"
    row,        \* the driver's row map
    held,       \* hub unlinks held back for a rename, by the content they name
    idxL,       \* the index: what the local location holds
    idxR,       \* the index: what the hub location holds
    base,       \* the ledger
    dirty,      \* the key waits for a reconcile pass
    queue,      \* waiting jobs
    run,        \* the job in flight
    phase,      \* "down", "starting", "online" or "offline"
    polling,    \* the driver's poll timer runs
    agreed,     \* history: what the base ever held
    voided,     \* history: since the last pass over the key a job dropped the base
                \* that a waiting delete-remote needs
    quiet,      \* history: the user left the file alone since the job in flight
                \* was taken, and the watcher had reported all before
    user, foreign, faults   \* what was spent of the bounds

local == <<disk, kept>>
remote == <<hub, feed>>
position == <<unsaved, cursor>>
view == <<row, held>>
index == <<idxL, idxR>>
ledger == <<base, agreed, voided>>
watch == <<report, quiet>>
spent == <<user, foreign, faults>>
engine == <<dirty, queue, run>>
vars == <<local, remote, position, view, index, ledger, watch, engine, phase, polling, spent>>

TypeOK ==
    /\ {disk, hub, row, idxL, idxR, base} \subseteq File
    /\ {kept, held, agreed} \subseteq SUBSET Contents
    /\ feed \in Seq(Entry) /\ unsaved \in Seq(Entry)
    /\ cursor \in {"none", "listed", "saved"}
    /\ {report, quiet, dirty, polling, voided} \subseteq BOOLEAN
    /\ queue \in SUBSET Job
    /\ run \in Run \cup {NoRun}
    /\ phase \in {"down", "starting", "online", "offline"}
    /\ user \in 0 .. MaxUser /\ foreign \in 0 .. MaxForeign /\ faults \in 0 .. MaxFaults

\* Two folders that were never mirrored, or a mirror in agreement.
Init ==
    /\ disk \in File /\ hub \in File
    /\ \/ idxL = Absent /\ idxR = Absent /\ base = Absent /\ cursor = "none"
       \/ idxL = hub /\ idxR = hub /\ base = hub /\ disk = hub /\ cursor = "saved"
    /\ feed = <<>> /\ unsaved = <<>>
    /\ row = Absent /\ held = {} /\ kept = {} /\ queue = {}
    /\ agreed = {base} \ {Absent} /\ voided = FALSE
    /\ dirty = FALSE /\ report = FALSE /\ quiet = TRUE
    /\ run = NoRun /\ phase = "down" /\ polling = FALSE
    /\ user = 0 /\ foreign = 0 /\ faults = 0

-----------------------------------------------------------------------------
(* The device's user, the other devices, the watcher                         *)

UserWrites(c) ==
    /\ user < MaxUser /\ user' = user + 1
    /\ c # disk /\ disk' = c
    /\ report' = (phase # "down")
    /\ quiet' = FALSE
    /\ UNCHANGED <<kept, remote, position, view, index, ledger, engine, phase, polling,
                   foreign, faults>>

\* An accepted write of the hub is a row of its feed.
Log(c, own) == feed' = Append(feed, [content |-> c, own |-> own])

ForeignWrites(c) ==
    /\ foreign < MaxForeign /\ foreign' = foreign + 1
    /\ c # hub /\ hub' = c
    /\ Log(c, FALSE)
    /\ UNCHANGED <<local, position, view, index, ledger, watch, engine, phase, polling,
                   user, faults>>

\* The file watcher's event, once the file is stable: Stored indexes it and
\* tells the mirror.
Watch ==
    /\ report /\ report' = FALSE
    /\ idxL' = disk
    /\ dirty' = TRUE
    /\ UNCHANGED <<local, remote, position, view, idxR, ledger, quiet, queue, run, phase,
                   polling, spent>>

-----------------------------------------------------------------------------
(* The view of the hub                                                       *)

\* One feed entry applied to the row map, the index and the held unlinks.  An
\* entry of this device only reaches the row map.  A delete of an indexed
\* object is held back, a second one of the same content releases the first.  A
\* put the row map already shows is not reported.
Applied(v, e) ==
    CASE e.own ->
           [v EXCEPT !.row = e.content]
      [] ~e.own /\ e.content = Absent /\ v.idx \in Contents \ v.held ->
           [v EXCEPT !.row = Absent, !.held = @ \cup {v.idx}]
      [] ~e.own /\ e.content = Absent /\ v.idx \notin Contents \ v.held ->
           [v EXCEPT !.row = Absent, !.idx = Absent, !.news = TRUE]
      [] ~e.own /\ e.content # Absent /\ v.row = e.content ->
           v
      [] ~e.own /\ e.content # Absent /\ v.row # e.content ->
           [v EXCEPT !.row = e.content, !.idx = e.content, !.news = TRUE,
                     !.held = IF v.row = Absent /\ v.idx \in {Absent, e.content}
                              THEN @ \ {e.content} ELSE @]

NotPolled == [row |-> row, idx |-> idxR, held |-> held, news |-> FALSE, read |-> 0]
\* The view after the whole feed, entry by entry.
Polled ==
    LET after[n \in 0 .. Len(feed)] ==
          IF n = 0 THEN [NotPolled EXCEPT !.read = Len(feed)]
          ELSE Applied(after[n - 1], feed[n])
    IN  after[Len(feed)]

\* The answer of one poll: v is what the driver and the index show after it.
Show(v) ==
    /\ row' = v.row /\ idxR' = v.idx /\ held' = v.held
    /\ feed' = SubSeq(feed, v.read + 1, Len(feed))
    /\ unsaved' = unsaved \o SubSeq(feed, 1, v.read)

\* A held unlink no add claimed: the location goes, whatever it holds now.
Expire(c) ==
    /\ c \in held /\ held' = held \ {c}
    /\ idxR' = Absent
    /\ dirty' = TRUE
    /\ UNCHANGED <<local, remote, position, row, idxL, ledger, watch, queue, run, phase,
                   polling, spent>>

\* The poll timer, or a host that nudges.
Poll ==
    /\ phase = "online" /\ feed # <<>>
    /\ Show(Polled)
    /\ dirty' = (dirty \/ Polled.news)
    /\ UNCHANGED <<local, hub, cursor, idxL, ledger, watch, queue, run, phase, polling, spent>>

\* A full listing of the hub, its head the new feed position.
List ==
    /\ row' = hub /\ idxR' = hub
    /\ feed' = <<>> /\ unsaved' = IF cursor = "saved" THEN unsaved \o feed ELSE <<>>
    /\ cursor' = IF cursor = "none" THEN "listed" ELSE cursor
    /\ UNCHANGED held

-----------------------------------------------------------------------------
(* The decision                                                              *)

Decide(L, B, R) ==
    CASE L = B /\ R = B                -> "nothing"
      [] L # B /\ R = B /\ L # Absent  -> "push"
      [] L # B /\ R = B /\ L = Absent  -> "delete-remote"
      [] L = B /\ R # B /\ R # Absent  -> "pull"
      [] L = B /\ R # B /\ R = Absent  -> "trash-local"
      [] L # B /\ R # B /\ L = R       -> "adopt"
      [] L # B /\ R # B /\ L # R /\ L = Absent -> "pull"
      [] L # B /\ R # B /\ L # R /\ R = Absent -> "push"
      [] L # B /\ R # B /\ L # R /\ L # Absent /\ R # Absent -> "conflict"

MutantDirected(d, R) ==
    CASE Direction = "pull" /\ d = "conflict" -> "revert"
      [] Direction = "push" /\ d \in {"pull", "conflict"} -> "skip"
      [] OTHER -> d

\* The decision narrowed to the mirror's direction.
Directed(d, R) ==
    CASE Direction = "pull" /\ d = "push"          -> IF R # Absent THEN "revert" ELSE "skip"
      [] Direction = "pull" /\ d = "delete-remote" -> IF R # Absent THEN "pull" ELSE "nothing"
      [] Direction = "pull" /\ d = "conflict"      -> "revert"
      [] Direction = "push" /\ d \in {"pull", "conflict"} -> "skip"
      [] Direction = "push" /\ d = "trash-local"   -> "nothing"
      [] OTHER -> d

\* The ledger's row of the key becomes b.
SetBase(b) == base' = b /\ agreed' = agreed \cup ({b} \ {Absent})

\* A new decision cancels the waiting jobs of other kinds and replaces the newest
\* of its own; one that a failure put back earlier may stay beside it.
Enqueue(waiting, kind, want) ==
    \E older \in SUBSET {j \in waiting : j.kind = kind} :
        queue' = older \cup {[kind |-> kind, want |-> want]}

\* The pass for the key, waiting its waiting jobs, R the index's view of the hub.
ReconcileKey(waiting, R) ==
    LET d == Directed(Decide(idxL, base, R), R)
        keep == d = "delete-remote" /\ Deletes = "keep"
    IN  /\ CASE d = "nothing" \/ keep         -> queue' = waiting
             [] d \in {"skip", "adopt"}       -> queue' = {}
             [] d \in {"pull", "revert"}      -> Enqueue(waiting, d, R)
             [] d \in Kinds \ {"pull", "revert"} /\ ~keep -> Enqueue(waiting, d, Absent)
        /\ CASE d = "adopt"                   -> SetBase(idxL)
             [] keep \/ (d = "push" /\ R # base) -> SetBase(Absent)
             [] OTHER                         -> UNCHANGED <<base, agreed>>
        /\ voided' = FALSE

\* A reconcile pass, and the feed position with it.
Reconcile ==
    /\ phase \in {"online", "offline"}
    /\ dirty \/ unsaved # <<>> \/ cursor = "listed"
    /\ IF dirty THEN ReconcileKey(queue, idxR) ELSE UNCHANGED <<queue, ledger>>
    /\ dirty' = FALSE
    /\ unsaved' = <<>>
    /\ cursor' = IF cursor = "listed" THEN "saved" ELSE cursor
    /\ UNCHANGED <<local, remote, view, index, watch, run, phase, polling, spent>>

-----------------------------------------------------------------------------
(* Lifecycle                                                                 *)

\* start(): the local scan.
Start ==
    /\ phase = "down" /\ phase' = "starting"
    /\ idxL' = disk
    /\ UNCHANGED <<local, remote, position, view, idxR, ledger, watch, engine, polling, spent>>

\* Poll from the ledger's cursor, or list when there is none.
CatchUp ==
    IF cursor = "none" THEN List ELSE Show(Polled) /\ UNCHANGED cursor

\* ... catch up, reconcile every key, start the poll timer.
Started ==
    /\ phase = "starting" /\ phase' = "online"
    /\ CatchUp
    /\ dirty' = TRUE
    /\ polling' = TRUE
    /\ UNCHANGED <<local, hub, idxL, ledger, watch, queue, run, spent>>

\* The hub cannot be reached: by a poll, or at start.
Fault(f) == f \in Faults /\ faults < MaxFaults /\ faults' = faults + 1
GoOffline ==
    /\ phase' = "offline"
    /\ \/ phase = "online" /\ Fault("offline")
       \/ phase = "starting" /\ Fault("offline start")
    /\ UNCHANGED <<local, remote, position, view, index, ledger, watch, engine, polling, user, foreign>>

\* Back online: catch up with the feed.
TryOnline ==
    /\ phase = "offline" /\ phase' = "online"
    /\ CatchUp
    /\ dirty' = (dirty \/ (cursor # "none" /\ Polled.news))
    /\ UNCHANGED <<local, hub, idxL, ledger, watch, queue, run, polling, spent>>

\* Every few hours: the local folder rescanned, every key reconciled.
FullReconcile ==
    /\ phase = "online"
    /\ idxL' = disk
    /\ dirty' = TRUE
    /\ UNCHANGED <<local, remote, position, view, idxR, ledger, watch, queue, run, phase,
                   polling, spent>>

\* Asked for by the host: the local scan, the hub's listing, every key.
Resync ==
    /\ phase \in {"online", "offline"} /\ phase' = "online"
    /\ idxL' = disk
    /\ List
    /\ dirty' = TRUE
    /\ UNCHANGED <<local, hub, ledger, watch, queue, run, polling, spent>>

\* A waiting job is what a job in flight becomes when it is given back.
MutantWaitingRun(r) == IF r = NoRun THEN {} ELSE {r}
MutantWaitingLost(r) == {}
Waiting(r) == IF r = NoRun THEN {} ELSE {[kind |-> r.kind, want |-> r.want]}

\* What a new process starts with: the feed from the ledger's cursor, the
\* running job waiting again, no row map, no timer, no held unlink.
Down ==
    /\ phase' = "down" /\ polling' = FALSE
    /\ run' = NoRun /\ queue' = queue \cup Waiting(run)
    /\ dirty' = FALSE /\ report' = FALSE
    /\ row' = Absent /\ held' = {}
    /\ feed' = unsaved \o feed /\ unsaved' = <<>>
    /\ cursor' = IF cursor = "listed" THEN "none" ELSE cursor

Crash ==
    /\ phase # "down"
    /\ Fault("crash")
    /\ Down
    /\ UNCHANGED <<local, hub, index, ledger, quiet, user, foreign>>

\* stop() of the mirror and of Stored: the job in flight ends first, held
\* unlinks are processed.
Stop ==
    /\ phase \in {"online", "offline"} /\ run = NoRun
    /\ Fault("stop")
    /\ Down
    /\ idxR' = IF held = {} THEN idxR ELSE Absent
    /\ UNCHANGED <<local, hub, idxL, ledger, quiet, user, foreign>>

-----------------------------------------------------------------------------
(* How a segment of a job ends.  r is the job in flight, q the waiting jobs.  *)

\* Go on with r at a later await.
Go(r, step, q) ==
    /\ run' = [r EXCEPT !.step = step] /\ queue' = q
    /\ UNCHANGED <<ledger, dirty>>

\* Over, the ledger as it was.
Over(q) == run' = NoRun /\ queue' = q /\ UNCHANGED <<ledger, dirty>>
\* Over, the base written.
Agree(b, q) == run' = NoRun /\ queue' = q /\ SetBase(b) /\ UNCHANGED voided
\* Over, the base dropped, which a delete-remote that waits then does not find.
Forget(q) ==
    /\ run' = NoRun /\ queue' = q /\ SetBase(Absent)
    /\ voided' = (voided \/ (base # Absent /\ \E j \in q : j.kind = "delete-remote"))
\* Over, the key to be looked at again.
Again(q) == run' = NoRun /\ queue' = q /\ dirty' = TRUE /\ UNCHANGED ledger
\* Over, the key decided again on the view v.
Decided(v, q) == run' = NoRun /\ ReconcileKey(q, v.idx) /\ dirty' = (dirty \/ v.news)
\* Failed: back to the queue until its backoff elapsed.
Failed == Over(queue \cup Waiting(run))
\* Refused by the hub: parked for good.
Parked == Over(queue)

Outside == <<report, quiet, phase, polling, spent>>
At(step) == run # NoRun /\ run.step = step
AtKind(step, kinds) == At(step) /\ run.kind \in kinds

-----------------------------------------------------------------------------
(* push                                                                      *)

\* Brand new on both sides: no HEAD.
PushFirst(r, q) ==
    CASE r.L = Absent                                    -> Again(q)
      [] r.L # Absent /\ base = Absent /\ idxR = Absent    -> Go(r, "send", q)
      [] r.L # Absent /\ ~(base = Absent /\ idxR = Absent) -> Go(r, "head", q)

\* HEAD: the hub still has what the base says, or the table decides again.
PushHead ==
    /\ AtKind("head", {"push"})
    /\ row' = hub
    /\ IF hub # run.B THEN Go([run EXCEPT !.R = hub], "redecide", queue)
       ELSE Go(run, "send", queue)
    /\ UNCHANGED <<local, remote, position, held, index, Outside>>

\* copy() to the hub has its turn: it is planned from what the index lists for
\* the file by now.
PushSend ==
    /\ At("send")
    /\ IF idxL = Absent THEN Again(queue)
       ELSE Go([run EXCEPT !.src = idxL, !.ours = (idxL = idxR)], "plan", queue)
    /\ UNCHANGED <<local, remote, position, view, index, Outside>>

\* The copy's own HEAD: content listed at its target, and something there,
\* leaves nothing to send.
PushPlan ==
    /\ At("plan")
    /\ row' = hub
    /\ IF run.ours /\ hub # Absent THEN Agree(run.L, queue) /\ UNCHANGED dirty
       ELSE Go(run, "put", queue)
    /\ UNCHANGED <<local, remote, position, held, index, Outside>>

\* If-Match: the base, or If-None-Match: *, as the hub checks it.
MutantPrecondition == TRUE
MutantPreconditionNew == hub = Absent
Precondition == hub = run.B

\* The hub takes c from this device; content it has already is no change.
HubTakes(c) ==
    /\ hub' = c
    /\ IF c = hub THEN UNCHANGED feed ELSE Log(c, TRUE)

PushPut ==
    /\ At("put") /\ disk = run.src
    /\ IF Precondition
       THEN HubTakes(run.src) /\ row' = run.src /\ Go(run, "commit", queue)
       ELSE Go([run EXCEPT !.R = hub], "redecide", queue) /\ UNCHANGED <<remote, row>>
    /\ UNCHANGED <<local, position, held, index, Outside>>

\* The file is not what the index said: the hub refuses the digest, or, the
\* length differing, the request breaks off; without a file there is no source.
PutChanged ==
    /\ At("put") /\ disk # run.src
    /\ \/ disk = Absent /\ Failed /\ UNCHANGED phase
       \/ disk # Absent /\ Parked /\ UNCHANGED phase
       \/ disk # Absent /\ Failed /\ phase' = "offline"
    /\ UNCHANGED <<local, remote, position, view, index, watch, polling, spent>>

\* The hub's answer: the location is recorded, then the base.
PushCommit ==
    /\ At("commit")
    /\ idxR' = run.src
    /\ Agree(run.L, queue) /\ dirty' = TRUE
    /\ UNCHANGED <<local, remote, position, view, idxL, Outside>>

\* The table run again on the hub version a HEAD or a 412 reported; a view that
\* shows another one is polled first.
Redecide ==
    LET v == IF idxR = run.R THEN NotPolled ELSE Polled
        d == Decide(idxL, base, run.R)
    IN  /\ At("redecide")
        /\ Show(v)
        /\ IF d \in {"adopt", "push", "delete-remote"} THEN Decided(v, queue)
           ELSE /\ run' = NoRun
                /\ IF d = "nothing" THEN UNCHANGED queue
                   ELSE Enqueue(queue, d, IF d = "pull" THEN run.R ELSE Absent)
                /\ dirty' = (dirty \/ v.news)
                /\ UNCHANGED ledger
        /\ UNCHANGED <<local, hub, cursor, idxL, Outside>>

-----------------------------------------------------------------------------
(* pull                                                                      *)

\* A local file that differs from the base is for the table, a local delete
\* still pulls.
MutantLocalEdit == FALSE
LocalEdit == idxL \notin {Absent, base}

PullCheck(r, v, q) ==
    CASE v.idx = Absent -> Again(q)
      [] v.idx # Absent /\ (idxL = v.idx \/ LocalEdit) -> Decided(v, q)
      [] v.idx # Absent /\ idxL # v.idx /\ ~LocalEdit ->
            /\ run' = [r EXCEPT !.step = "read", !.R = v.idx]
            /\ queue' = q
            /\ dirty' = (dirty \/ v.news)
            /\ UNCHANGED ledger

PullFirst(r, q) ==
    IF idxR = r.want THEN PullCheck(r, NotPolled, q) ELSE Go(r, "fresh", q)

PullFresh ==
    /\ AtKind("fresh", {"pull"})
    /\ Show(Polled)
    /\ PullCheck(run, Polled, queue)
    /\ UNCHANGED <<local, hub, cursor, idxL, Outside>>

\* copy() from the hub has its turn: it is planned from what the index lists for
\* the hub's object by now.
FetchPlan ==
    /\ At("read")
    /\ CASE idxR # Absent -> Go([run EXCEPT !.src = idxR, !.ours = (idxL = idxR)], "fetch", queue)
         [] idxR = Absent /\ run.kind = "pull" -> Go(run, "gone", queue)
         [] idxR = Absent /\ run.kind # "pull" -> Failed
    /\ UNCHANGED <<local, remote, position, view, index, Outside>>

\* The copy from the hub: bytes that do not hash to the content it was planned
\* for are refused.
Fetch ==
    /\ At("fetch")
    /\ IF run.ours /\ disk # Absent THEN Agree(run.R, queue) /\ UNCHANGED <<row, dirty>>
       ELSE /\ row' = IF hub = Absent THEN row ELSE hub
            /\ CASE hub = Absent /\ run.kind = "pull" -> Go(run, "gone", queue)
                 [] hub # run.src /\ ~(hub = Absent /\ run.kind = "pull") -> Failed
                 [] hub = run.src /\ ~(hub = Absent /\ run.kind = "pull") -> Go(run, "place", queue)
    /\ UNCHANGED <<local, remote, position, held, index, Outside>>

\* Nothing to read on the hub: the feed is polled, the key looked at again.
FetchGone ==
    /\ At("gone")
    /\ Show(Polled)
    /\ Again(queue)
    /\ UNCHANGED <<local, hub, cursor, idxL, Outside>>

\* The staged bytes take the file's place, whatever it holds by now; then the
\* location and the base are recorded.
Place ==
    /\ At("place")
    /\ disk' = run.src
    /\ idxL' = run.src
    /\ Agree(run.R, queue) /\ dirty' = TRUE
    /\ UNCHANGED <<kept, remote, position, view, idxR, Outside>>

-----------------------------------------------------------------------------
(* delete-remote, trash-local                                                *)

\* The file came back since the decision.
MutantCameBack(r) == FALSE
CameBack(r) == r.L # Absent

DeleteFirst(r, q) ==
    CASE r.B = Absent                  -> Over(q)
      [] r.B # Absent /\ CameBack(r)   -> Again(q)
      [] r.B # Absent /\ ~CameBack(r)  -> Go(r, "remove", q)

\* removeObject() has its turn: the index must list the base.
DeletePlan ==
    /\ At("remove")
    /\ CASE idxR = Absent -> Agree(Absent, queue) /\ UNCHANGED dirty
         [] idxR # Absent /\ idxR = run.B -> Go(run, "delete", queue)
         [] idxR \notin {Absent, run.B} -> Go([run EXCEPT !.R = idxR], "redecide", queue)
    /\ UNCHANGED <<local, remote, position, view, index, Outside>>

\* DELETE, If-Match: the base.  An object already gone is as good.
DeleteHub ==
    /\ At("delete")
    /\ IF hub = Absent \/ Precondition
       THEN HubTakes(Absent) /\ row' = Absent /\ Go(run, "deleted", queue)
       ELSE Go([run EXCEPT !.R = hub], "redecide", queue) /\ UNCHANGED <<remote, row>>
    /\ UNCHANGED <<local, position, held, index, Outside>>

DeleteCommit ==
    /\ At("deleted")
    /\ idxR' = Absent
    /\ Agree(Absent, queue) /\ dirty' = TRUE
    /\ UNCHANGED <<local, remote, position, view, idxL, Outside>>

TrashFirst(r, q) ==
    CASE r.L = Absent -> Forget(q) /\ UNCHANGED dirty
      [] r.L # Absent /\ (r.L # r.B \/ idxR # Absent) -> Again(q)
      [] r.L # Absent /\ r.L = r.B /\ idxR = Absent -> Go(r, "move", q)

\* move() to the trash has its turn: it is planned from what the index lists for
\* the file by now.
TrashPlan ==
    /\ At("move")
    /\ IF idxL = Absent THEN Forget(queue) /\ UNCHANGED dirty
       ELSE Go([run EXCEPT !.src = idxL], "trash", queue)
    /\ UNCHANGED <<local, remote, position, view, index, Outside>>

\* c goes to the trash or the conflicts backend.
MutantSetAside(c) == UNCHANGED kept
SetAside(c) == kept' = kept \cup {c}

\* One rename(2) of whatever the file is by now; the index lets go of what the
\* move was planned for.
Trash ==
    /\ At("trash")
    /\ IF disk = Absent THEN Failed /\ UNCHANGED <<local, idxL>>
       ELSE /\ SetAside(disk) /\ disk' = Absent
            /\ idxL' = IF idxL = run.src THEN Absent ELSE idxL
            /\ dirty' = (dirty \/ idxL = run.src)
            /\ Forget(queue)
    /\ UNCHANGED <<remote, position, view, idxR, Outside>>

-----------------------------------------------------------------------------
(* conflict, revert                                                          *)

ConflictFirst(r, q) == IF r.L = Absent THEN Again(q) ELSE Go(r, "head", q)

\* HEAD: a hub version that turns out to be no conflict is decided again.
ConflictHead ==
    /\ AtKind("head", {"conflict"})
    /\ row' = hub
    /\ CASE hub = Absent -> Agree(Absent, queue) /\ dirty' = TRUE
         [] hub # Absent /\ hub \in {run.L, run.B} -> Decided(NotPolled, queue)
         [] hub # Absent /\ hub \notin {run.L, run.B} -> Go([run EXCEPT !.R = hub], "keep", queue)
    /\ UNCHANGED <<local, remote, position, held, index, Outside>>

RevertCheck(r, v, q) ==
    IF v.idx \in {Absent, r.L} THEN Decided(v, q)
    ELSE /\ run' = [r EXCEPT !.step = "keep", !.R = v.idx]
         /\ queue' = q
         /\ dirty' = (dirty \/ v.news)
         /\ UNCHANGED ledger

RevertFirst(r, q) ==
    CASE r.L = Absent -> Again(q)
      [] r.L # Absent /\ idxR = r.want -> RevertCheck(r, NotPolled, q)
      [] r.L # Absent /\ idxR # r.want -> Go(r, "fresh", q)

RevertFresh ==
    /\ AtKind("fresh", {"revert"})
    /\ Show(Polled)
    /\ RevertCheck(run, Polled, queue)
    /\ UNCHANGED <<local, hub, cursor, idxL, Outside>>

\* A copy of the local version is set aside; it fails when the file is not
\* what the index says.  A revert goes on to the hub's bytes.
Keep ==
    /\ At("keep")
    /\ IF disk = Absent \/ disk # idxL THEN Failed /\ UNCHANGED kept
       ELSE /\ SetAside(idxL)
            /\ Go(run, IF run.kind = "conflict" THEN "upload" ELSE "read", queue)
    /\ UNCHANGED <<disk, remote, position, view, index, Outside>>

\* The local version goes to the hub under the conflict-copy name.
Upload ==
    /\ At("upload")
    /\ CASE disk = idxL /\ disk # Absent -> Go(run, "fresh", queue) /\ UNCHANGED phase
         [] disk # idxL \/ disk = Absent ->
              \/ Absent \in {disk, idxL} /\ Failed /\ UNCHANGED phase
              \/ Absent \notin {disk, idxL} /\ Parked /\ UNCHANGED phase
              \/ Absent \notin {disk, idxL} /\ Failed /\ phase' = "offline"
    /\ UNCHANGED <<local, remote, position, view, index, watch, polling, spent>>

\* The hub version keeps the name.
ConflictFresh ==
    LET v == IF idxR = run.R THEN NotPolled ELSE Polled
    IN  /\ AtKind("fresh", {"conflict"})
        /\ Show(v)
        /\ IF v.idx = Absent THEN Again(queue)
           ELSE /\ run' = [run EXCEPT !.step = "read"]
                /\ dirty' = (dirty \/ v.news)
                /\ UNCHANGED <<queue, ledger>>
        /\ UNCHANGED <<local, hub, cursor, idxL, Outside>>

-----------------------------------------------------------------------------
(* The worker                                                                *)

\* One job of a key at a time; it runs to its first await.
Take(j) ==
    LET r == [kind |-> j.kind, want |-> j.want, step |-> "first", L |-> idxL, B |-> base,
              R |-> idxR, src |-> Absent, ours |-> FALSE]
        q == queue \ {j}
    IN  /\ phase = "online" /\ run = NoRun /\ j \in queue
        /\ CASE j.kind = "push"          -> PushFirst(r, q)
             [] j.kind = "pull"          -> PullFirst(r, q)
             [] j.kind = "delete-remote" -> DeleteFirst(r, q)
             [] j.kind = "trash-local"   -> TrashFirst(r, q)
             [] j.kind = "conflict"      -> ConflictFirst(r, q)
             [] j.kind = "revert"        -> RevertFirst(r, q)
        /\ quiet' = ~report
        /\ UNCHANGED <<local, remote, position, view, index, report, phase, polling, spent>>

HubSteps == {"head", "plan", "put", "redecide", "fresh", "fetch", "gone", "delete", "upload"}

\* A call of the job does not reach the hub.
Unreachable ==
    /\ run # NoRun /\ run.step \in HubSteps
    /\ Fault("offline")
    /\ Failed
    /\ phase' = "offline"
    /\ UNCHANGED <<local, remote, position, view, index, watch, polling, user, foreign>>

\* A write reaches the hub and the answer is lost.
AnswerLost ==
    /\ At("put") /\ disk = run.src /\ Precondition
    /\ Fault("lost")
    /\ HubTakes(run.src)
    /\ Failed
    /\ phase' = "offline"
    /\ UNCHANGED <<local, position, view, index, watch, polling, user, foreign>>

Segment ==
    \/ PushHead \/ PushSend \/ PushPlan \/ PushPut \/ PutChanged \/ PushCommit \/ Redecide
    \/ PullFresh \/ FetchPlan \/ Fetch \/ FetchGone \/ Place
    \/ DeletePlan \/ DeleteHub \/ DeleteCommit \/ TrashPlan \/ Trash
    \/ ConflictHead \/ Keep \/ Upload \/ ConflictFresh \/ RevertFresh

Environment ==
    \/ \E c \in File : UserWrites(c) \/ ForeignWrites(c)
    \/ Crash \/ Stop \/ GoOffline \/ Unreachable \/ AnswerLost \/ Resync

Next ==
    \/ Environment
    \/ Watch \/ Poll \/ Reconcile \/ Segment
    \/ \E c \in Contents : Expire(c)
    \/ \E j \in queue : Take(j)
    \/ Start \/ Started \/ TryOnline \/ FullReconcile

Spec == Init /\ [][Next]_vars

\* What the code schedules: the watcher, the debounced pass, the worker's loop
\* and its retry timer, a started call's end, the timers of the rename window,
\* of the offline backoff and of the full reconcile, a restart of the process.
Scheduled ==
    /\ WF_vars(Watch) /\ WF_vars(Reconcile) /\ WF_vars(Segment)
    /\ WF_vars(\E j \in queue : Take(j)) /\ WF_vars(\E c \in Contents : Expire(c))
    /\ WF_vars(Start) /\ WF_vars(Started) /\ WF_vars(TryOnline) /\ WF_vars(FullReconcile)

\* The feed is read by the poll timer alone, or by a host that nudges too.
FairSpec == Spec /\ Scheduled /\ WF_vars(polling /\ Poll)
NudgedSpec == Spec /\ Scheduled /\ WF_vars(Poll)

-----------------------------------------------------------------------------
(* Properties                                                                *)

\* The device never replaces or deletes a hub version its ledger had not
\* agreed on before: another device's edit is not written over, whatever raced
\* with the HEAD, the PUT and the 412 (Mirror.js:665-720).
NoBlindHubWrite ==
    [][hub' # hub /\ foreign' = foreign => hub \in agreed \cup {Absent}]_vars

\* Bytes of the device that leave the local file are bytes the hub agreed on,
\* or were set aside, unless the user wrote the file under the running job
\* (Mirror.js:722-940).
LocalBytesKept ==
    [][disk' # disk /\ user' = user /\ quiet => disk \in agreed \cup kept' \cup {Absent}]_vars

\* The device deletes the hub's object only when the local file is gone, unless
\* the user put it back under the running job (Mirror.js:755-775).
DeleteFollowsUser ==
    [][hub' = Absent /\ hub # Absent /\ foreign' = foreign /\ quiet => disk = Absent]_vars

\* When nothing waits, nothing is left to do: whoever writes, no event, failed
\* call, superseded job, crash or offline time loses the decision a difference
\* calls for, but for a delete whose base another job dropped (Mirror.js:336-347,
\* 384-424, 522-528, 583-629).
Idle == phase = "online" /\ ~dirty /\ ~report /\ queue = {} /\ run = NoRun
ForgetsNothing ==
    Idle /\ ~voided => Directed(Decide(idxL, base, idxR), idxR) \in {"nothing", "skip", "adopt"}

\* A pull mirror sends nothing upstream (Mirror.js:63-67).
PullNeverWritesHub == [][hub' # hub => foreign' # foreign]_vars

\* A push mirror: "local is the only writer - hub-side additions/edits are
\* reported as skips and never applied locally" (Mirror.js:68-69).
PushNeverWritesLocal == [][disk' # disk => user' # user]_vars

\* "Stored's index is the view of both sides - ... hub keys via the canvas
\* driver's change-feed poller" (Mirror.js:49-51): with the feed read to its
\* end, nothing held and no own write under way, the index shows the hub.
ViewCurrent ==
    /\ phase = "online" /\ cursor # "none" /\ feed = <<>> /\ held = {}
    /\ run = NoRun
    => idxR = hub

\* Once both sides are left alone the local file equals the hub's object.
Converges == <>[](disk = hub)

=============================================================================
