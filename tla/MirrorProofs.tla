------------------------------ MODULE MirrorProofs ------------------------------
(* Theorems about Mirror. The first part gives the view after a poll its     *)
(* type, step by step through the feed (Polled). Stage says which jobs       *)
(* reach which step. Safe is then inductive: what a job in                   *)
(* flight relies on between its awaits, while the user, other devices, the   *)
(* watcher, the poller and reconcile passes run beside it. The lemmas named  *)
(* ...Ends say what each way of ending a segment does to job, ledger, queue. *)
(* Remembered is inductive relative to it: whatever the two sides do not     *)
(* agree on has a pass, an event, a waiting job or the job in flight to look *)
(* at it, which makes ForgetsNothing hold.                                   *)
EXTENDS Mirror, SequenceTheorems, FiniteSetTheorems, TLAPS

-----------------------------------------------------------------------------
(* What polling the feed makes of the view                                   *)

View == [row : File, idx : File, held : SUBSET Contents, news : BOOLEAN, read : Nat]

\* A change of the index is news.
Told(v) == v.idx = idxR \/ v.news

\* A set of naturals up to max that is not empty has a least one.
LEMMA Least ==
    ASSUME NEW max \in Nat, NEW T \in SUBSET (0 .. max), T # {}
    PROVE  \E x \in T : \A y \in T : x <= y
  <1> DEFINE Base == 0 .. max
  <1> DEFINE Below == {0 .. x : x \in T}
  <1>1. IsFiniteSet(Base)
    BY FS_Interval
  <1>2. IsWellFoundedOn(StrictSubsetOrdering(Base), SUBSET Base)
    BY <1>1, FS_StrictSubsetOrderingWellFounded, FS_FiniteSubsetsOfFinite
  <1>3. Below \subseteq SUBSET Base /\ Below # {}
    <2>1. PICK x \in T : TRUE
      OBVIOUS
    <2>2. 0 .. x \in Below
      BY <2>1
    <2> QED
      BY <2>2
  <1>4. PICK least \in Below : \A other \in Below : <<other, least>> \notin StrictSubsetOrdering(Base)
    <2> HIDE DEF Base, Below
    <2> QED
      BY <1>2, <1>3, WFMin
  <1>5. PICK x \in T : least = 0 .. x
    BY <1>4
  <1>6. ASSUME NEW y \in T, ~(x <= y)
        PROVE  FALSE
    <2>1. 0 .. y \in Below /\ 0 .. y \subseteq 0 .. x /\ 0 .. y # 0 .. x
      BY <1>6
    <2>2. <<0 .. y, least>> \in StrictSubsetOrdering(Base)
      BY <2>1, <1>5 DEF StrictSubsetOrdering
    <2> QED
      BY <2>1, <2>2, <1>4
  <1> QED
    BY <1>6

LEMMA AppliedType ==
    ASSUME NEW v \in View, NEW e \in Entry
    PROVE  /\ Applied(v, e) \in View /\ Applied(v, e).read = v.read
           /\ Told(v) => Told(Applied(v, e))
  <1>1. CASE e.own
    BY <1>1 DEF Applied, View, Told, Entry
  <1>2. CASE ~e.own /\ e.content = Absent /\ v.idx \in Contents \ v.held
    BY <1>2 DEF Applied, View, Told, Entry
  <1>3. CASE ~e.own /\ e.content = Absent /\ v.idx \notin Contents \ v.held
    BY <1>3 DEF Applied, View, Told, Entry, File
  <1>4. CASE ~e.own /\ e.content # Absent /\ v.row = e.content
    BY <1>4 DEF Applied, View, Told, Entry
  <1>5. CASE ~e.own /\ e.content # Absent /\ v.row # e.content
    BY <1>5 DEF Applied, View, Told, Entry, File
  <1> QED
    BY <1>1, <1>2, <1>3, <1>4, <1>5 DEF Entry

\* Its states, one per entry read: they exist for every length, and the
\* recursive definition in Polled is the last of them.
Reads(path, n) ==
    /\ path \in [0 .. n -> View]
    /\ path[0] = [NotPolled EXCEPT !.read = Len(feed)]
    /\ \A m \in 1 .. n : path[m] = Applied(path[m - 1], feed[m])
    /\ \A m \in 0 .. n : path[m].read = Len(feed)

LEMMA ReadsExist ==
    ASSUME TypeOK, NEW n \in 0 .. Len(feed)
    PROVE  \E path : Reads(path, n)
  <1> DEFINE T == {m \in 0 .. Len(feed) : ~ \E path : Reads(path, m)}
  <1>0. feed \in Seq(Entry) /\ Len(feed) \in Nat /\ NotPolled \in View
    BY DEF TypeOK, NotPolled, View
  <1> SUFFICES ASSUME T # {}
               PROVE  FALSE
    OBVIOUS
  <1>1. PICK x \in T : \A y \in T : x <= y
    BY <1>0, Least
  <1>2. CASE x = 0
    <2> DEFINE start == [NotPolled EXCEPT !.read = Len(feed)]
               path == [m \in 0 .. 0 |-> start]
    <2>1. start \in View /\ start.read = Len(feed)
      BY <1>0 DEF View
    <2> HIDE DEF start
    <2>2. path \in [0 .. 0 -> View] /\ path[0] = start /\ \A m \in 0 .. 0 : path[m].read = Len(feed)
      BY <2>1
    <2>3. \A m \in 1 .. 0 : path[m] = Applied(path[m - 1], feed[m])
      OBVIOUS
    <2> HIDE DEF path
    <2>4. Reads(path, 0)
      BY <2>2, <2>3 DEF Reads, start
    <2> QED
      BY <1>2, <2>4
  <1>3. CASE x # 0
    <2>1. x - 1 \in 0 .. Len(feed) /\ x - 1 \notin T /\ x \in 1 .. Len(feed)
      BY <1>0, <1>1, <1>3
    <2>2. PICK path : Reads(path, x - 1)
      BY <2>1
    <2>3. path[x - 1] \in View /\ path[x - 1].read = Len(feed) /\ feed[x] \in Entry
      BY <1>0, <2>1, <2>2 DEF Reads
    <2> DEFINE next == Applied(path[x - 1], feed[x])
    <2>4. next \in View /\ next.read = Len(feed)
      BY <2>3, AppliedType
    <2> DEFINE longer == [m \in 0 .. x |-> IF m = x THEN next ELSE path[m]]
    <2> HIDE DEF next
    <2>5. longer \in [0 .. x -> View] /\ longer[0] = path[0]
          /\ \A m \in 0 .. x : longer[m].read = Len(feed)
      BY <2>1, <2>2, <2>4 DEF Reads
    <2>6. \A m \in 1 .. x : longer[m] = Applied(longer[m - 1], feed[m])
      BY <2>1, <2>2 DEF Reads, next
    <2>7. Reads(longer, x)
      BY <2>2, <2>5, <2>6 DEF Reads
    <2> QED
      BY <2>7
  <1> QED
    BY <1>2, <1>3

LEMMA PolledType ==
    ASSUME TypeOK
    PROVE  Polled \in View /\ Polled.read = Len(feed) /\ Told(Polled)
  <1> DEFINE start == [NotPolled EXCEPT !.read = Len(feed)]
             Def(f, n) == IF n = 0 THEN start ELSE Applied(f[n - 1], feed[n])
             after == CHOOSE f : f = [n \in 0 .. Len(feed) |-> Def(f, n)]
             T == {m \in 0 .. Len(feed) :
                     ~(after[m] \in View /\ after[m].read = Len(feed) /\ Told(after[m]))}
  <1>0. Len(feed) \in Nat /\ feed \in Seq(Entry) /\ NotPolled \in View
    BY DEF TypeOK, NotPolled, View
  <1>1. PICK path : Reads(path, Len(feed))
    BY <1>0, ReadsExist
  <1>2. path = [n \in 0 .. Len(feed) |-> Def(path, n)]
    BY <1>0, <1>1 DEF Reads
  <1>3. after = [n \in 0 .. Len(feed) |-> Def(after, n)]
    <2> HIDE DEF Def
    <2> QED
      BY <1>2
  <1>4. Polled = after[Len(feed)]
    BY DEF Polled
  <1>5. start \in View /\ start.read = Len(feed) /\ Told(start)
    BY <1>0 DEF View, Told, NotPolled
  <1>6. \A n \in 0 .. Len(feed) : after[n] = Def(after, n)
    <2> HIDE DEF Def, after
    <2> QED
      BY <1>3
  <1>7. T = {}
    <2> SUFFICES ASSUME T # {}
                 PROVE  FALSE
      OBVIOUS
    <2>1. PICK x \in T : \A y \in T : x <= y
      BY <1>0, Least
    <2> HIDE DEF after, start
    <2>2. x # 0
      BY <1>0, <1>5, <1>6
    <2>3. x - 1 \in 0 .. Len(feed) /\ x - 1 \notin T /\ x \in 1 .. Len(feed)
      BY <1>0, <2>1, <2>2
    <2>4. after[x] = Applied(after[x - 1], feed[x]) /\ feed[x] \in Entry
      BY <1>0, <1>6, <2>2, <2>3
    <2> QED
      BY <2>3, <2>4, AppliedType
  <1> HIDE DEF after
  <1> QED
    BY <1>0, <1>4, <1>7

-----------------------------------------------------------------------------
(* Types                                                                     *)

\* What a poll shows, and how a segment ends, is typed.
EngineType ==
    /\ queue' \in SUBSET Job /\ run' \in Run \cup {NoRun}
    /\ base' \in File /\ agreed' \in SUBSET Contents /\ voided' \in BOOLEAN

LEMMA DecideRange ==
    ASSUME NEW L, NEW B, NEW R
    PROVE  Decide(L, B, R) \in {"nothing", "push", "delete-remote", "pull", "trash-local",
                                "adopt", "conflict"}
  <1>1. CASE L = B /\ R = B
    BY <1>1 DEF Decide
  <1>2. CASE L # B /\ R = B
    BY <1>2 DEF Decide
  <1>3. CASE L = B /\ R # B
    BY <1>3 DEF Decide
  <1>4. CASE L # B /\ R # B
    BY <1>4 DEF Decide
  <1> QED
    BY <1>1, <1>2, <1>3, <1>4

LEMMA DirectedRange ==
    ASSUME NEW L, NEW B, NEW R
    PROVE  Directed(Decide(L, B, R), R) \in
             {"nothing", "push", "delete-remote", "pull", "trash-local", "adopt", "conflict",
              "skip", "revert"}
  <1> DEFINE d == Decide(L, B, R)
  <1>1. d \in {"nothing", "push", "delete-remote", "pull", "trash-local", "adopt", "conflict"}
    BY DecideRange
  <1> HIDE DEF d
  <1>2. Directed(d, R) \in {d, "skip", "revert", "pull", "nothing"}
    BY <1>1 DEF Directed
  <1> QED
    BY <1>1, <1>2 DEF d

LEMMA ShowType ==
    ASSUME TypeOK, NEW v \in View, v.read \in 0 .. Len(feed), Show(v)
    PROVE  /\ row' \in File /\ idxR' \in File /\ held' \in SUBSET Contents
           /\ feed' \in Seq(Entry) /\ unsaved' \in Seq(Entry)
  <1>1. feed \in Seq(Entry) /\ unsaved \in Seq(Entry) /\ Len(feed) \in Nat
    BY DEF TypeOK
  <1>2. \A i \in 1 .. Len(feed) : feed[i] \in Entry
    BY <1>1
  <1>3. SubSeq(feed, v.read + 1, Len(feed)) \in Seq(Entry)
    BY <1>1, <1>2, SubSeqProperties
  <1>4. SubSeq(feed, 1, v.read) \in Seq(Entry)
    BY <1>1, <1>2, SubSeqProperties
  <1>5. unsaved \o SubSeq(feed, 1, v.read) \in Seq(Entry)
    BY <1>1, <1>4
  <1> QED
    BY <1>3, <1>5 DEF Show, View

LEMMA NotPolledType ==
    ASSUME TypeOK
    PROVE  /\ NotPolled \in View /\ NotPolled.read \in 0 .. Len(feed)
           /\ NotPolled.idx = idxR /\ Told(NotPolled)
  BY DEF TypeOK, NotPolled, View, Told

LEMMA PolledFits ==
    ASSUME TypeOK
    PROVE  Polled \in View /\ Polled.read \in 0 .. Len(feed) /\ Told(Polled)
  <1>1. Len(feed) \in Nat
    BY DEF TypeOK
  <1> QED
    BY <1>1, PolledType

LEMMA GoType ==
    ASSUME TypeOK, NEW r \in Run, NEW step \in Steps, NEW q \in SUBSET Job, Go(r, step, q)
    PROVE  EngineType /\ dirty' \in BOOLEAN
  <1>1. [r EXCEPT !.step = step] \in Run
    BY DEF Run
  <1> QED
    BY <1>1 DEF Go, EngineType, TypeOK, ledger

LEMMA OverType ==
    ASSUME TypeOK, NEW q \in SUBSET Job, Over(q)
    PROVE  EngineType /\ dirty' \in BOOLEAN
  BY DEF Over, EngineType, TypeOK, ledger

LEMMA AgreeType ==
    ASSUME TypeOK, NEW b \in File, NEW q \in SUBSET Job, Agree(b, q)
    PROVE  EngineType
  BY DEF Agree, SetBase, EngineType, TypeOK, File

LEMMA AgainType ==
    ASSUME TypeOK, NEW q \in SUBSET Job, Again(q)
    PROVE  EngineType /\ dirty' \in BOOLEAN
  BY DEF Again, EngineType, TypeOK, ledger

LEMMA ForgetType ==
    ASSUME TypeOK, NEW q \in SUBSET Job, Forget(q)
    PROVE  EngineType
  BY DEF Forget, SetBase, EngineType, TypeOK, File

LEMMA ReconcileType ==
    ASSUME TypeOK, NEW q \in SUBSET Job, NEW R \in File, ReconcileKey(q, R)
    PROVE  /\ queue' \in SUBSET Job /\ base' \in File /\ agreed' \in SUBSET Contents
           /\ voided' = FALSE
  <1> DEFINE d == Directed(Decide(idxL, base, R), R)
             keep == d = "delete-remote" /\ Deletes = "keep"
  <1>0. /\ CASE d = "nothing" \/ keep         -> queue' = q
             [] d \in {"skip", "adopt"}       -> queue' = {}
             [] d \in {"pull", "revert"}      -> Enqueue(q, d, R)
             [] d \in Kinds \ {"pull", "revert"} /\ ~keep -> Enqueue(q, d, Absent)
        /\ CASE d = "adopt"                   -> SetBase(idxL)
             [] keep \/ (d = "push" /\ R # base) -> SetBase(Absent)
             [] OTHER                         -> UNCHANGED <<base, agreed>>
    BY DEF ReconcileKey
  <1>1. d \in {"nothing", "push", "delete-remote", "pull", "trash-local", "adopt", "conflict",
               "skip", "revert"}
    BY DirectedRange
  <1> HIDE DEF d
  <1>2. \/ queue' \in {q, {}}
        \/ \E kind \in Kinds, want \in File, older \in SUBSET q :
             queue' = older \cup {[kind |-> kind, want |-> want]}
    BY <1>0, <1>1 DEF Enqueue, Kinds, File
  <1>3. UNCHANGED <<base, agreed>> \/ \E b \in File : SetBase(b)
    BY <1>0, <1>1 DEF TypeOK, File
  <1>4. queue' \in SUBSET Job
    BY <1>2 DEF Job
  <1>5. base' \in File /\ agreed' \in SUBSET Contents
    BY <1>3 DEF SetBase, TypeOK, File
  <1> QED
    BY <1>4, <1>5 DEF ReconcileKey

LEMMA DecidedType ==
    ASSUME TypeOK, NEW v \in View, NEW q \in SUBSET Job, Decided(v, q)
    PROVE  EngineType /\ dirty' \in BOOLEAN
  <1>1. v.idx \in File /\ v.news \in BOOLEAN
    BY DEF View
  <1> QED
    BY <1>1, ReconcileType DEF Decided, EngineType, TypeOK

LEMMA WaitingType ==
    ASSUME TypeOK
    PROVE  queue \in SUBSET Job /\ Waiting(run) \in SUBSET Job /\ queue \cup Waiting(run) \in SUBSET Job
  <1>1. CASE run = NoRun
    BY <1>1 DEF TypeOK, Waiting
  <1>2. CASE run # NoRun
    BY <1>2 DEF TypeOK, Waiting, Run, Job
  <1> QED
    BY <1>1, <1>2

LEMMA FailedType ==
    ASSUME TypeOK, Failed \/ Parked
    PROVE  EngineType /\ dirty' \in BOOLEAN
  BY WaitingType, OverType DEF Failed, Parked

\* Segments that leave all but the engine, and what they name, as it was.
LEMMA PushFirstType ==
    ASSUME TypeOK, NEW r \in Run, NEW q \in SUBSET Job, PushFirst(r, q)
    PROVE  EngineType /\ dirty' \in BOOLEAN
  <1>1. CASE r.L = Absent
    BY <1>1, AgainType DEF PushFirst
  <1>2. CASE r.L # Absent /\ base = Absent /\ idxR = Absent
    BY <1>2, GoType DEF PushFirst, Steps
  <1>3. CASE r.L # Absent /\ ~(base = Absent /\ idxR = Absent)
    BY <1>3, GoType DEF PushFirst, Steps
  <1> QED
    BY <1>1, <1>2, <1>3

LEMMA PullCheckType ==
    ASSUME TypeOK, NEW r \in Run, NEW v \in View, NEW q \in SUBSET Job, PullCheck(r, v, q)
    PROVE  EngineType /\ dirty' \in BOOLEAN
  <1>1. CASE v.idx = Absent
    BY <1>1, AgainType DEF PullCheck
  <1>2. CASE v.idx # Absent /\ (idxL = v.idx \/ LocalEdit)
    BY <1>2, DecidedType DEF PullCheck
  <1>3. CASE v.idx # Absent /\ idxL # v.idx /\ ~LocalEdit
    <2>1. [r EXCEPT !.step = "read", !.R = v.idx] \in Run
      BY DEF Run, View, Steps
    <2> QED
      BY <1>3, <2>1 DEF PullCheck, EngineType, TypeOK, View, ledger
  <1> QED
    BY <1>1, <1>2, <1>3

LEMMA PullFirstType ==
    ASSUME TypeOK, NEW r \in Run, NEW q \in SUBSET Job, PullFirst(r, q)
    PROVE  EngineType /\ dirty' \in BOOLEAN
  BY PullCheckType, NotPolledType, GoType DEF PullFirst, Steps

LEMMA DeleteFirstType ==
    ASSUME TypeOK, NEW r \in Run, NEW q \in SUBSET Job, DeleteFirst(r, q)
    PROVE  EngineType /\ dirty' \in BOOLEAN
  <1>1. CASE r.B = Absent
    BY <1>1, OverType DEF DeleteFirst
  <1>2. CASE r.B # Absent /\ CameBack(r)
    BY <1>2, AgainType DEF DeleteFirst
  <1>3. CASE r.B # Absent /\ ~CameBack(r)
    BY <1>3, GoType DEF DeleteFirst, Steps
  <1> QED
    BY <1>1, <1>2, <1>3

LEMMA TrashFirstType ==
    ASSUME TypeOK, NEW r \in Run, NEW q \in SUBSET Job, TrashFirst(r, q)
    PROVE  EngineType /\ dirty' \in BOOLEAN
  <1>1. CASE r.L = Absent
    BY <1>1, ForgetType DEF TrashFirst, TypeOK
  <1>2. CASE r.L # Absent /\ (r.L # r.B \/ idxR # Absent)
    BY <1>2, AgainType DEF TrashFirst
  <1>3. CASE r.L # Absent /\ r.L = r.B /\ idxR = Absent
    BY <1>3, GoType DEF TrashFirst, Steps
  <1> QED
    BY <1>1, <1>2, <1>3

LEMMA RevertCheckType ==
    ASSUME TypeOK, NEW r \in Run, NEW v \in View, NEW q \in SUBSET Job, RevertCheck(r, v, q)
    PROVE  EngineType /\ dirty' \in BOOLEAN
  <1>1. CASE v.idx \in {Absent, r.L}
    BY <1>1, DecidedType DEF RevertCheck
  <1>2. CASE v.idx \notin {Absent, r.L}
    <2>1. [r EXCEPT !.step = "keep", !.R = v.idx] \in Run
      BY DEF Run, View, Steps
    <2> QED
      BY <1>2, <2>1 DEF RevertCheck, EngineType, TypeOK, View, ledger
  <1> QED
    BY <1>1, <1>2

LEMMA RevertFirstType ==
    ASSUME TypeOK, NEW r \in Run, NEW q \in SUBSET Job, RevertFirst(r, q)
    PROVE  EngineType /\ dirty' \in BOOLEAN
  <1>1. CASE r.L = Absent
    BY <1>1, AgainType DEF RevertFirst
  <1>2. CASE r.L # Absent /\ idxR = r.want
    BY <1>2, RevertCheckType, NotPolledType DEF RevertFirst
  <1>3. CASE r.L # Absent /\ idxR # r.want
    BY <1>3, GoType DEF RevertFirst, Steps
  <1> QED
    BY <1>1, <1>2, <1>3

LEMMA TakeType ==
    ASSUME TypeOK, NEW j \in queue, Take(j)
    PROVE  EngineType /\ dirty' \in BOOLEAN
  <1> DEFINE r == [kind |-> j.kind, want |-> j.want, step |-> "first", L |-> idxL, B |-> base,
                   R |-> idxR, src |-> Absent, ours |-> FALSE]
             q == queue \ {j}
  <1>1. r \in Run /\ q \in SUBSET Job /\ j.kind \in Kinds
    BY DEF TypeOK, Run, Job, Steps, File
  <1>2. /\ CASE j.kind = "push"          -> PushFirst(r, q)
             [] j.kind = "pull"          -> PullFirst(r, q)
             [] j.kind = "delete-remote" -> DeleteFirst(r, q)
             [] j.kind = "trash-local"   -> TrashFirst(r, q)
             [] j.kind = "conflict"      -> ConflictFirst(r, q)
             [] j.kind = "revert"        -> RevertFirst(r, q)
    BY DEF Take
  <1> HIDE DEF r, q
  <1>3. ASSUME ConflictFirst(r, q)
        PROVE  EngineType /\ dirty' \in BOOLEAN
    BY <1>1, <1>3, AgainType, GoType DEF ConflictFirst, Steps
  <1> QED
    BY <1>1, <1>2, <1>3, PushFirstType, PullFirstType, DeleteFirstType, TrashFirstType,
       RevertFirstType DEF Kinds

\* Which jobs reach which step.
KindsAt == [step \in Steps |->
    CASE step = "first"                    -> {}
      [] step \in {"send", "plan", "put", "commit"} -> {"push"}
      [] step = "head"                     -> {"push", "conflict"}
      [] step = "redecide"                 -> {"push", "delete-remote"}
      [] step \in {"remove", "delete", "deleted"} -> {"delete-remote"}
      [] step = "gone"                     -> {"pull"}
      [] step \in {"fresh", "read", "fetch", "place"} -> {"pull", "conflict", "revert"}
      [] step = "keep"                     -> {"conflict", "revert"}
      [] step = "upload"                   -> {"conflict"}
      [] step \in {"move", "trash"}        -> {"trash-local"}]

Stage == run # NoRun => run.kind \in KindsAt[run.step]

\* Types after an action: what an action leaves alone, and the rest.
LEMMA InitType ==
    ASSUME Init
    PROVE  TypeOK
  <1>1. base \in File /\ agreed \in SUBSET Contents
    BY DEF Init, File
  <1>2. {disk, hub, row, idxL, idxR, base} \subseteq File
    BY DEF Init, File
  <1>3. {kept, held, agreed} \subseteq SUBSET Contents /\ queue \in SUBSET Job
    BY <1>1 DEF Init
  <1>4. feed \in Seq(Entry) /\ unsaved \in Seq(Entry) /\ cursor \in {"none", "listed", "saved"}
    BY DEF Init
  <1>5. /\ {report, quiet, dirty, polling, voided} \subseteq BOOLEAN
        /\ run \in Run \cup {NoRun} /\ phase \in {"down", "starting", "online", "offline"}
    BY DEF Init
  <1>6. user \in 0 .. MaxUser /\ foreign \in 0 .. MaxForeign /\ faults \in 0 .. MaxFaults
    BY BoundsAssumption DEF Init
  <1> QED
    BY <1>2, <1>3, <1>4, <1>5, <1>6 DEF TypeOK

LEMMA UserWritesType ==
    ASSUME TypeOK, NEW c \in File, UserWrites(c)
    PROVE  TypeOK'
  <1>1. report' \in BOOLEAN /\ quiet' \in BOOLEAN
    BY DEF UserWrites
  <1>2. user' \in 0 .. MaxUser /\ disk' \in File
    BY BoundsAssumption DEF UserWrites, TypeOK
  <1> QED
    BY <1>1, <1>2 DEF UserWrites, TypeOK, local, remote, position, view, index, ledger, watch, engine, spent, Outside

LEMMA ForeignWritesType ==
    ASSUME TypeOK, NEW c \in File, ForeignWrites(c)
    PROVE  TypeOK'
  <1>1. [content |-> c, own |-> FALSE] \in Entry
    BY DEF Entry
  <1>2. feed' \in Seq(Entry)
    BY <1>1 DEF ForeignWrites, Log, TypeOK
  <1> QED
    BY <1>2, BoundsAssumption DEF ForeignWrites, TypeOK, local, remote, position, view, index, ledger, watch, engine, spent, Outside

LEMMA WatchType ==
    ASSUME TypeOK, Watch
    PROVE  TypeOK'
  BY DEF Watch, TypeOK, local, remote, position, view, index, ledger, watch, engine, spent, Outside

LEMMA ExpireType ==
    ASSUME TypeOK, NEW c \in Contents, Expire(c)
    PROVE  TypeOK'
  BY DEF Expire, TypeOK, File, local, remote, position, view, index, ledger, watch, engine, spent, Outside

LEMMA PollType ==
    ASSUME TypeOK, Poll
    PROVE  TypeOK'
  BY PolledFits, ShowType DEF Poll, TypeOK, View, local, remote, position, view, index, ledger, watch, engine, spent, Outside

LEMMA ListType ==
    ASSUME TypeOK, List
    PROVE  /\ row' \in File /\ idxR' \in File /\ held' \in SUBSET Contents
           /\ feed' \in Seq(Entry) /\ unsaved' \in Seq(Entry)
           /\ cursor' \in {"none", "listed", "saved"}
  BY DEF List, TypeOK

LEMMA CatchUpType ==
    ASSUME TypeOK, CatchUp
    PROVE  /\ row' \in File /\ idxR' \in File /\ held' \in SUBSET Contents
           /\ feed' \in Seq(Entry) /\ unsaved' \in Seq(Entry)
           /\ cursor' \in {"none", "listed", "saved"}
  BY ListType, PolledFits, ShowType DEF CatchUp, TypeOK

LEMMA ReconcileStepType ==
    ASSUME TypeOK, Reconcile
    PROVE  TypeOK'
  <1>1. queue' \in SUBSET Job /\ base' \in File /\ agreed' \in SUBSET Contents /\ voided' \in BOOLEAN
    BY ReconcileType DEF Reconcile, TypeOK, ledger
  <1>2. unsaved' = <<>> /\ dirty' = FALSE /\ cursor' \in {cursor, "saved"}
    BY DEF Reconcile
  <1>3. unsaved' \in Seq(Entry) /\ cursor' \in {"none", "listed", "saved"} /\ dirty' \in BOOLEAN
    <2>1. cursor \in {"none", "listed", "saved"} /\ <<>> \in Seq(Entry)
      BY DEF TypeOK
    <2> QED
      BY <1>2, <2>1
  <1> QED
    BY <1>1, <1>3 DEF Reconcile, TypeOK, local, remote, position, view, index, ledger, watch, engine, spent, Outside

LEMMA StartType ==
    ASSUME TypeOK, Start \/ FullReconcile
    PROVE  TypeOK'
  BY DEF Start, FullReconcile, TypeOK, local, remote, position, view, index, ledger, watch, engine, spent, Outside

LEMMA StartedType ==
    ASSUME TypeOK, Started
    PROVE  TypeOK'
  BY CatchUpType DEF Started, TypeOK, local, remote, position, view, index, ledger, watch, engine, spent, Outside

LEMMA TryOnlineType ==
    ASSUME TypeOK, TryOnline
    PROVE  TypeOK'
  <1>1. dirty' \in BOOLEAN
    BY PolledFits DEF TryOnline, TypeOK, View
  <1> QED
    BY <1>1, CatchUpType DEF TryOnline, TypeOK, local, remote, position, view, index, ledger, watch, engine, spent, Outside

LEMMA ResyncType ==
    ASSUME TypeOK, Resync
    PROVE  TypeOK'
  BY ListType DEF Resync, TypeOK, local, remote, position, view, index, ledger, watch, engine, spent, Outside

LEMMA GoOfflineType ==
    ASSUME TypeOK, GoOffline
    PROVE  TypeOK'
  <1>1. phase' = "offline" /\ faults < MaxFaults /\ faults' = faults + 1
    BY DEF GoOffline, Fault
  <1>2. faults' \in 0 .. MaxFaults
    BY <1>1, BoundsAssumption DEF TypeOK
  <1> QED
    BY <1>1, <1>2 DEF GoOffline, TypeOK, local, remote, position, view, index, ledger, watch, engine, spent, Outside

LEMMA DownType ==
    ASSUME TypeOK, Down
    PROVE  /\ phase' = "down" /\ polling' = FALSE /\ run' = NoRun /\ queue' \in SUBSET Job
           /\ dirty' = FALSE /\ report' = FALSE /\ row' \in File /\ held' \in SUBSET Contents
           /\ feed' \in Seq(Entry) /\ unsaved' \in Seq(Entry)
           /\ cursor' \in {"none", "listed", "saved"}
  BY WaitingType DEF Down, TypeOK, File

LEMMA CrashType ==
    ASSUME TypeOK, Crash \/ Stop
    PROVE  TypeOK'
  <1>1. faults' \in 0 .. MaxFaults
    BY BoundsAssumption DEF Crash, Stop, Fault, TypeOK
  <1>2. idxR' \in File
    BY DEF Crash, Stop, TypeOK, File, index
  <1> QED
    BY <1>1, <1>2, DownType DEF Crash, Stop, TypeOK, local, remote, position, view, index, ledger, watch, engine, spent, Outside

LEMMA HubTakesType ==
    ASSUME TypeOK, NEW c \in File, HubTakes(c)
    PROVE  hub' \in File /\ feed' \in Seq(Entry)
  <1>1. [content |-> c, own |-> TRUE] \in Entry
    BY DEF Entry
  <1> QED
    BY <1>1 DEF HubTakes, Log, TypeOK

\* A segment: what the job in flight is, and how it may go on.
LEMMA RunType ==
    ASSUME TypeOK, run # NoRun
    PROVE  /\ run \in Run /\ run.L \in File /\ run.B \in File /\ run.R \in File
           /\ run.src \in File /\ [run EXCEPT !.R = hub] \in Run
  BY DEF TypeOK, Run

LEMMA PushHeadType ==
    ASSUME TypeOK, PushHead
    PROVE  TypeOK'
  <1>1. EngineType /\ dirty' \in BOOLEAN
    BY RunType, GoType, WaitingType DEF PushHead, At, AtKind, Steps
  <1> QED
    BY <1>1 DEF PushHead, EngineType, TypeOK, local, remote, position, view, index, ledger, watch, engine, spent, Outside

LEMMA PushSendType ==
    ASSUME TypeOK, PushSend
    PROVE  TypeOK'
  <1>0. run \in Run /\ [run EXCEPT !.src = idxL, !.ours = (idxL = idxR)] \in Run
    BY DEF PushSend, At, TypeOK, Run
  <1>1. EngineType /\ dirty' \in BOOLEAN
    BY <1>0, AgainType, GoType, WaitingType DEF PushSend, Steps
  <1> QED
    BY <1>1 DEF PushSend, EngineType, TypeOK, local, remote, position, view, index, ledger, watch, engine, spent, Outside

LEMMA PushPlanType ==
    ASSUME TypeOK, PushPlan
    PROVE  TypeOK'
  <1>1. EngineType /\ dirty' \in BOOLEAN
    BY RunType, GoType, AgreeType, WaitingType DEF PushPlan, At, Steps, TypeOK
  <1> QED
    BY <1>1 DEF PushPlan, EngineType, TypeOK, local, remote, position, view, index, ledger, watch, engine, spent, Outside

LEMMA PushPutType ==
    ASSUME TypeOK, PushPut
    PROVE  TypeOK'
  <1>1. EngineType /\ dirty' \in BOOLEAN
    BY RunType, GoType, WaitingType DEF PushPut, At, Steps
  <1>2. hub' \in File /\ feed' \in Seq(Entry) /\ row' \in File
    BY RunType, HubTakesType DEF PushPut, At, TypeOK, remote
  <1> QED
    BY <1>1, <1>2 DEF PushPut, EngineType, TypeOK, local, remote, position, view, index, ledger, watch, engine, spent, Outside

LEMMA PutChangedType ==
    ASSUME TypeOK, PutChanged
    PROVE  TypeOK'
  <1>1. EngineType /\ dirty' \in BOOLEAN
    BY FailedType DEF PutChanged
  <1> QED
    BY <1>1 DEF PutChanged, EngineType, TypeOK, local, remote, position, view, index, ledger, watch, engine, spent, Outside

LEMMA PushCommitType ==
    ASSUME TypeOK, PushCommit
    PROVE  TypeOK'
  <1>1. EngineType /\ idxR' \in File
    BY RunType, AgreeType, WaitingType DEF PushCommit, At
  <1> QED
    BY <1>1 DEF PushCommit, EngineType, TypeOK, local, remote, position, view, index, ledger, watch, engine, spent, Outside

LEMMA RedecideType ==
    ASSUME TypeOK, Redecide
    PROVE  TypeOK'
  <1> DEFINE v == IF idxR = run.R THEN NotPolled ELSE Polled
             d == Decide(idxL, base, run.R)
  <1>0. /\ At("redecide") /\ Show(v)
        /\ IF d \in {"adopt", "push", "delete-remote"} THEN Decided(v, queue)
           ELSE /\ run' = NoRun
                /\ IF d = "nothing" THEN UNCHANGED queue
                   ELSE Enqueue(queue, d, IF d = "pull" THEN run.R ELSE Absent)
                /\ dirty' = (dirty \/ v.news)
                /\ UNCHANGED ledger
        /\ UNCHANGED <<local, hub, cursor, idxL, Outside>>
    BY DEF Redecide
  <1>1. v \in View /\ v.read \in 0 .. Len(feed)
    BY PolledFits, NotPolledType
  <1>2. d \in {"nothing", "push", "delete-remote", "pull", "trash-local", "adopt", "conflict"}
    BY DecideRange
  <1>3. run \in Run /\ run.R \in File
    BY <1>0, RunType DEF At
  <1> HIDE DEF v, d
  <1>4. /\ row' \in File /\ idxR' \in File /\ held' \in SUBSET Contents
        /\ feed' \in Seq(Entry) /\ unsaved' \in Seq(Entry)
    BY <1>0, <1>1, ShowType
  <1>5. CASE d \in {"adopt", "push", "delete-remote"}
    <2>1. EngineType /\ dirty' \in BOOLEAN
      BY <1>0, <1>1, <1>5, DecidedType, WaitingType
    <2> QED
      BY <1>0, <1>4, <2>1 DEF EngineType, TypeOK, local, remote, position, view, index, ledger, watch, engine, spent, Outside
  <1>6. CASE d \notin {"adopt", "push", "delete-remote"}
    <2>1. queue' \in SUBSET Job
      BY <1>0, <1>2, <1>3, <1>6, WaitingType DEF Enqueue, Job, Kinds, File
    <2>2. dirty' \in BOOLEAN
      BY <1>0, <1>1, <1>6 DEF TypeOK, View
    <2> QED
      BY <1>0, <1>4, <1>6, <2>1, <2>2 DEF TypeOK, local, remote, position, view, index, ledger, watch, engine, spent, Outside
  <1> QED
    BY <1>5, <1>6

LEMMA PullFreshType ==
    ASSUME TypeOK, PullFresh
    PROVE  TypeOK'
  <1>1. EngineType /\ dirty' \in BOOLEAN
    BY RunType, PullCheckType, PolledFits, WaitingType DEF PullFresh, At, AtKind
  <1> QED
    BY <1>1, PolledFits, ShowType DEF PullFresh, EngineType, TypeOK, local, remote, position, view, index, ledger, watch, engine, spent, Outside

LEMMA FetchPlanType ==
    ASSUME TypeOK, FetchPlan
    PROVE  TypeOK'
  <1>0. run \in Run /\ [run EXCEPT !.src = idxR, !.ours = (idxL = idxR)] \in Run
    BY DEF FetchPlan, At, TypeOK, Run
  <1>1. EngineType /\ dirty' \in BOOLEAN
    <2>1. CASE idxR # Absent
      BY <1>0, <2>1, GoType, WaitingType DEF FetchPlan, Steps
    <2>2. CASE idxR = Absent /\ run.kind = "pull"
      BY <1>0, <2>2, GoType, WaitingType DEF FetchPlan, Steps
    <2>3. CASE idxR = Absent /\ run.kind # "pull"
      BY <2>3, FailedType DEF FetchPlan
    <2> QED
      BY <2>1, <2>2, <2>3
  <1> QED
    BY <1>1 DEF FetchPlan, EngineType, TypeOK, local, remote, position, view, index, ledger, watch, engine, spent, Outside

LEMMA FetchType ==
    ASSUME TypeOK, Fetch
    PROVE  TypeOK'
  <1>1. EngineType /\ dirty' \in BOOLEAN /\ row' \in File
    <2>1. run \in Run /\ run.R \in File
      BY RunType DEF Fetch, At
    <2>2. CASE run.ours /\ disk # Absent
      BY <2>1, <2>2, AgreeType, WaitingType DEF Fetch, TypeOK
    <2>3. CASE ~(run.ours /\ disk # Absent)
      <3>1. row' \in File
        BY <2>3 DEF Fetch, TypeOK
      <3>2. CASE hub = Absent /\ run.kind = "pull"
        BY <2>1, <2>3, <3>1, <3>2, GoType, WaitingType DEF Fetch, Steps
      <3>3. CASE hub # run.src /\ ~(hub = Absent /\ run.kind = "pull")
        BY <2>3, <3>1, <3>3, FailedType DEF Fetch
      <3>4. CASE hub = run.src /\ ~(hub = Absent /\ run.kind = "pull")
        BY <2>1, <2>3, <3>1, <3>4, GoType, WaitingType DEF Fetch, Steps
      <3> QED
        BY <3>2, <3>3, <3>4
    <2> QED
      BY <2>2, <2>3
  <1> QED
    BY <1>1 DEF Fetch, EngineType, TypeOK, local, remote, position, view, index, ledger, watch, engine, spent, Outside

LEMMA FetchGoneType ==
    ASSUME TypeOK, FetchGone
    PROVE  TypeOK'
  <1>1. EngineType /\ dirty' \in BOOLEAN
    BY AgainType, WaitingType DEF FetchGone
  <1> QED
    BY <1>1, PolledFits, ShowType DEF FetchGone, EngineType, TypeOK, local, remote, position, view, index, ledger, watch, engine, spent, Outside

LEMMA PlaceType ==
    ASSUME TypeOK, Place
    PROVE  TypeOK'
  <1>1. EngineType /\ disk' \in File /\ idxL' \in File
    BY RunType, AgreeType, WaitingType DEF Place, At
  <1> QED
    BY <1>1 DEF Place, EngineType, TypeOK, local, remote, position, view, index, ledger, watch, engine, spent, Outside

LEMMA DeletePlanType ==
    ASSUME TypeOK, DeletePlan
    PROVE  TypeOK'
  <1>0. run \in Run /\ [run EXCEPT !.R = idxR] \in Run
    BY DEF DeletePlan, At, TypeOK, Run
  <1>1. EngineType /\ dirty' \in BOOLEAN
    <2>1. CASE idxR = Absent
      BY <2>1, AgreeType, WaitingType DEF DeletePlan, TypeOK
    <2>2. CASE idxR # Absent /\ idxR = run.B
      BY <1>0, <2>2, GoType, WaitingType DEF DeletePlan, Steps
    <2>3. CASE idxR \notin {Absent, run.B}
      BY <1>0, <2>3, GoType, WaitingType DEF DeletePlan, Steps
    <2> QED
      BY <2>1, <2>2, <2>3
  <1> QED
    BY <1>1 DEF DeletePlan, EngineType, TypeOK, local, remote, position, view, index, ledger, watch, engine, spent, Outside

LEMMA DeleteHubType ==
    ASSUME TypeOK, DeleteHub
    PROVE  TypeOK'
  <1>1. EngineType /\ dirty' \in BOOLEAN
    BY RunType, GoType, WaitingType DEF DeleteHub, At, Steps
  <1>2. hub' \in File /\ feed' \in Seq(Entry) /\ row' \in File
    BY HubTakesType DEF DeleteHub, At, TypeOK, remote, File
  <1> QED
    BY <1>1, <1>2 DEF DeleteHub, EngineType, TypeOK, local, remote, position, view, index, ledger, watch, engine, spent, Outside

LEMMA DeleteCommitType ==
    ASSUME TypeOK, DeleteCommit
    PROVE  TypeOK'
  <1>1. EngineType
    BY AgreeType, WaitingType DEF DeleteCommit, File
  <1> QED
    BY <1>1 DEF DeleteCommit, EngineType, TypeOK, File, local, remote, position, view, index, ledger, watch, engine, spent, Outside

LEMMA TrashPlanType ==
    ASSUME TypeOK, TrashPlan
    PROVE  TypeOK'
  <1>0. run \in Run /\ [run EXCEPT !.src = idxL] \in Run
    BY DEF TrashPlan, At, TypeOK, Run
  <1>1. EngineType /\ dirty' \in BOOLEAN
    <2>1. CASE idxL = Absent
      BY <2>1, ForgetType, WaitingType DEF TrashPlan, TypeOK
    <2>2. CASE idxL # Absent
      BY <1>0, <2>2, GoType, WaitingType DEF TrashPlan, Steps
    <2> QED
      BY <2>1, <2>2
  <1> QED
    BY <1>1 DEF TrashPlan, EngineType, TypeOK, local, remote, position, view, index, ledger, watch, engine, spent, Outside

LEMMA TrashType ==
    ASSUME TypeOK, Trash
    PROVE  TypeOK'
  <1>1. CASE disk = Absent
    BY <1>1, FailedType DEF Trash, EngineType, TypeOK, local, remote, position, view, index, ledger, watch, engine, spent, Outside
  <1>2. CASE disk # Absent
    <2>1. EngineType
      BY <1>2, ForgetType, WaitingType DEF Trash, File
    <2>2. kept' \in SUBSET Contents /\ disk' \in File /\ idxL' \in File /\ dirty' \in BOOLEAN
      BY <1>2 DEF Trash, SetAside, TypeOK, File
    <2> QED
      BY <2>1, <2>2 DEF Trash, EngineType, TypeOK, local, remote, position, view, index, ledger, watch, engine, spent, Outside
  <1> QED
    BY <1>1, <1>2

LEMMA ConflictHeadType ==
    ASSUME TypeOK, ConflictHead
    PROVE  TypeOK'
  <1>0. run \in Run /\ [run EXCEPT !.R = hub] \in Run
    BY RunType DEF ConflictHead, At, AtKind
  <1>1. EngineType /\ dirty' \in BOOLEAN
    <2>1. CASE hub = Absent
      BY <2>1, AgreeType, WaitingType DEF ConflictHead, File
    <2>2. CASE hub # Absent /\ hub \in {run.L, run.B}
      BY <2>2, DecidedType, NotPolledType, WaitingType DEF ConflictHead
    <2>3. CASE hub # Absent /\ hub \notin {run.L, run.B}
      BY <1>0, <2>3, GoType, WaitingType DEF ConflictHead, Steps
    <2> QED
      BY <2>1, <2>2, <2>3
  <1> QED
    BY <1>1 DEF ConflictHead, EngineType, TypeOK, local, remote, position, view, index, ledger, watch, engine, spent, Outside

LEMMA RevertFreshType ==
    ASSUME TypeOK, RevertFresh
    PROVE  TypeOK'
  <1>1. EngineType /\ dirty' \in BOOLEAN
    BY RunType, RevertCheckType, PolledFits, WaitingType DEF RevertFresh, At, AtKind
  <1> QED
    BY <1>1, PolledFits, ShowType DEF RevertFresh, EngineType, TypeOK, local, remote, position, view, index, ledger, watch, engine, spent, Outside

LEMMA KeepType ==
    ASSUME TypeOK, Keep
    PROVE  TypeOK'
  <1>1. CASE disk = Absent \/ disk # idxL
    BY <1>1, FailedType DEF Keep, EngineType, TypeOK, local, remote, position, view, index, ledger, watch, engine, spent, Outside
  <1>2. CASE ~(disk = Absent \/ disk # idxL)
    <2>1. kept' \in SUBSET Contents
      BY <1>2 DEF Keep, SetAside, TypeOK, File
    <2>2. EngineType /\ dirty' \in BOOLEAN
      BY <1>2, RunType, GoType, WaitingType DEF Keep, At, Steps
    <2> QED
      BY <2>1, <2>2 DEF Keep, EngineType, TypeOK, local, remote, position, view, index, ledger, watch, engine, spent, Outside
  <1> QED
    BY <1>1, <1>2

LEMMA UploadType ==
    ASSUME TypeOK, Upload
    PROVE  TypeOK'
  <1>1. EngineType /\ dirty' \in BOOLEAN /\ (UNCHANGED phase \/ phase' = "offline")
    <2>1. CASE disk = idxL /\ disk # Absent
      BY <2>1, RunType, GoType, WaitingType DEF Upload, At, Steps
    <2>2. CASE disk # idxL \/ disk = Absent
      BY <2>2, FailedType DEF Upload
    <2> QED
      BY <2>1, <2>2
  <1> QED
    BY <1>1 DEF Upload, EngineType, TypeOK, local, remote, position, view, index, ledger, watch, engine, spent, Outside

LEMMA ConflictFreshType ==
    ASSUME TypeOK, ConflictFresh
    PROVE  TypeOK'
  <1> DEFINE v == IF idxR = run.R THEN NotPolled ELSE Polled
  <1>0. /\ AtKind("fresh", {"conflict"}) /\ Show(v)
        /\ IF v.idx = Absent THEN Again(queue)
           ELSE /\ run' = [run EXCEPT !.step = "read"]
                /\ dirty' = (dirty \/ v.news)
                /\ UNCHANGED <<queue, ledger>>
        /\ UNCHANGED <<local, hub, cursor, idxL, Outside>>
    BY DEF ConflictFresh
  <1>1. v \in View /\ v.read \in 0 .. Len(feed)
    BY PolledFits, NotPolledType
  <1>2. run \in Run
    BY <1>0, RunType DEF At, AtKind
  <1> HIDE DEF v
  <1>3. EngineType /\ dirty' \in BOOLEAN
    <2>1. [run EXCEPT !.step = "read"] \in Run
      BY <1>1, <1>2 DEF Run, View, Steps
    <2>2. CASE v.idx = Absent
      BY <1>0, <2>2, AgainType, WaitingType
    <2>3. CASE v.idx # Absent
      BY <1>0, <1>1, <2>1, <2>3 DEF EngineType, TypeOK, View, ledger
    <2> QED
      BY <2>2, <2>3
  <1> QED
    BY <1>0, <1>1, <1>3, ShowType DEF EngineType, TypeOK, local, remote, position, view, index, ledger, watch, engine, spent, Outside

LEMMA TakeStepType ==
    ASSUME TypeOK, NEW j \in queue, Take(j)
    PROVE  TypeOK'
  <1>1. EngineType /\ dirty' \in BOOLEAN
    BY TakeType
  <1> QED
    BY <1>1 DEF Take, EngineType, TypeOK, local, remote, position, view, index, ledger, watch, engine, spent, Outside

LEMMA UnreachableType ==
    ASSUME TypeOK, Unreachable
    PROVE  TypeOK'
  <1>1. EngineType /\ dirty' \in BOOLEAN
    BY FailedType DEF Unreachable
  <1>2. faults' \in 0 .. MaxFaults
    BY BoundsAssumption DEF Unreachable, Fault, TypeOK
  <1> QED
    BY <1>1, <1>2 DEF Unreachable, EngineType, TypeOK, local, remote, position, view, index, ledger, watch, engine, spent, Outside

LEMMA AnswerLostType ==
    ASSUME TypeOK, AnswerLost
    PROVE  TypeOK'
  <1>1. EngineType /\ dirty' \in BOOLEAN
    BY FailedType DEF AnswerLost
  <1>2. faults' \in 0 .. MaxFaults
    BY BoundsAssumption DEF AnswerLost, Fault, TypeOK
  <1>3. hub' \in File /\ feed' \in Seq(Entry)
    BY RunType, HubTakesType DEF AnswerLost, At
  <1> QED
    BY <1>1, <1>2, <1>3 DEF AnswerLost, EngineType, TypeOK, local, remote, position, view, index, ledger, watch, engine, spent, Outside

LEMMA TypeStep ==
    ASSUME TypeOK, [Next]_vars
    PROVE  TypeOK'
  <1>1. CASE Environment
    BY <1>1, UserWritesType, ForeignWritesType, CrashType, GoOfflineType, UnreachableType,
       AnswerLostType, ResyncType DEF Environment
  <1>2. CASE Segment
    BY <1>2, PushHeadType, PushSendType, PushPlanType, PushPutType, PutChangedType,
       PushCommitType, RedecideType, PullFreshType, FetchPlanType, FetchType, FetchGoneType,
       PlaceType, DeletePlanType, DeleteHubType, DeleteCommitType, TrashPlanType, TrashType,
       ConflictHeadType, KeepType, UploadType, ConflictFreshType, RevertFreshType DEF Segment
  <1>3. CASE Watch \/ Poll \/ Reconcile \/ Start \/ Started \/ TryOnline \/ FullReconcile
    BY <1>3, WatchType, PollType, ReconcileStepType, StartType, StartedType, TryOnlineType
  <1>4. CASE (\E c \in Contents : Expire(c)) \/ (\E j \in queue : Take(j))
    BY <1>4, ExpireType, TakeStepType
  <1>5. CASE UNCHANGED vars
    BY <1>5 DEF TypeOK, vars, local, remote, position, view, index, ledger, watch, engine, spent, Outside
  <1> QED
    BY <1>1, <1>2, <1>3, <1>4, <1>5 DEF Next

-----------------------------------------------------------------------------
(* The inductive invariant                                                   *)

\* The base is one the two sides agreed on, and so is the one a job read.
Agreed == base \in agreed \cup {Absent} /\ (run # NoRun => run.B \in agreed \cup {Absent})

\* With nothing to report the index has the file, or the trash took it; a job
\* that nothing disturbed has nothing to report.
Watched ==
    /\ phase = "down" => ~report
    /\ run # NoRun => phase \in {"online", "offline"}
    /\ phase # "down" /\ ~report => idxL = disk \/ disk = Absent
    /\ run # NoRun /\ quiet => ~report

\* The file may be replaced: its bytes are agreed on or set aside.
Spare == disk \in agreed \cup kept \cup {Absent}
Replaces(r) ==
    r.step \in {"upload", "read", "fetch", "place"} \/ (r.step = "fresh" /\ r.kind = "conflict")

\* What a job that nothing disturbed relies on before it writes or deletes.
Guarded ==
    run # NoRun /\ quiet =>
        /\ Replaces(run) => Spare
        /\ run.step \in {"remove", "delete"} => disk = Absent

PullKinds == {"pull", "revert", "trash-local"}

\* A pull mirror has no job that writes to the hub.
Pulling ==
    Direction = "pull" =>
        /\ \A j \in queue : j.kind \in PullKinds
        /\ run # NoRun => run.kind \in PullKinds

Safe == Stage /\ Agreed /\ Watched /\ Guarded /\ Pulling

-----------------------------------------------------------------------------
(* What a segment does to the job, the ledger and the queue                  *)

\* The job ends, or goes on at one of the steps.
Continues(r, steps) ==
    \/ run' = NoRun
    \/ /\ run'.kind = r.kind /\ run'.step \in steps
       /\ run'.L = r.L /\ run'.B = r.B

\* What was agreed on stays so.
Grows ==
    /\ agreed \subseteq agreed'
    /\ base \in agreed \cup {Absent} => base' \in agreed' \cup {Absent}

\* New jobs of a pull mirror are of the kinds it may have.
Pulls(q) == Direction = "pull" => \A j \in queue' : j \in q \/ j.kind \in PullKinds

Ends(r, steps, q) == Continues(r, steps) /\ Grows /\ Pulls(q)

LEMMA GoEnds ==
    ASSUME NEW r \in Run, NEW step \in Steps, NEW q, Go(r, step, q)
    PROVE  Ends(r, {step}, q) /\ UNCHANGED <<base, agreed>> /\ run' = [r EXCEPT !.step = step]
  BY DEF Go, Ends, Continues, Grows, Pulls, ledger, Run

LEMMA OverEnds ==
    ASSUME NEW q, NEW r, NEW steps, Over(q)
    PROVE  Ends(r, steps, q) /\ run' = NoRun
  BY DEF Over, Ends, Continues, Grows, Pulls, ledger

LEMMA AgreeEnds ==
    ASSUME NEW b, NEW q, NEW r, NEW steps, Agree(b, q)
    PROVE  Ends(r, steps, q) /\ run' = NoRun
  BY DEF Agree, SetBase, Ends, Continues, Grows, Pulls

LEMMA AgainEnds ==
    ASSUME NEW q, NEW r, NEW steps, Again(q)
    PROVE  Ends(r, steps, q) /\ run' = NoRun
  BY DEF Again, Ends, Continues, Grows, Pulls, ledger

LEMMA ForgetEnds ==
    ASSUME NEW q, NEW r, NEW steps, Forget(q)
    PROVE  Ends(r, steps, q) /\ run' = NoRun
  BY DEF Forget, SetBase, Ends, Continues, Grows, Pulls

LEMMA PullDirected ==
    ASSUME Direction = "pull", NEW L, NEW B, NEW R
    PROVE  Directed(Decide(L, B, R), R) \in {"nothing", "skip", "adopt"} \cup PullKinds
  <1> DEFINE d == Decide(L, B, R)
  <1>1. d \in {"nothing", "push", "delete-remote", "pull", "trash-local", "adopt", "conflict"}
    BY DecideRange
  <1> HIDE DEF d
  <1>2. Directed(d, R) \in {"nothing", "skip", "adopt"} \cup PullKinds
    BY <1>1 DEF Directed, PullKinds
  <1> QED
    BY <1>2 DEF d

LEMMA ReconcileEnds ==
    ASSUME NEW q, NEW R, ReconcileKey(q, R)
    PROVE  Grows /\ Pulls(q)
  <1> DEFINE d == Directed(Decide(idxL, base, R), R)
             keep == d = "delete-remote" /\ Deletes = "keep"
  <1>0. /\ CASE d = "nothing" \/ keep         -> queue' = q
             [] d \in {"skip", "adopt"}       -> queue' = {}
             [] d \in {"pull", "revert"}      -> Enqueue(q, d, R)
             [] d \in Kinds \ {"pull", "revert"} /\ ~keep -> Enqueue(q, d, Absent)
        /\ CASE d = "adopt"                   -> SetBase(idxL)
             [] keep \/ (d = "push" /\ R # base) -> SetBase(Absent)
             [] OTHER                         -> UNCHANGED <<base, agreed>>
    BY DEF ReconcileKey
  <1>1. d \in {"nothing", "push", "delete-remote", "pull", "trash-local", "adopt", "conflict",
               "skip", "revert"}
    BY DirectedRange
  <1>2. Direction = "pull" => d \in {"nothing", "skip", "adopt"} \cup PullKinds
    BY PullDirected
  <1> HIDE DEF d
  <1>3. queue' \in {q, {}} \/ \E want : \E older \in SUBSET q : queue' = older \cup {[kind |-> d, want |-> want]}
    BY <1>0, <1>1 DEF Enqueue, Kinds
  <1>4. Direction = "pull" /\ queue' \notin {q, {}} => d \in PullKinds
    <2>1. d = "nothing" => queue' = q
      BY <1>0 DEF Kinds
    <2>2. d \in {"skip", "adopt"} => queue' = {}
      BY <1>0 DEF Kinds
    <2> QED
      BY <1>2, <2>1, <2>2 DEF PullKinds
  <1>5. Pulls(q)
    BY <1>3, <1>4 DEF Pulls
  <1>6. UNCHANGED <<base, agreed>> \/ \E b : SetBase(b)
    BY <1>0, <1>1
  <1>7. Grows
    BY <1>6 DEF Grows, SetBase
  <1> QED
    BY <1>5, <1>7

LEMMA DecidedEnds ==
    ASSUME NEW v, NEW q, NEW r, NEW steps, Decided(v, q)
    PROVE  Ends(r, steps, q) /\ run' = NoRun
  BY ReconcileEnds DEF Decided, Ends, Continues

LEMMA PullCheckEnds ==
    ASSUME NEW r \in Run, NEW v, NEW q, PullCheck(r, v, q)
    PROVE  /\ Ends(r, {"read"}, q)
           /\ run' # NoRun => idxL \in {Absent, base}
  <1>1. CASE v.idx = Absent
    BY <1>1, AgainEnds DEF PullCheck
  <1>2. CASE v.idx # Absent /\ (idxL = v.idx \/ LocalEdit)
    BY <1>2, DecidedEnds DEF PullCheck
  <1>3. CASE v.idx # Absent /\ idxL # v.idx /\ ~LocalEdit
    BY <1>3 DEF PullCheck, LocalEdit, Ends, Continues, Grows, Pulls, ledger, Run
  <1> QED
    BY <1>1, <1>2, <1>3

LEMMA RevertCheckEnds ==
    ASSUME NEW r \in Run, NEW v, NEW q, RevertCheck(r, v, q)
    PROVE  Ends(r, {"keep"}, q)
  <1>1. CASE v.idx \in {Absent, r.L}
    BY <1>1, DecidedEnds DEF RevertCheck
  <1>2. CASE v.idx \notin {Absent, r.L}
    BY <1>2 DEF RevertCheck, Ends, Continues, Grows, Pulls, ledger, Run
  <1> QED
    BY <1>1, <1>2

\* A job up to its first await.
FirstStep(kind) ==
    CASE kind = "push"          -> {"send", "head"}
      [] kind = "pull"          -> {"read", "fresh"}
      [] kind = "delete-remote" -> {"remove"}
      [] kind = "trash-local"   -> {"move"}
      [] kind = "conflict"      -> {"head"}
      [] kind = "revert"        -> {"keep", "fresh"}

LEMMA PushFirstEnds ==
    ASSUME NEW r \in Run, NEW q, PushFirst(r, q)
    PROVE  Ends(r, {"send", "head"}, q)
  <1>1. CASE r.L = Absent
    BY <1>1, AgainEnds DEF PushFirst
  <1>2. CASE r.L # Absent /\ base = Absent /\ idxR = Absent
    BY <1>2, GoEnds DEF PushFirst, Ends, Continues, Steps
  <1>3. CASE r.L # Absent /\ ~(base = Absent /\ idxR = Absent)
    BY <1>3, GoEnds DEF PushFirst, Ends, Continues, Steps
  <1> QED
    BY <1>1, <1>2, <1>3

LEMMA PullFirstEnds ==
    ASSUME NEW r \in Run, NEW q, PullFirst(r, q)
    PROVE  /\ Ends(r, {"read", "fresh"}, q)
           /\ run' # NoRun /\ run'.step = "read" => idxL \in {Absent, base}
  <1>1. CASE idxR = r.want
    BY <1>1, PullCheckEnds DEF PullFirst, Ends, Continues
  <1>2. CASE idxR # r.want
    BY <1>2, GoEnds DEF PullFirst, Ends, Continues, Steps
  <1> QED
    BY <1>1, <1>2

LEMMA DeleteFirstEnds ==
    ASSUME NEW r \in Run, NEW q, DeleteFirst(r, q)
    PROVE  /\ Ends(r, {"remove"}, q)
           /\ run' # NoRun => r.L = Absent
  <1>1. CASE r.B = Absent
    BY <1>1, OverEnds DEF DeleteFirst
  <1>2. CASE r.B # Absent /\ CameBack(r)
    BY <1>2, AgainEnds DEF DeleteFirst
  <1>3. CASE r.B # Absent /\ ~CameBack(r)
    BY <1>3, GoEnds DEF DeleteFirst, CameBack, Steps
  <1> QED
    BY <1>1, <1>2, <1>3

LEMMA TrashFirstEnds ==
    ASSUME NEW r \in Run, NEW q, TrashFirst(r, q)
    PROVE  Ends(r, {"move"}, q)
  <1>1. CASE r.L = Absent
    BY <1>1, ForgetEnds DEF TrashFirst
  <1>2. CASE r.L # Absent /\ (r.L # r.B \/ idxR # Absent)
    BY <1>2, AgainEnds DEF TrashFirst
  <1>3. CASE r.L # Absent /\ r.L = r.B /\ idxR = Absent
    BY <1>3, GoEnds DEF TrashFirst, Steps
  <1> QED
    BY <1>1, <1>2, <1>3

LEMMA RevertFirstEnds ==
    ASSUME NEW r \in Run, NEW q, RevertFirst(r, q)
    PROVE  Ends(r, {"keep", "fresh"}, q)
  <1>1. CASE r.L = Absent
    BY <1>1, AgainEnds DEF RevertFirst
  <1>2. CASE r.L # Absent /\ idxR = r.want
    BY <1>2, RevertCheckEnds DEF RevertFirst, Ends, Continues
  <1>3. CASE r.L # Absent /\ idxR # r.want
    BY <1>3, GoEnds DEF RevertFirst, Ends, Continues, Steps
  <1> QED
    BY <1>1, <1>2, <1>3

-----------------------------------------------------------------------------
(* Safe is inductive                                                         *)

LEMMA InitSafe ==
    ASSUME Init
    PROVE  Safe
  BY DEF Init, Safe, Stage, Agreed, Watched, Guarded, Pulling

\* A segment that leaves the file and its view alone.
LEMMA StillStep ==
    ASSUME TypeOK, TypeOK', Safe, run # NoRun, NEW steps, Ends(run, steps, queue \cup Waiting(run)),
           UNCHANGED <<disk, idxL, report, quiet>>, kept \subseteq kept', phase' \in {phase, "offline"},
           \A s \in steps : s \in Steps /\ run.kind \in KindsAt[s],
           run' # NoRun /\ quiet => /\ Replaces(run') => Spare'
                                    /\ run'.step \in {"remove", "delete"} => disk = Absent
    PROVE  Safe'
  <1>1. Stage'
    BY DEF Ends, Continues, Stage
  <1>2. Agreed'
    BY DEF Ends, Continues, Grows, Agreed, Safe
  <1>3. Watched'
    BY DEF Watched, Safe
  <1>4. Guarded'
    BY DEF Guarded
  <1>5. Pulling'
    <2> SUFFICES ASSUME Direction = "pull"
                 PROVE  /\ \A j \in queue' : j.kind \in PullKinds
                        /\ run' # NoRun => run'.kind \in PullKinds
      BY DEF Pulling
    <2>1. run.kind \in PullKinds /\ \A j \in queue : j.kind \in PullKinds
      BY DEF Safe, Pulling
    <2>2. \A j \in Waiting(run) : j.kind \in PullKinds
      BY <2>1 DEF Waiting
    <2> QED
      BY <2>1, <2>2 DEF Ends, Continues, Pulls
  <1> QED
    BY <1>1, <1>2, <1>3, <1>4, <1>5 DEF Safe

\* The job is unknown to the step, and nothing it relies on changes.
LEMMA AsideStep ==
    ASSUME TypeOK, Safe, UNCHANGED <<disk, kept, run, quiet>>, Grows, Pulls(queue), Watched'
    PROVE  Safe'
  <1>1. Stage'
    BY DEF Stage, Safe
  <1>2. Agreed'
    BY DEF Agreed, Grows, Safe
  <1>3. Guarded'
    BY DEF Guarded, Replaces, Spare, Grows, Safe
  <1>4. Pulling'
    BY DEF Pulling, Pulls, Safe
  <1> QED
    BY <1>1, <1>2, <1>3, <1>4 DEF Safe

LEMMA SameLedger ==
    ASSUME UNCHANGED <<base, agreed, queue>>
    PROVE  Grows /\ Pulls(queue)
  BY DEF Grows, Pulls

\* More waiting jobs are allowed for than there are.
LEMMA MoreWaiting ==
    ASSUME NEW r, NEW steps, NEW q, NEW more, Ends(r, steps, q), q \subseteq more
    PROVE  Ends(r, steps, more)
  BY DEF Ends, Pulls

LEMMA PushHeadSafe ==
    ASSUME TypeOK, TypeOK', Safe, PushHead
    PROVE  Safe'
  <1>1. run # NoRun /\ run \in Run /\ UNCHANGED <<disk, idxL, report, quiet>>
        /\ kept \subseteq kept' /\ phase' \in {phase, "offline"}
    BY DEF PushHead, At, AtKind, TypeOK, local, remote, position, view, index, ledger, watch, engine, spent, Outside
  <1>2. Ends(run, {"send", "redecide"}, queue \cup Waiting(run))
    <2>1. CASE hub # run.B
      <3> DEFINE p == [run EXCEPT !.R = hub]
      <3>1. p \in Run /\ p.kind = run.kind /\ p.L = run.L /\ p.B = run.B
        BY <1>1, RunType DEF Run
      <3>2. Go(p, "redecide", queue)
        BY <2>1 DEF PushHead
      <3> HIDE DEF p
      <3>3. Ends(p, {"redecide"}, queue)
        BY <3>1, <3>2, GoEnds DEF Steps
      <3> QED
        BY <3>1, <3>3 DEF Ends, Continues, Pulls
    <2>2. CASE hub = run.B
      <3>1. Go(run, "send", queue)
        BY <2>2 DEF PushHead
      <3>2. Ends(run, {"send"}, queue)
        BY <1>1, <3>1, GoEnds DEF Steps
      <3> QED
        BY <3>2 DEF Ends, Continues, Pulls
    <2> QED
      BY <2>1, <2>2
  <1>3. \A s \in {"send", "redecide"} : s \in Steps /\ run.kind \in KindsAt[s]
    BY DEF PushHead, At, AtKind, Safe, Stage, KindsAt, Steps
  <1>4. run' # NoRun /\ quiet => /\ Replaces(run') => Spare'
                                 /\ run'.step \in {"remove", "delete"} => disk = Absent
    BY <1>2 DEF Ends, Continues, Replaces
  <1> QED
    BY <1>1, <1>2, <1>3, <1>4, StillStep

LEMMA PushSendSafe ==
    ASSUME TypeOK, TypeOK', Safe, PushSend
    PROVE  Safe'
  <1>1. run # NoRun /\ run \in Run /\ UNCHANGED <<disk, idxL, report, quiet>>
        /\ kept \subseteq kept' /\ phase' \in {phase, "offline"}
    BY DEF PushSend, At, AtKind, TypeOK, local, remote, position, view, index, ledger, watch, engine, spent, Outside
  <1>2. Ends(run, {"plan"}, queue \cup Waiting(run))
    <2>1. CASE idxL = Absent
      <3>1. Again(queue)
        BY <2>1 DEF PushSend
      <3> QED
        BY <3>1, AgainEnds, MoreWaiting
    <2>2. CASE idxL # Absent
      <3> DEFINE p == [run EXCEPT !.src = idxL, !.ours = (idxL = idxR)]
      <3>1. p \in Run /\ p.kind = run.kind /\ p.L = run.L /\ p.B = run.B
        BY <1>1 DEF Run, TypeOK
      <3>2. Go(p, "plan", queue)
        BY <2>2 DEF PushSend
      <3> HIDE DEF p
      <3>3. Ends(p, {"plan"}, queue)
        BY <3>1, <3>2, GoEnds DEF Steps
      <3> QED
        BY <3>1, <3>3 DEF Ends, Continues, Pulls
    <2> QED
      BY <2>1, <2>2
  <1>3. \A s \in {"plan"} : s \in Steps /\ run.kind \in KindsAt[s]
    BY DEF PushSend, At, AtKind, Safe, Stage, KindsAt, Steps
  <1>4. run' # NoRun /\ quiet => /\ Replaces(run') => Spare'
                                 /\ run'.step \in {"remove", "delete"} => disk = Absent
    BY <1>2 DEF Ends, Continues, Replaces
  <1> QED
    BY <1>1, <1>2, <1>3, <1>4, StillStep

LEMMA PushPlanSafe ==
    ASSUME TypeOK, TypeOK', Safe, PushPlan
    PROVE  Safe'
  <1>1. run # NoRun /\ run \in Run /\ UNCHANGED <<disk, idxL, report, quiet>>
        /\ kept \subseteq kept' /\ phase' \in {phase, "offline"}
    BY DEF PushPlan, At, AtKind, TypeOK, local, remote, position, view, index, ledger, watch, engine, spent, Outside
  <1>2. Ends(run, {"put"}, queue \cup Waiting(run))
    <2>1. Agree(run.L, queue) \/ Go(run, "put", queue)
      BY DEF PushPlan
    <2>2. Ends(run, {"put"}, queue)
      BY <1>1, <2>1, AgreeEnds, GoEnds DEF Steps
    <2> QED
      BY <2>2, MoreWaiting
  <1>3. \A s \in {"put"} : s \in Steps /\ run.kind \in KindsAt[s]
    BY DEF PushPlan, At, AtKind, Safe, Stage, KindsAt, Steps
  <1>4. run' # NoRun /\ quiet => /\ Replaces(run') => Spare'
                                 /\ run'.step \in {"remove", "delete"} => disk = Absent
    BY <1>2 DEF Ends, Continues, Replaces
  <1> QED
    BY <1>1, <1>2, <1>3, <1>4, StillStep

LEMMA PushPutSafe ==
    ASSUME TypeOK, TypeOK', Safe, PushPut
    PROVE  Safe'
  <1>1. run # NoRun /\ run \in Run /\ UNCHANGED <<disk, idxL, report, quiet>>
        /\ kept \subseteq kept' /\ phase' \in {phase, "offline"}
    BY DEF PushPut, At, AtKind, TypeOK, local, remote, position, view, index, ledger, watch, engine, spent, Outside
  <1>2. Ends(run, {"commit", "redecide"}, queue \cup Waiting(run))
    <2>1. CASE Precondition
      <3>1. Go(run, "commit", queue)
        BY <2>1 DEF PushPut
      <3>2. Ends(run, {"commit"}, queue)
        BY <1>1, <3>1, GoEnds DEF Steps
      <3> QED
        BY <3>2 DEF Ends, Continues, Pulls
    <2>2. CASE ~Precondition
      <3> DEFINE p == [run EXCEPT !.R = hub]
      <3>1. p \in Run /\ p.kind = run.kind /\ p.L = run.L /\ p.B = run.B
        BY <1>1, RunType DEF Run
      <3>2. Go(p, "redecide", queue)
        BY <2>2 DEF PushPut
      <3> HIDE DEF p
      <3>3. Ends(p, {"redecide"}, queue)
        BY <3>1, <3>2, GoEnds DEF Steps
      <3> QED
        BY <3>1, <3>3 DEF Ends, Continues, Pulls
    <2> QED
      BY <2>1, <2>2
  <1>3. \A s \in {"commit", "redecide"} : s \in Steps /\ run.kind \in KindsAt[s]
    BY DEF PushPut, At, AtKind, Safe, Stage, KindsAt, Steps
  <1>4. run' # NoRun /\ quiet => /\ Replaces(run') => Spare'
                                 /\ run'.step \in {"remove", "delete"} => disk = Absent
    BY <1>2 DEF Ends, Continues, Replaces
  <1> QED
    BY <1>1, <1>2, <1>3, <1>4, StillStep

LEMMA PutChangedSafe ==
    ASSUME TypeOK, TypeOK', Safe, PutChanged
    PROVE  Safe'
  <1>1. run # NoRun /\ run \in Run /\ UNCHANGED <<disk, idxL, report, quiet>>
        /\ kept \subseteq kept' /\ phase' \in {phase, "offline"}
    BY DEF PutChanged, At, AtKind, TypeOK, local, remote, position, view, index, ledger, watch, engine, spent, Outside
  <1>2. Ends(run, {}, queue \cup Waiting(run))
    <2>1. Over(queue \cup Waiting(run)) \/ Over(queue)
      BY DEF PutChanged, Failed, Parked
    <2> QED
      BY <2>1, OverEnds, MoreWaiting
  <1>3. \A s \in {} : s \in Steps /\ run.kind \in KindsAt[s]
    OBVIOUS
  <1>4. run' # NoRun /\ quiet => /\ Replaces(run') => Spare'
                                 /\ run'.step \in {"remove", "delete"} => disk = Absent
    BY <1>2 DEF Ends, Continues, Replaces
  <1> QED
    BY <1>1, <1>2, <1>3, <1>4, StillStep

LEMMA PushCommitSafe ==
    ASSUME TypeOK, TypeOK', Safe, PushCommit
    PROVE  Safe'
  <1>1. run # NoRun /\ run \in Run /\ UNCHANGED <<disk, idxL, report, quiet>>
        /\ kept \subseteq kept' /\ phase' \in {phase, "offline"}
    BY DEF PushCommit, At, AtKind, TypeOK, local, remote, position, view, index, ledger, watch, engine, spent, Outside
  <1>2. Ends(run, {}, queue \cup Waiting(run))
    <2>1. Agree(run.L, queue)
      BY DEF PushCommit
    <2> QED
      BY <2>1, AgreeEnds, MoreWaiting
  <1>3. \A s \in {} : s \in Steps /\ run.kind \in KindsAt[s]
    OBVIOUS
  <1>4. run' # NoRun /\ quiet => /\ Replaces(run') => Spare'
                                 /\ run'.step \in {"remove", "delete"} => disk = Absent
    BY <1>2 DEF Ends, Continues, Replaces
  <1> QED
    BY <1>1, <1>2, <1>3, <1>4, StillStep

\* Only a job that writes to the hub has the table run again.
LEMMA RedecideSafe ==
    ASSUME TypeOK, TypeOK', Safe, Redecide
    PROVE  Safe'
  <1>1. run # NoRun /\ run \in Run /\ UNCHANGED <<disk, idxL, report, quiet>>
        /\ kept \subseteq kept' /\ phase' \in {phase, "offline"}
    BY DEF Redecide, At, AtKind, TypeOK, local, remote, position, view, index, ledger, watch, engine, spent, Outside
  <1>2. Ends(run, {}, queue \cup Waiting(run))
    <2> DEFINE v == IF idxR = run.R THEN NotPolled ELSE Polled
               d == Decide(idxL, base, run.R)
    <2>1. CASE d \in {"adopt", "push", "delete-remote"}
      <3>1. Decided(v, queue)
        BY <2>1 DEF Redecide
      <3> HIDE DEF v
      <3> QED
        BY <3>1, DecidedEnds, MoreWaiting
    <2>2. CASE d \notin {"adopt", "push", "delete-remote"}
      <3>1. run' = NoRun /\ UNCHANGED ledger
        BY <2>2 DEF Redecide
      <3>2. Direction # "pull"
        BY <1>1 DEF Redecide, At, Safe, Stage, Pulling, PullKinds, KindsAt, Steps
      <3> QED
        BY <3>1, <3>2 DEF Ends, Continues, Grows, Pulls, ledger
    <2> QED
      BY <2>1, <2>2
  <1>3. \A s \in {} : s \in Steps /\ run.kind \in KindsAt[s]
    OBVIOUS
  <1>4. run' # NoRun /\ quiet => /\ Replaces(run') => Spare'
                                 /\ run'.step \in {"remove", "delete"} => disk = Absent
    BY <1>2 DEF Ends, Continues, Replaces
  <1> QED
    BY <1>1, <1>2, <1>3, <1>4, StillStep

LEMMA PullFreshSafe ==
    ASSUME TypeOK, TypeOK', Safe, PullFresh
    PROVE  Safe'
  <1>1. run # NoRun /\ run \in Run /\ UNCHANGED <<disk, idxL, report, quiet>>
        /\ kept \subseteq kept' /\ phase' \in {phase, "offline"}
    BY DEF PullFresh, At, AtKind, TypeOK, local, remote, position, view, index, ledger, watch, engine, spent, Outside
  <1>2. Ends(run, {"read"}, queue \cup Waiting(run))
    <2>1. PullCheck(run, Polled, queue)
      BY DEF PullFresh
    <2> QED
      BY <1>1, <2>1, PullCheckEnds, MoreWaiting
  <1>3. \A s \in {"read"} : s \in Steps /\ run.kind \in KindsAt[s]
    BY DEF PullFresh, At, AtKind, Safe, Stage, KindsAt, Steps
  <1>4. run' # NoRun /\ quiet => /\ Replaces(run') => Spare'
                                 /\ run'.step \in {"remove", "delete"} => disk = Absent
    <2>1. run' # NoRun => idxL \in {Absent, base}
      BY <1>1, PullCheckEnds DEF PullFresh
    <2>2. run # NoRun /\ quiet => idxL = disk \/ disk = Absent
      BY DEF Safe, Watched
    <2>3. base \in agreed \cup {Absent} /\ agreed \subseteq agreed'
      BY <1>2 DEF Safe, Agreed, Ends, Grows
    <2> QED
      BY <1>1, <1>2, <2>1, <2>2, <2>3 DEF Ends, Continues, Spare
  <1> QED
    BY <1>1, <1>2, <1>3, <1>4, StillStep

LEMMA FetchPlanSafe ==
    ASSUME TypeOK, TypeOK', Safe, FetchPlan
    PROVE  Safe'
  <1>1. run # NoRun /\ run \in Run /\ UNCHANGED <<disk, idxL, report, quiet>>
        /\ kept \subseteq kept' /\ phase' \in {phase, "offline"}
    BY DEF FetchPlan, At, AtKind, TypeOK, local, remote, position, view, index, ledger, watch, engine, spent, Outside
  <1>0. PICK steps : steps = IF run.kind = "pull" THEN {"gone", "fetch"} ELSE {"fetch"}
    OBVIOUS
  <1>2. Ends(run, steps, queue \cup Waiting(run))
    <2>1. CASE idxR # Absent
      <3> DEFINE p == [run EXCEPT !.src = idxR, !.ours = (idxL = idxR)]
      <3>1. p \in Run /\ p.kind = run.kind /\ p.L = run.L /\ p.B = run.B
        BY <1>1 DEF Run, TypeOK
      <3>2. Go(p, "fetch", queue)
        BY <2>1 DEF FetchPlan
      <3> HIDE DEF p
      <3>3. Ends(p, {"fetch"}, queue)
        BY <3>1, <3>2, GoEnds DEF Steps
      <3> QED
        BY <1>0, <3>1, <3>3 DEF Ends, Continues, Pulls
    <2>2. CASE idxR = Absent /\ run.kind = "pull"
      <3>1. Go(run, "gone", queue)
        BY <2>2 DEF FetchPlan
      <3>2. Ends(run, {"gone"}, queue)
        BY <1>1, <3>1, GoEnds DEF Steps
      <3> QED
        BY <1>0, <2>2, <3>2 DEF Ends, Continues, Pulls
    <2>3. CASE idxR = Absent /\ run.kind # "pull"
      <3>1. Over(queue \cup Waiting(run))
        BY <2>3 DEF FetchPlan, Failed
      <3> QED
        BY <3>1, OverEnds
    <2> QED
      BY <2>1, <2>2, <2>3
  <1>3. \A s \in steps : s \in Steps /\ run.kind \in KindsAt[s]
    BY <1>0 DEF FetchPlan, At, AtKind, Safe, Stage, KindsAt, Steps
  <1>4. run' # NoRun /\ quiet => /\ Replaces(run') => Spare'
                                 /\ run'.step \in {"remove", "delete"} => disk = Absent
    <2>1. quiet => Spare
      BY DEF FetchPlan, At, AtKind, Safe, Guarded, Replaces
    <2>2. Spare => Spare'
      BY <1>1, <1>2 DEF Spare, Ends, Grows
    <2> QED
      BY <1>0, <1>2, <2>1, <2>2 DEF Ends, Continues
  <1> QED
    BY <1>1, <1>2, <1>3, <1>4, StillStep

LEMMA FetchSafe ==
    ASSUME TypeOK, TypeOK', Safe, Fetch
    PROVE  Safe'
  <1>1. run # NoRun /\ run \in Run /\ UNCHANGED <<disk, idxL, report, quiet>>
        /\ kept \subseteq kept' /\ phase' \in {phase, "offline"}
    BY DEF Fetch, At, AtKind, TypeOK, local, remote, position, view, index, ledger, watch, engine, spent, Outside
  <1>0. PICK steps : steps = IF run.kind = "pull" THEN {"gone", "place"} ELSE {"place"}
    OBVIOUS
  <1>2. Ends(run, steps, queue \cup Waiting(run))
    <2>1. CASE run.ours /\ disk # Absent
      <3>1. Agree(run.R, queue)
        BY <2>1 DEF Fetch
      <3> QED
        BY <3>1, AgreeEnds, MoreWaiting
    <2>2. CASE ~(run.ours /\ disk # Absent)
      <3>1. CASE hub = Absent /\ run.kind = "pull"
        <4>1. Go(run, "gone", queue)
          BY <2>2, <3>1 DEF Fetch
        <4>2. Ends(run, {"gone"}, queue)
          BY <1>1, <4>1, GoEnds DEF Steps
        <4> QED
          BY <1>0, <3>1, <4>2 DEF Ends, Continues, Pulls
      <3>2. CASE hub # run.src /\ ~(hub = Absent /\ run.kind = "pull")
        <4>1. Over(queue \cup Waiting(run))
          BY <2>2, <3>2 DEF Fetch, Failed
        <4> QED
          BY <4>1, OverEnds
      <3>3. CASE hub = run.src /\ ~(hub = Absent /\ run.kind = "pull")
        <4>1. Go(run, "place", queue)
          BY <2>2, <3>3 DEF Fetch
        <4>2. Ends(run, {"place"}, queue)
          BY <1>1, <4>1, GoEnds DEF Steps
        <4> QED
          BY <1>0, <4>2 DEF Ends, Continues, Pulls
      <3> QED
        BY <3>1, <3>2, <3>3
    <2> QED
      BY <2>1, <2>2
  <1>3. \A s \in steps : s \in Steps /\ run.kind \in KindsAt[s]
    BY <1>0 DEF Fetch, At, AtKind, Safe, Stage, KindsAt, Steps
  <1>4. run' # NoRun /\ quiet => /\ Replaces(run') => Spare'
                                 /\ run'.step \in {"remove", "delete"} => disk = Absent
    <2>1. quiet => Spare
      BY DEF Fetch, At, Safe, Guarded, Replaces
    <2>2. Spare => Spare'
      BY <1>1, <1>2 DEF Spare, Ends, Grows
    <2> QED
      BY <1>0, <1>2, <2>1, <2>2 DEF Ends, Continues
  <1> QED
    BY <1>1, <1>2, <1>3, <1>4, StillStep

LEMMA FetchGoneSafe ==
    ASSUME TypeOK, TypeOK', Safe, FetchGone
    PROVE  Safe'
  <1>1. run # NoRun /\ run \in Run /\ UNCHANGED <<disk, idxL, report, quiet>>
        /\ kept \subseteq kept' /\ phase' \in {phase, "offline"}
    BY DEF FetchGone, At, AtKind, TypeOK, local, remote, position, view, index, ledger, watch, engine, spent, Outside
  <1>2. Ends(run, {}, queue \cup Waiting(run))
    <2>1. Again(queue)
      BY DEF FetchGone
    <2> QED
      BY <2>1, AgainEnds, MoreWaiting
  <1>3. \A s \in {} : s \in Steps /\ run.kind \in KindsAt[s]
    OBVIOUS
  <1>4. run' # NoRun /\ quiet => /\ Replaces(run') => Spare'
                                 /\ run'.step \in {"remove", "delete"} => disk = Absent
    BY <1>2 DEF Ends, Continues, Replaces
  <1> QED
    BY <1>1, <1>2, <1>3, <1>4, StillStep

LEMMA DeletePlanSafe ==
    ASSUME TypeOK, TypeOK', Safe, DeletePlan
    PROVE  Safe'
  <1>1. run # NoRun /\ run \in Run /\ UNCHANGED <<disk, idxL, report, quiet>>
        /\ kept \subseteq kept' /\ phase' \in {phase, "offline"}
    BY DEF DeletePlan, At, AtKind, TypeOK, local, remote, position, view, index, ledger, watch, engine, spent, Outside
  <1>2. Ends(run, {"delete", "redecide"}, queue \cup Waiting(run))
    <2>1. CASE idxR = Absent
      <3>1. Agree(Absent, queue)
        BY <2>1 DEF DeletePlan
      <3> QED
        BY <3>1, AgreeEnds, MoreWaiting
    <2>2. CASE idxR # Absent /\ idxR = run.B
      <3>1. Go(run, "delete", queue)
        BY <2>2 DEF DeletePlan
      <3>2. Ends(run, {"delete"}, queue)
        BY <1>1, <3>1, GoEnds DEF Steps
      <3> QED
        BY <3>2 DEF Ends, Continues, Pulls
    <2>3. CASE idxR \notin {Absent, run.B}
      <3> DEFINE p == [run EXCEPT !.R = idxR]
      <3>1. p \in Run /\ p.kind = run.kind /\ p.L = run.L /\ p.B = run.B
        BY <1>1 DEF Run, TypeOK
      <3>2. Go(p, "redecide", queue)
        BY <2>3 DEF DeletePlan
      <3> HIDE DEF p
      <3>3. Ends(p, {"redecide"}, queue)
        BY <3>1, <3>2, GoEnds DEF Steps
      <3> QED
        BY <3>1, <3>3 DEF Ends, Continues, Pulls
    <2> QED
      BY <2>1, <2>2, <2>3
  <1>3. \A s \in {"delete", "redecide"} : s \in Steps /\ run.kind \in KindsAt[s]
    BY DEF DeletePlan, At, AtKind, Safe, Stage, KindsAt, Steps
  <1>4. run' # NoRun /\ quiet => /\ Replaces(run') => Spare'
                                 /\ run'.step \in {"remove", "delete"} => disk = Absent
    <2>1. quiet => disk = Absent
      BY DEF DeletePlan, At, Safe, Guarded
    <2> QED
      BY <1>2, <2>1 DEF Ends, Continues, Replaces
  <1> QED
    BY <1>1, <1>2, <1>3, <1>4, StillStep

LEMMA DeleteHubSafe ==
    ASSUME TypeOK, TypeOK', Safe, DeleteHub
    PROVE  Safe'
  <1>1. run # NoRun /\ run \in Run /\ UNCHANGED <<disk, idxL, report, quiet>>
        /\ kept \subseteq kept' /\ phase' \in {phase, "offline"}
    BY DEF DeleteHub, At, AtKind, TypeOK, local, remote, position, view, index, ledger, watch, engine, spent, Outside
  <1>2. Ends(run, {"deleted", "redecide"}, queue \cup Waiting(run))
    <2>1. CASE hub = Absent \/ Precondition
      <3>1. Go(run, "deleted", queue)
        BY <2>1 DEF DeleteHub
      <3>2. Ends(run, {"deleted"}, queue)
        BY <1>1, <3>1, GoEnds DEF Steps
      <3> QED
        BY <3>2 DEF Ends, Continues, Pulls
    <2>2. CASE ~(hub = Absent \/ Precondition)
      <3> DEFINE p == [run EXCEPT !.R = hub]
      <3>1. p \in Run /\ p.kind = run.kind /\ p.L = run.L /\ p.B = run.B
        BY <1>1, RunType DEF Run
      <3>2. Go(p, "redecide", queue)
        BY <2>2 DEF DeleteHub
      <3> HIDE DEF p
      <3>3. Ends(p, {"redecide"}, queue)
        BY <3>1, <3>2, GoEnds DEF Steps
      <3> QED
        BY <3>1, <3>3 DEF Ends, Continues, Pulls
    <2> QED
      BY <2>1, <2>2
  <1>3. \A s \in {"deleted", "redecide"} : s \in Steps /\ run.kind \in KindsAt[s]
    BY DEF DeleteHub, At, AtKind, Safe, Stage, KindsAt, Steps
  <1>4. run' # NoRun /\ quiet => /\ Replaces(run') => Spare'
                                 /\ run'.step \in {"remove", "delete"} => disk = Absent
    BY <1>2 DEF Ends, Continues, Replaces
  <1> QED
    BY <1>1, <1>2, <1>3, <1>4, StillStep

LEMMA DeleteCommitSafe ==
    ASSUME TypeOK, TypeOK', Safe, DeleteCommit
    PROVE  Safe'
  <1>1. run # NoRun /\ run \in Run /\ UNCHANGED <<disk, idxL, report, quiet>>
        /\ kept \subseteq kept' /\ phase' \in {phase, "offline"}
    BY DEF DeleteCommit, At, AtKind, TypeOK, local, remote, position, view, index, ledger, watch, engine, spent, Outside
  <1>2. Ends(run, {}, queue \cup Waiting(run))
    <2>1. Agree(Absent, queue)
      BY DEF DeleteCommit
    <2> QED
      BY <2>1, AgreeEnds, MoreWaiting
  <1>3. \A s \in {} : s \in Steps /\ run.kind \in KindsAt[s]
    OBVIOUS
  <1>4. run' # NoRun /\ quiet => /\ Replaces(run') => Spare'
                                 /\ run'.step \in {"remove", "delete"} => disk = Absent
    BY <1>2 DEF Ends, Continues, Replaces
  <1> QED
    BY <1>1, <1>2, <1>3, <1>4, StillStep

LEMMA ConflictHeadSafe ==
    ASSUME TypeOK, TypeOK', Safe, ConflictHead
    PROVE  Safe'
  <1>1. run # NoRun /\ run \in Run /\ UNCHANGED <<disk, idxL, report, quiet>>
        /\ kept \subseteq kept' /\ phase' \in {phase, "offline"}
    BY DEF ConflictHead, At, AtKind, TypeOK, local, remote, position, view, index, ledger, watch, engine, spent, Outside
  <1>2. Ends(run, {"keep"}, queue \cup Waiting(run))
    <2>1. CASE hub = Absent
      <3>1. Agree(Absent, queue)
        BY <2>1 DEF ConflictHead
      <3> QED
        BY <3>1, AgreeEnds, MoreWaiting
    <2>2. CASE hub # Absent /\ hub \in {run.L, run.B}
      <3>1. Decided(NotPolled, queue)
        BY <2>2 DEF ConflictHead
      <3> QED
        BY <3>1, DecidedEnds, MoreWaiting
    <2>3. CASE hub # Absent /\ hub \notin {run.L, run.B}
      <3> DEFINE p == [run EXCEPT !.R = hub]
      <3>1. p \in Run /\ p.kind = run.kind /\ p.L = run.L /\ p.B = run.B
        BY <1>1, RunType DEF Run
      <3>2. Go(p, "keep", queue)
        BY <2>3 DEF ConflictHead
      <3> HIDE DEF p
      <3>3. Ends(p, {"keep"}, queue)
        BY <3>1, <3>2, GoEnds DEF Steps
      <3> QED
        BY <3>1, <3>3 DEF Ends, Continues, Pulls
    <2> QED
      BY <2>1, <2>2, <2>3
  <1>3. \A s \in {"keep"} : s \in Steps /\ run.kind \in KindsAt[s]
    BY DEF ConflictHead, At, AtKind, Safe, Stage, KindsAt, Steps
  <1>4. run' # NoRun /\ quiet => /\ Replaces(run') => Spare'
                                 /\ run'.step \in {"remove", "delete"} => disk = Absent
    BY <1>2 DEF Ends, Continues, Replaces
  <1> QED
    BY <1>1, <1>2, <1>3, <1>4, StillStep

LEMMA RevertFreshSafe ==
    ASSUME TypeOK, TypeOK', Safe, RevertFresh
    PROVE  Safe'
  <1>1. run # NoRun /\ run \in Run /\ UNCHANGED <<disk, idxL, report, quiet>>
        /\ kept \subseteq kept' /\ phase' \in {phase, "offline"}
    BY DEF RevertFresh, At, AtKind, TypeOK, local, remote, position, view, index, ledger, watch, engine, spent, Outside
  <1>2. Ends(run, {"keep"}, queue \cup Waiting(run))
    <2>1. RevertCheck(run, Polled, queue)
      BY DEF RevertFresh
    <2> QED
      BY <1>1, <2>1, RevertCheckEnds, MoreWaiting
  <1>3. \A s \in {"keep"} : s \in Steps /\ run.kind \in KindsAt[s]
    BY DEF RevertFresh, At, AtKind, Safe, Stage, KindsAt, Steps
  <1>4. run' # NoRun /\ quiet => /\ Replaces(run') => Spare'
                                 /\ run'.step \in {"remove", "delete"} => disk = Absent
    BY <1>2 DEF Ends, Continues, Replaces
  <1> QED
    BY <1>1, <1>2, <1>3, <1>4, StillStep

LEMMA KeepSafe ==
    ASSUME TypeOK, TypeOK', Safe, Keep
    PROVE  Safe'
  <1>1. run # NoRun /\ run \in Run /\ UNCHANGED <<disk, idxL, report, quiet>>
        /\ kept \subseteq kept' /\ phase' \in {phase, "offline"}
    BY DEF Keep, At, AtKind, TypeOK, local, remote, position, view, index, ledger, watch, engine, spent, Outside, Failed, Over, SetAside
  <1>0. PICK step : step = IF run.kind = "conflict" THEN "upload" ELSE "read"
    OBVIOUS
  <1>2. Ends(run, {step}, queue \cup Waiting(run))
    <2>1. CASE disk = Absent \/ disk # idxL
      <3>1. Over(queue \cup Waiting(run))
        BY <2>1 DEF Keep, Failed
      <3> QED
        BY <3>1, OverEnds
    <2>2. CASE ~(disk = Absent \/ disk # idxL)
      <3>1. Go(run, step, queue)
        BY <1>0, <2>2 DEF Keep
      <3>2. Ends(run, {step}, queue)
        BY <1>0, <1>1, <3>1, GoEnds DEF Steps
      <3> QED
        BY <3>2, MoreWaiting
    <2> QED
      BY <2>1, <2>2
  <1>3. \A s \in {step} : s \in Steps /\ run.kind \in KindsAt[s]
    BY <1>0 DEF Keep, At, AtKind, Safe, Stage, KindsAt, Steps
  <1>4. run' # NoRun /\ quiet => /\ Replaces(run') => Spare'
                                 /\ run'.step \in {"remove", "delete"} => disk = Absent
    <2>1. CASE disk = Absent \/ disk # idxL
      BY <2>1 DEF Keep, Failed, Over
    <2>2. CASE ~(disk = Absent \/ disk # idxL)
      <3>1. disk' \in kept'
        BY <1>1, <2>2 DEF Keep, SetAside
      <3> QED
        BY <1>0, <1>2, <3>1 DEF Ends, Continues, Spare
    <2> QED
      BY <2>1, <2>2
  <1> QED
    BY <1>1, <1>2, <1>3, <1>4, StillStep

LEMMA UploadSafe ==
    ASSUME TypeOK, TypeOK', Safe, Upload
    PROVE  Safe'
  <1>1. run # NoRun /\ run \in Run /\ UNCHANGED <<disk, idxL, report, quiet>>
        /\ kept \subseteq kept' /\ phase' \in {phase, "offline"}
    BY DEF Upload, At, AtKind, TypeOK, local, remote, position, view, index, ledger, watch, engine, spent, Outside
  <1>2. Ends(run, {"fresh"}, queue \cup Waiting(run))
    <2>1. CASE disk = idxL /\ disk # Absent
      <3>1. Go(run, "fresh", queue)
        BY <2>1 DEF Upload
      <3> QED
        BY <1>1, <3>1, GoEnds, MoreWaiting DEF Steps
    <2>2. CASE disk # idxL \/ disk = Absent
      <3>1. Over(queue \cup Waiting(run)) \/ Over(queue)
        BY <2>2 DEF Upload, Failed, Parked
      <3> QED
        BY <3>1, OverEnds, MoreWaiting
    <2> QED
      BY <2>1, <2>2
  <1>3. \A s \in {"fresh"} : s \in Steps /\ run.kind \in KindsAt[s]
    BY DEF Upload, At, AtKind, Safe, Stage, KindsAt, Steps
  <1>4. run' # NoRun /\ quiet => /\ Replaces(run') => Spare'
                                 /\ run'.step \in {"remove", "delete"} => disk = Absent
    <2>1. quiet => Spare
      BY DEF Upload, At, Safe, Guarded, Replaces
    <2>2. Spare => Spare'
      BY <1>1, <1>2 DEF Spare, Ends, Grows
    <2> QED
      BY <1>2, <2>1, <2>2 DEF Ends, Continues
  <1> QED
    BY <1>1, <1>2, <1>3, <1>4, StillStep

LEMMA ConflictFreshSafe ==
    ASSUME TypeOK, TypeOK', Safe, ConflictFresh
    PROVE  Safe'
  <1>1. run # NoRun /\ run \in Run /\ UNCHANGED <<disk, idxL, report, quiet>>
        /\ kept \subseteq kept' /\ phase' \in {phase, "offline"}
    BY DEF ConflictFresh, At, AtKind, TypeOK, local, remote, position, view, index, ledger, watch, engine, spent, Outside
  <1>2. Ends(run, {"read"}, queue \cup Waiting(run))
    <2> DEFINE v == IF idxR = run.R THEN NotPolled ELSE Polled
    <2>1. CASE v.idx = Absent
      <3>1. Again(queue)
        BY <2>1 DEF ConflictFresh
      <3> QED
        BY <3>1, AgainEnds, MoreWaiting
    <2>2. CASE v.idx # Absent
      <3>1. /\ run' = [run EXCEPT !.step = "read"]
            /\ UNCHANGED <<queue, ledger>>
        BY <2>2 DEF ConflictFresh
      <3> HIDE DEF v
      <3> QED
        BY <1>1, <3>1 DEF Ends, Continues, Grows, Pulls, ledger, Run
    <2> QED
      BY <2>1, <2>2
  <1>3. \A s \in {"read"} : s \in Steps /\ run.kind \in KindsAt[s]
    BY DEF ConflictFresh, At, AtKind, Safe, Stage, KindsAt, Steps
  <1>4. run' # NoRun /\ quiet => /\ Replaces(run') => Spare'
                                 /\ run'.step \in {"remove", "delete"} => disk = Absent
    <2>1. quiet => Spare
      BY DEF ConflictFresh, At, AtKind, Safe, Guarded, Replaces
    <2>2. Spare => Spare'
      BY <1>1, <1>2 DEF Spare, Ends, Grows
    <2> QED
      BY <1>2, <2>1, <2>2 DEF Ends, Continues
  <1> QED
    BY <1>1, <1>2, <1>3, <1>4, StillStep

LEMMA UnreachableSafe ==
    ASSUME TypeOK, TypeOK', Safe, Unreachable
    PROVE  Safe'
  <1>1. run # NoRun /\ run \in Run /\ UNCHANGED <<disk, idxL, report, quiet>>
        /\ kept \subseteq kept' /\ phase' \in {phase, "offline"}
    BY DEF Unreachable, At, AtKind, TypeOK, local, remote, position, view, index, ledger, watch, engine, spent, Outside
  <1>2. Ends(run, {}, queue \cup Waiting(run))
    <2>1. Over(queue \cup Waiting(run)) \/ Over(queue)
      BY DEF Unreachable, Failed, Parked
    <2> QED
      BY <2>1, OverEnds, MoreWaiting
  <1>3. \A s \in {} : s \in Steps /\ run.kind \in KindsAt[s]
    OBVIOUS
  <1>4. run' # NoRun /\ quiet => /\ Replaces(run') => Spare'
                                 /\ run'.step \in {"remove", "delete"} => disk = Absent
    BY <1>2 DEF Ends, Continues, Replaces
  <1> QED
    BY <1>1, <1>2, <1>3, <1>4, StillStep

LEMMA AnswerLostSafe ==
    ASSUME TypeOK, TypeOK', Safe, AnswerLost
    PROVE  Safe'
  <1>1. run # NoRun /\ run \in Run /\ UNCHANGED <<disk, idxL, report, quiet>>
        /\ kept \subseteq kept' /\ phase' \in {phase, "offline"}
    BY DEF AnswerLost, At, AtKind, TypeOK, local, remote, position, view, index, ledger, watch, engine, spent, Outside
  <1>2. Ends(run, {}, queue \cup Waiting(run))
    <2>1. Over(queue \cup Waiting(run)) \/ Over(queue)
      BY DEF AnswerLost, Failed, Parked
    <2> QED
      BY <2>1, OverEnds, MoreWaiting
  <1>3. \A s \in {} : s \in Steps /\ run.kind \in KindsAt[s]
    OBVIOUS
  <1>4. run' # NoRun /\ quiet => /\ Replaces(run') => Spare'
                                 /\ run'.step \in {"remove", "delete"} => disk = Absent
    BY <1>2 DEF Ends, Continues, Replaces
  <1> QED
    BY <1>1, <1>2, <1>3, <1>4, StillStep

\* The two segments that write the file end the job.
LEMMA PlaceSafe ==
    ASSUME TypeOK, TypeOK', Safe, Place
    PROVE  Safe'
  <1>1. Agree(run.R, queue)
    BY DEF Place
  <1>2. Ends(run, {}, queue) /\ run' = NoRun
    BY <1>1, AgreeEnds
  <1>3. Agreed' /\ Stage' /\ Guarded'
    BY <1>2 DEF Ends, Grows, Agreed, Stage, Guarded, Safe
  <1>4. Watched'
    BY <1>2 DEF Place, Watched, Safe, local, remote, position, view, index, ledger, watch, engine, spent, Outside
  <1>5. Pulling'
    BY <1>2 DEF Ends, Pulls, Pulling, Safe
  <1> QED
    BY <1>3, <1>4, <1>5 DEF Safe

LEMMA TrashPlanSafe ==
    ASSUME TypeOK, TypeOK', Safe, TrashPlan
    PROVE  Safe'
  <1>1. run # NoRun /\ run \in Run /\ UNCHANGED <<disk, idxL, report, quiet>>
        /\ kept \subseteq kept' /\ phase' \in {phase, "offline"}
    BY DEF TrashPlan, At, AtKind, TypeOK, local, remote, position, view, index, ledger, watch, engine, spent, Outside
  <1>2. Ends(run, {"trash"}, queue \cup Waiting(run))
    <2>1. CASE idxL = Absent
      <3>1. Forget(queue)
        BY <2>1 DEF TrashPlan
      <3> QED
        BY <3>1, ForgetEnds, MoreWaiting
    <2>2. CASE idxL # Absent
      <3> DEFINE p == [run EXCEPT !.src = idxL]
      <3>1. p \in Run /\ p.kind = run.kind /\ p.L = run.L /\ p.B = run.B
        BY <1>1 DEF Run, TypeOK
      <3>2. Go(p, "trash", queue)
        BY <2>2 DEF TrashPlan
      <3> HIDE DEF p
      <3>3. Ends(p, {"trash"}, queue)
        BY <3>1, <3>2, GoEnds DEF Steps
      <3> QED
        BY <3>1, <3>3 DEF Ends, Continues, Pulls
    <2> QED
      BY <2>1, <2>2
  <1>3. \A s \in {"trash"} : s \in Steps /\ run.kind \in KindsAt[s]
    BY DEF TrashPlan, At, AtKind, Safe, Stage, KindsAt, Steps
  <1>4. run' # NoRun /\ quiet => /\ Replaces(run') => Spare'
                                 /\ run'.step \in {"remove", "delete"} => disk = Absent
    BY <1>2 DEF Ends, Continues, Replaces
  <1> QED
    BY <1>1, <1>2, <1>3, <1>4, StillStep

LEMMA TrashSafe ==
    ASSUME TypeOK, TypeOK', Safe, Trash
    PROVE  Safe'
  <1>1. Ends(run, {}, queue \cup Waiting(run)) /\ run' = NoRun
    <2>1. Over(queue \cup Waiting(run)) \/ Forget(queue)
      BY DEF Trash, Failed
    <2> QED
      BY <2>1, OverEnds, ForgetEnds, MoreWaiting
  <1>2. Agreed' /\ Stage' /\ Guarded'
    BY <1>1 DEF Ends, Grows, Agreed, Stage, Guarded, Safe
  <1>3. disk' = Absent /\ run # NoRun /\ UNCHANGED <<report, quiet, phase>>
    BY DEF Trash, At, local, remote, position, view, index, ledger, watch, engine, spent, Outside
  <1>4. Watched'
    BY <1>1, <1>3 DEF Watched, Safe
  <1>5. Pulling'
    <2>1. Direction = "pull" => \A j \in queue \cup Waiting(run) : j.kind \in PullKinds
      BY <1>3 DEF Waiting, Safe, Pulling
    <2> QED
      BY <1>1, <2>1 DEF Ends, Pulls, Pulling
  <1> QED
    BY <1>2, <1>4, <1>5 DEF Safe

LEMMA UserWritesSafe ==
    ASSUME TypeOK, Safe, NEW c \in File, UserWrites(c)
    PROVE  Safe'
  <1>1. UNCHANGED <<base, agreed, queue, run, phase, idxL>> /\ quiet' = FALSE
        /\ report' = (phase # "down")
    BY DEF UserWrites, local, remote, position, view, index, ledger, watch, engine, spent, Outside
  <1>2. Watched'
    BY <1>1 DEF Watched, Safe
  <1>3. Stage' /\ Agreed' /\ Guarded' /\ Pulling'
    BY <1>1 DEF Safe, Stage, Agreed, Guarded, Pulling
  <1> QED
    BY <1>2, <1>3 DEF Safe

\* Steps beside the job.
LEMMA AsideSafe ==
    ASSUME TypeOK, TypeOK', Safe,
           \/ \E c \in File : ForeignWrites(c)
           \/ \E c \in Contents : Expire(c)
           \/ Watch \/ Poll \/ Started \/ TryOnline \/ FullReconcile \/ Start \/ Resync \/ GoOffline
    PROVE  Safe'
  <1>1. UNCHANGED <<disk, kept, run, quiet, base, agreed, queue>>
    BY DEF ForeignWrites, Expire, Watch, Poll, Started, TryOnline, FullReconcile, Start, Resync,
           GoOffline, local, remote, position, view, index, ledger, watch, engine, spent, Outside
  <1>2. ASSUME (\E c \in File : ForeignWrites(c)) \/ (\E c \in Contents : Expire(c)) \/ Poll
        PROVE  Watched'
    <2>1. UNCHANGED <<idxL, report, phase>>
      BY <1>2 DEF ForeignWrites, Expire, Poll, local, remote, position, view, index, ledger, watch, engine, spent, Outside
    <2> QED
      BY <1>1, <2>1 DEF Watched, Safe
  <1>3. ASSUME Watch
        PROVE  Watched'
    BY <1>1, <1>3 DEF Watch, Watched, Safe, local, remote, position, view, index, ledger, watch, engine, spent, Outside
  <1>4. ASSUME Started \/ TryOnline \/ GoOffline
        PROVE  Watched'
    <2>1. phase # "down" /\ phase' \in {"online", "offline"} /\ UNCHANGED <<idxL, report>>
      BY <1>4 DEF Started, TryOnline, GoOffline, local, remote, position, view, index, ledger, watch, engine, spent, Outside
    <2> QED
      BY <1>1, <2>1 DEF Watched, Safe
  <1>5. ASSUME FullReconcile \/ Start \/ Resync
        PROVE  Watched'
    BY <1>1, <1>5 DEF FullReconcile, Start, Resync, Watched, Safe, local, remote, position, view, index, ledger, watch, engine, spent, Outside
  <1>6. Watched'
    BY <1>2, <1>3, <1>4, <1>5
  <1> QED
    BY <1>1, <1>6, SameLedger, AsideStep

LEMMA ReconcileSafe ==
    ASSUME TypeOK, TypeOK', Safe, Reconcile
    PROVE  Safe'
  <1>1. UNCHANGED <<disk, kept, run, quiet, report, phase, idxL>>
    BY DEF Reconcile, local, remote, position, view, index, ledger, watch, engine, spent, Outside
  <1>2. Grows /\ Pulls(queue)
    <2>1. CASE dirty
      BY <2>1, ReconcileEnds DEF Reconcile
    <2>2. CASE ~dirty
      BY <2>2, SameLedger DEF Reconcile, ledger
    <2> QED
      BY <2>1, <2>2
  <1>3. Watched'
    BY <1>1 DEF Watched, Safe
  <1> QED
    BY <1>1, <1>2, <1>3, AsideStep

LEMMA CrashSafe ==
    ASSUME TypeOK, TypeOK', Safe, Crash \/ Stop
    PROVE  Safe'
  <1>1. /\ run' = NoRun /\ phase' = "down" /\ report' = FALSE
        /\ queue' = queue \cup Waiting(run) /\ UNCHANGED <<base, agreed>>
    BY DEF Crash, Stop, Down, local, remote, position, view, index, ledger, watch, engine, spent, Outside
  <1>2. Stage' /\ Agreed' /\ Watched' /\ Guarded'
    BY <1>1 DEF Safe, Stage, Agreed, Watched, Guarded
  <1>3. Direction = "pull" => \A j \in Waiting(run) : j.kind \in PullKinds
    BY DEF Waiting, Safe, Pulling
  <1>4. Pulling'
    BY <1>1, <1>3 DEF Safe, Pulling
  <1> QED
    BY <1>2, <1>4 DEF Safe

\* A job starts: quiet, if the watcher has reported all.
LEMMA TakeSafe ==
    ASSUME TypeOK, TypeOK', Safe, NEW j \in queue, Take(j)
    PROVE  Safe'
  <1> DEFINE r == [kind |-> j.kind, want |-> j.want, step |-> "first", L |-> idxL, B |-> base,
                   R |-> idxR, src |-> Absent, ours |-> FALSE]
             q == queue \ {j}
  <1>1. r \in Run /\ j.kind \in Kinds /\ idxL \in File
    BY DEF TypeOK, Run, Job, Steps, File
  <1>2. r.kind = j.kind /\ r.L = idxL /\ r.B = base
    OBVIOUS
  <1>3. /\ CASE j.kind = "push"          -> PushFirst(r, q)
             [] j.kind = "pull"          -> PullFirst(r, q)
             [] j.kind = "delete-remote" -> DeleteFirst(r, q)
             [] j.kind = "trash-local"   -> TrashFirst(r, q)
             [] j.kind = "conflict"      -> ConflictFirst(r, q)
             [] j.kind = "revert"        -> RevertFirst(r, q)
    BY DEF Take
  <1>4. /\ phase = "online" /\ phase' = phase /\ UNCHANGED <<disk, kept, idxL, report>>
        /\ quiet' = ~report
    BY DEF Take, local, remote, position, view, index, ledger, watch, engine, spent, Outside
  <1> HIDE DEF r
  <1>5. ASSUME ConflictFirst(r, q)
        PROVE  Ends(r, {"head"}, q)
    BY <1>1, <1>5, AgainEnds, GoEnds DEF ConflictFirst, Steps
  <1>6. Ends(r, FirstStep(j.kind), q)
    <2> HIDE DEF q
    <2>1. CASE j.kind = "push"
      BY <1>1, <1>3, <2>1, PushFirstEnds DEF FirstStep
    <2>2. CASE j.kind = "pull"
      BY <1>1, <1>3, <2>2, PullFirstEnds DEF FirstStep
    <2>3. CASE j.kind = "delete-remote"
      BY <1>1, <1>3, <2>3, DeleteFirstEnds DEF FirstStep
    <2>4. CASE j.kind = "trash-local"
      BY <1>1, <1>3, <2>4, TrashFirstEnds DEF FirstStep
    <2>5. CASE j.kind = "conflict"
      BY <1>1, <1>3, <1>5, <2>5 DEF FirstStep
    <2>6. CASE j.kind = "revert"
      BY <1>1, <1>3, <2>6, RevertFirstEnds DEF FirstStep
    <2> QED
      BY <1>1, <2>1, <2>2, <2>3, <2>4, <2>5, <2>6 DEF Kinds
  <1>7. FirstStep(j.kind) \subseteq Steps /\ \A s \in FirstStep(j.kind) : j.kind \in KindsAt[s]
    BY <1>1 DEF FirstStep, KindsAt, Steps, Kinds
  <1>8. Stage'
    BY <1>2, <1>6, <1>7 DEF Ends, Continues, Stage
  <1>9. Agreed'
    BY <1>2, <1>6 DEF Ends, Continues, Grows, Agreed, Safe
  <1>10. Watched'
    BY <1>4 DEF Watched, Safe
  <1>11. ASSUME run' # NoRun, quiet'
         PROVE  (Replaces(run') => Spare') /\ (run'.step \in {"remove", "delete"} => disk' = Absent)
    <2>1. idxL = disk \/ disk = Absent
      BY <1>4, <1>11 DEF Watched, Safe
    <2>2. ASSUME run'.step \in {"remove", "delete"}
          PROVE  disk' = Absent
      <3>1. j.kind = "delete-remote"
        BY <1>1, <1>6, <1>11, <2>2 DEF Ends, Continues, FirstStep, Kinds
      <3>2. r.L = Absent
        BY <1>1, <1>3, <1>11, <3>1, DeleteFirstEnds
      <3> QED
        BY <1>2, <1>4, <2>1, <3>2
    <2>3. ASSUME Replaces(run')
          PROVE  Spare'
      <3>1. j.kind = "pull" /\ run'.step = "read"
        BY <1>1, <1>2, <1>6, <1>11, <2>3 DEF Ends, Continues, FirstStep, Kinds, Replaces
      <3>2. idxL \in {Absent, base}
        BY <1>1, <1>3, <1>11, <3>1, PullFirstEnds
      <3>3. base \in agreed \cup {Absent} /\ agreed \subseteq agreed'
        BY <1>6 DEF Ends, Grows, Safe, Agreed
      <3> QED
        BY <1>4, <2>1, <3>2, <3>3 DEF Spare
    <2> QED
      BY <2>2, <2>3
  <1>12. Pulling'
    BY <1>2, <1>6 DEF Ends, Continues, Pulls, Pulling, Safe
  <1> QED
    BY <1>8, <1>9, <1>10, <1>11, <1>12 DEF Safe, Guarded

LEMMA SafeStep ==
    ASSUME TypeOK, Safe, [Next]_vars
    PROVE  TypeOK' /\ Safe'
  <1>0. TypeOK'
    BY TypeStep DEF Safe
  <1>1. CASE Environment
    BY <1>0, <1>1, UserWritesSafe, AsideSafe, CrashSafe, UnreachableSafe, AnswerLostSafe
       DEF Environment
  <1>2. CASE Segment
    BY <1>0, <1>2, PushHeadSafe, PushSendSafe, PushPlanSafe, PushPutSafe, PutChangedSafe,
       PushCommitSafe, RedecideSafe, PullFreshSafe, FetchPlanSafe, FetchSafe, FetchGoneSafe,
       PlaceSafe, DeletePlanSafe, DeleteHubSafe, DeleteCommitSafe, TrashPlanSafe, TrashSafe,
       ConflictHeadSafe, KeepSafe, UploadSafe, ConflictFreshSafe, RevertFreshSafe DEF Segment
  <1>3. CASE Watch \/ Poll \/ Reconcile \/ Start \/ Started \/ TryOnline \/ FullReconcile
    BY <1>0, <1>3, AsideSafe, ReconcileSafe
  <1>4. CASE (\E c \in Contents : Expire(c)) \/ (\E j \in queue : Take(j))
    BY <1>0, <1>4, AsideSafe, TakeSafe
  <1>5. CASE UNCHANGED vars
    <2>1. UNCHANGED <<disk, kept, idxL, base, agreed, queue, run, phase, report, quiet>>
      BY <1>5 DEF vars, local, remote, position, view, index, ledger, watch, engine, spent, Outside
    <2>2. Stage' /\ Agreed' /\ Watched' /\ Guarded' /\ Pulling'
      BY <2>1 DEF Safe, Stage, Agreed, Watched, Guarded, Pulling, Replaces, Spare
    <2> QED
      BY <1>0, <2>2 DEF Safe
  <1> QED
    BY <1>1, <1>2, <1>3, <1>4, <1>5 DEF Next

\* The state of the mirror keeps its type, whatever the two sides, the faults
\* and the worker do.
THEOREM TypeCorrect == Spec => []TypeOK
  <1>1. Init => TypeOK /\ Safe
    BY InitType, InitSafe
  <1>2. TypeOK /\ Safe /\ [Next]_vars => (TypeOK /\ Safe)'
    BY SafeStep
  <1> QED
    BY <1>1, <1>2, PTL DEF Spec

\* What a job relies on between its awaits: it is at a step of its kind, the
\* base it read was agreed on, and while nobody disturbed it the file it is to
\* replace or whose deletion it forwards is what it decided on.
THEOREM SafeCorrect == Spec => []Safe
  <1>1. Init => TypeOK /\ Safe
    BY InitType, InitSafe
  <1>2. TypeOK /\ Safe /\ [Next]_vars => (TypeOK /\ Safe)'
    BY SafeStep
  <1> QED
    BY <1>1, <1>2, PTL DEF Spec

-----------------------------------------------------------------------------
(* What is written, replaced and deleted                                     *)

\* Only these steps change the hub's object, ...
LEMMA HubWriters ==
    ASSUME [Next]_vars, hub' # hub
    PROVE  \/ \E c \in File : ForeignWrites(c)
           \/ PushPut /\ Precondition /\ HubTakes(run.src)
           \/ DeleteHub /\ (hub = Absent \/ Precondition) /\ HubTakes(Absent)
           \/ AnswerLost
  <1>1. CASE Environment
    BY <1>1 DEF Environment, UserWrites, Crash, Stop, GoOffline, Unreachable, Resync, local, remote, position, view, index, ledger, watch, engine, spent, Outside
  <1>2. CASE Segment
    <2>1. PushPut \/ DeleteHub
      BY <1>2 DEF Segment, PushHead, PushSend, FetchPlan, DeletePlan, TrashPlan, PushPlan, PutChanged, PushCommit, Redecide, PullFresh, Fetch,
         FetchGone, Place, DeleteCommit, Trash, ConflictHead, Keep, Upload, ConflictFresh,
         RevertFresh, local, remote, position, view, index, ledger, watch, engine, spent, Outside
    <2>2. ASSUME PushPut
          PROVE  Precondition /\ HubTakes(run.src)
      BY <2>2 DEF PushPut, remote
    <2>3. ASSUME DeleteHub
          PROVE  (hub = Absent \/ Precondition) /\ HubTakes(Absent)
      BY <2>3 DEF DeleteHub, remote
    <2> QED
      BY <2>1, <2>2, <2>3
  <1>3. CASE Watch \/ Poll \/ Reconcile \/ Start \/ Started \/ TryOnline \/ FullReconcile
    BY <1>3 DEF Watch, Poll, Reconcile, Start, Started, TryOnline, FullReconcile, local, remote, position, view, index, ledger, watch, engine, spent, Outside
  <1>4. CASE (\E c \in Contents : Expire(c)) \/ (\E j \in queue : Take(j))
    BY <1>4 DEF Expire, Take, local, remote, position, view, index, ledger, watch, engine, spent, Outside
  <1>5. CASE UNCHANGED vars
    BY <1>5 DEF vars, local, remote, position, view, index, ledger, watch, engine, spent, Outside
  <1> QED
    BY <1>1, <1>2, <1>3, <1>4, <1>5 DEF Next

\* ... and only these the local file.
LEMMA FileWriters ==
    ASSUME [Next]_vars, disk' # disk
    PROVE  (\E c \in File : UserWrites(c)) \/ Place \/ Trash
  <1>1. CASE Environment
    BY <1>1 DEF Environment, ForeignWrites, Crash, Stop, GoOffline, Unreachable, AnswerLost,
       Resync, local, remote, position, view, index, ledger, watch, engine, spent, Outside
  <1>2. CASE Segment
    BY <1>2 DEF Segment, PushHead, PushSend, FetchPlan, DeletePlan, TrashPlan, PushPlan, PushPut, PutChanged, PushCommit, Redecide, PullFresh,
       Fetch, FetchGone, DeleteHub, DeleteCommit, ConflictHead, Keep, Upload,
       ConflictFresh, RevertFresh, local, remote, position, view, index, ledger, watch, engine, spent, Outside
  <1>3. CASE Watch \/ Poll \/ Reconcile \/ Start \/ Started \/ TryOnline \/ FullReconcile
    BY <1>3 DEF Watch, Poll, Reconcile, Start, Started, TryOnline, FullReconcile, local, remote, position, view, index, ledger, watch, engine, spent, Outside
  <1>4. CASE (\E c \in Contents : Expire(c)) \/ (\E j \in queue : Take(j))
    BY <1>4 DEF Expire, Take, local, remote, position, view, index, ledger, watch, engine, spent, Outside
  <1>5. CASE UNCHANGED vars
    BY <1>5 DEF vars, local, remote, position, view, index, ledger, watch, engine, spent, Outside
  <1> QED
    BY <1>1, <1>2, <1>3, <1>4, <1>5 DEF Next

LEMMA HubWriteStep ==
    ASSUME TypeOK, Safe, [Next]_vars, hub' # hub, foreign' = foreign
    PROVE  hub \in agreed \cup {Absent}
  <1>1. ASSUME NEW c \in File, ForeignWrites(c)
        PROVE  FALSE
    BY <1>1 DEF ForeignWrites, TypeOK
  <1>2. run # NoRun /\ (hub = Absent \/ hub = run.B)
    BY <1>1, HubWriters DEF PushPut, DeleteHub, AnswerLost, At, Precondition
  <1> QED
    BY <1>2 DEF Safe, Agreed

\* NoBlindHubWrite for every mirror: the device replaces or deletes only hub
\* versions that its ledger had agreed on (the If-Match of put and delete).
THEOREM NoBlindHubWriteCorrect == Spec => NoBlindHubWrite
  <1>1. TypeOK /\ Safe /\ [Next]_vars
          => [hub' # hub /\ foreign' = foreign => hub \in agreed \cup {Absent}]_vars
    BY HubWriteStep
  <1> QED
    BY <1>1, TypeCorrect, SafeCorrect, PTL DEF Spec, NoBlindHubWrite

LEMMA FileWriteStep ==
    ASSUME TypeOK, Safe, [Next]_vars, disk' # disk, user' = user, quiet
    PROVE  disk \in agreed \cup kept' \cup {Absent}
  <1>1. ASSUME NEW c \in File, UserWrites(c)
        PROVE  FALSE
    BY <1>1 DEF UserWrites, TypeOK
  <1>2. ASSUME Place
        PROVE  disk \in agreed \cup kept' \cup {Absent}
    BY <1>2 DEF Place, At, Safe, Guarded, Replaces, Spare
  <1>3. ASSUME Trash
        PROVE  disk \in agreed \cup kept' \cup {Absent}
    BY <1>3 DEF Trash, SetAside, local
  <1> QED
    BY <1>1, <1>2, <1>3, FileWriters

\* LocalBytesKept for every mirror: what a job takes away from the local file
\* was agreed on with the hub or is set aside.
THEOREM LocalBytesKeptCorrect == Spec => LocalBytesKept
  <1>1. TypeOK /\ Safe /\ [Next]_vars
          => [disk' # disk /\ user' = user /\ quiet => disk \in agreed \cup kept' \cup {Absent}]_vars
    BY FileWriteStep
  <1> QED
    BY <1>1, TypeCorrect, SafeCorrect, PTL DEF Spec, LocalBytesKept

LEMMA DeleteStep ==
    ASSUME TypeOK, Safe, [Next]_vars, hub' = Absent, hub # Absent, foreign' = foreign, quiet
    PROVE  disk = Absent
  <1>1. ASSUME NEW c \in File, ForeignWrites(c)
        PROVE  FALSE
    BY <1>1 DEF ForeignWrites, TypeOK
  <1>2. ASSUME (PushPut /\ HubTakes(run.src)) \/ AnswerLost
        PROVE  disk = Absent
    BY <1>2 DEF PushPut, AnswerLost, HubTakes
  <1>3. ASSUME DeleteHub
        PROVE  disk = Absent
    BY <1>3 DEF DeleteHub, At, Safe, Guarded
  <1> QED
    BY <1>1, <1>2, <1>3, HubWriters

\* DeleteFollowsUser for every mirror: the hub's object is deleted only while
\* the local file is gone.
THEOREM DeleteFollowsUserCorrect == Spec => DeleteFollowsUser
  <1>1. TypeOK /\ Safe /\ [Next]_vars
          => [hub' = Absent /\ hub # Absent /\ foreign' = foreign /\ quiet => disk = Absent]_vars
    BY DeleteStep
  <1> QED
    BY <1>1, TypeCorrect, SafeCorrect, PTL DEF Spec, DeleteFollowsUser

LEMMA PullStep ==
    ASSUME Direction = "pull", TypeOK, Safe, [Next]_vars, hub' # hub
    PROVE  foreign' # foreign
  <1>1. ASSUME NEW c \in File, ForeignWrites(c)
        PROVE  foreign' # foreign
    BY <1>1 DEF ForeignWrites, TypeOK
  <1>2. ASSUME PushPut \/ AnswerLost \/ DeleteHub
        PROVE  FALSE
    BY <1>2 DEF PushPut, AnswerLost, DeleteHub, At, Safe, Stage, Pulling, PullKinds, KindsAt, Steps
  <1> QED
    BY <1>1, <1>2, HubWriters

\* PullNeverWritesHub for every mirror of direction "pull".
THEOREM PullCorrect ==
    ASSUME Direction = "pull"
    PROVE  Spec => PullNeverWritesHub
  <1>1. TypeOK /\ Safe /\ [Next]_vars => [hub' # hub => foreign' # foreign]_vars
    BY PullStep
  <1> QED
    BY <1>1, TypeCorrect, SafeCorrect, PTL DEF Spec, PullNeverWritesHub

-----------------------------------------------------------------------------
(* Nothing is forgotten                                                      *)

\* A waiting job that ends without a look at what the two sides hold.
Vain(j) ==
    \/ j.kind = "delete-remote" /\ (base = Absent \/ idxL # Absent)
    \/ j.kind = "trash-local" /\ idxL = Absent

\* A difference somebody is to look at: a pass, the watcher, a waiting job, ...
Cared == idxL = idxR \/ dirty \/ report \/ \E j \in queue : ~Vain(j)

\* ... or else the job in flight, which still sees what it was taken on.
OnIt ==
    /\ run # NoRun
    /\ idxL = run.L /\ base = run.B
    /\ ~Vain(run) /\ ~run.ours
    /\ run.step \in {"plan", "put", "trash"} => run.src = idxL

\* What a job knows of the two sides by the time it acts on them.
Known(r) ==
    /\ r.kind = "push" => r.L # Absent
    /\ r.step = "redecide" => r.R # r.B
    /\ r.step \in {"keep", "upload", "read", "fetch", "place"} => r.R # Absent
    /\ r.step = "fresh" /\ r.kind = "conflict" => r.R # Absent

Up == phase \in {"online", "offline"}
Remembered ==
    /\ run # NoRun => Known(run)
    /\ Up => cursor # "none" /\ (voided \/ Cared \/ OnIt)

\* The mirrors it holds for: they write both ways, forward deletes, and do not
\* start without the hub.
BothWays == Direction = "bi" /\ Deletes = "propagate" /\ "offline start" \notin Faults

LEMMA InitRemembered ==
    ASSUME Init
    PROVE  Remembered
  BY DEF Init, Remembered, Up

\* A pass leaves no difference without a job for it.
LEMMA ReconcileCares ==
    ASSUME BothWays, TypeOK, NEW q \in SUBSET Job, NEW R \in File, ReconcileKey(q, R), UNCHANGED idxL
    PROVE  voided' = FALSE /\ (idxL = R \/ \E j \in queue' : ~Vain(j)')
  <1>0. PICK d : d = Decide(idxL, base, R)
    OBVIOUS
  <1>1. Directed(Decide(idxL, base, R), R) = d /\ ~(d = "delete-remote" /\ Deletes = "keep")
    BY <1>0, DecideRange DEF Directed, BothWays
  <1>2. voided' = FALSE
    BY DEF ReconcileKey
  <1>3. /\ d \in {"push", "conflict", "delete-remote", "trash-local"} => Enqueue(q, d, Absent)
        /\ d = "pull" => Enqueue(q, d, R)
        /\ d \in {"delete-remote", "trash-local"} => UNCHANGED base
    <2> DEFINE e == Directed(Decide(idxL, base, R), R)
               keep == e = "delete-remote" /\ Deletes = "keep"
    <2>1. /\ CASE e = "nothing" \/ keep         -> queue' = q
             [] e \in {"skip", "adopt"}       -> queue' = {}
             [] e \in {"pull", "revert"}      -> Enqueue(q, e, R)
             [] e \in Kinds \ {"pull", "revert"} /\ ~keep -> Enqueue(q, e, Absent)
          /\ CASE e = "adopt"                   -> SetBase(idxL)
             [] keep \/ (e = "push" /\ R # base) -> SetBase(Absent)
             [] OTHER                         -> UNCHANGED <<base, agreed>>
      BY DEF ReconcileKey
    <2>2. e = d /\ ~keep
      BY <1>1
    <2> HIDE DEF e
    <2> QED
      BY <2>1, <2>2 DEF Kinds
  <1>4. CASE idxL = R
    BY <1>2, <1>4
  <1>5. ASSUME idxL # R, d \in {"push", "pull", "conflict"}
        PROVE  \E j \in queue' : ~Vain(j)'
    <2>1. PICK want, older : queue' = older \cup {[kind |-> d, want |-> want]}
      BY <1>3, <1>5 DEF Enqueue
    <2>2. PICK job : job = [kind |-> d, want |-> want]
      OBVIOUS
    <2>3. job \in queue' /\ job.kind = d
      BY <2>1, <2>2
    <2>4. ~Vain(job)'
      BY <1>5, <2>3 DEF Vain
    <2> QED
      BY <2>3, <2>4
  <1>6. ASSUME idxL # R, d \in {"delete-remote", "trash-local"}
        PROVE  \E j \in queue' : ~Vain(j)'
    <2>1. base' = base
      BY <1>3, <1>6
    <2>0. PICK job : job = [kind |-> d, want |-> Absent]
      OBVIOUS
    <2>2. job \in queue' /\ job.kind = d
      BY <1>3, <1>6, <2>0 DEF Enqueue
    <2>3. (d = "delete-remote" => idxL = Absent /\ base # Absent) /\ (d = "trash-local" => idxL # Absent)
      BY <1>0, <1>6 DEF Decide
    <2>4. ~Vain(job)'
      BY <1>6, <2>1, <2>2, <2>3 DEF Vain
    <2> QED
      BY <2>2, <2>4
  <1>7. idxL # R => d \in {"push", "pull", "conflict", "delete-remote", "trash-local"}
    BY <1>0 DEF Decide
  <1> QED
    BY <1>2, <1>4, <1>5, <1>6, <1>7

\* How a job ends, and what is left to be done.
LEMMA AgainRemembered ==
    ASSUME Remembered, run' = NoRun, dirty' = TRUE, UNCHANGED cursor, Up' => Up
    PROVE  Remembered'
  BY DEF Remembered, Cared, OnIt, Up

LEMMA DecidedRemembered ==
    ASSUME BothWays, TypeOK, Remembered, NEW v \in View, NEW q \in SUBSET Job, Decided(v, q),
           idxR' = v.idx, UNCHANGED <<idxL, cursor>>, Up' => Up
    PROVE  Remembered'
  <1>1. v.idx \in File /\ run' = NoRun /\ ReconcileKey(q, v.idx)
    BY DEF View, Decided
  <1>2. idxL = v.idx \/ \E j \in queue' : ~Vain(j)'
    BY <1>1, ReconcileCares
  <1>3. Cared'
    BY <1>2 DEF Cared
  <1> QED
    BY <1>1, <1>3 DEF Remembered, OnIt, Up

LEMMA FailedRemembered ==
    ASSUME TypeOK, Remembered, run # NoRun, Failed, UNCHANGED <<index, report, cursor>>, Up' => Up
    PROVE  Remembered'
  <1>1. run' = NoRun /\ queue' = queue \cup Waiting(run) /\ UNCHANGED <<dirty, ledger>>
    BY DEF Failed, Over
  <1>2. Cared => Cared'
    BY <1>1 DEF Cared, Vain, index, ledger
  <1>3. OnIt => Cared'
    <2>1. [kind |-> run.kind, want |-> run.want] \in queue'
      BY <1>1 DEF Waiting
    <2>2. PICK j \in queue' : j.kind = run.kind
      BY <2>1
    <2>3. OnIt => ~Vain(j)'
      BY <1>1, <2>2 DEF OnIt, Vain, index, ledger
    <2> QED
      BY <2>2, <2>3 DEF Cared
  <1> QED
    BY <1>1, <1>2, <1>3 DEF Remembered, OnIt, Up, ledger

\* The base written, with the hub's object or without one: a delete-remote that
\* waits is as much needed as it was.
LEMMA AgreeRemembered ==
    ASSUME TypeOK, Remembered, NEW b, Agree(b, queue), b # Absent \/ idxL # Absent \/ idxL = idxR,
           voided \/ Cared, UNCHANGED <<index, report, cursor, dirty>>, Up' => Up
    PROVE  Remembered'
  <1>1. run' = NoRun /\ base' = b /\ UNCHANGED <<queue, voided>>
    BY DEF Agree, SetBase
  <1>2. Cared => Cared'
    BY <1>1 DEF Cared, Vain, index
  <1> QED
    BY <1>1, <1>2 DEF Remembered, OnIt, Up

LEMMA ForgetRemembered ==
    ASSUME TypeOK, Remembered, NEW q, Forget(q), UNCHANGED <<index, report, cursor, dirty>>, Up' => Up,
           voided \/ idxL = idxR \/ dirty \/ report \/ \E j \in q : ~Vain(j)
    PROVE  Remembered'
  <1>1. /\ run' = NoRun /\ queue' = q /\ base' = Absent
        /\ voided' = (voided \/ (base # Absent /\ \E j \in q : j.kind = "delete-remote"))
    BY DEF Forget, SetBase
  <1>2. ASSUME NEW j \in q, ~Vain(j), ~voided'
        PROVE  ~Vain(j)'
    BY <1>1, <1>2 DEF Vain, index, TypeOK
  <1>3. voided' \/ Cared'
    BY <1>1, <1>2 DEF Cared, index, TypeOK
  <1> QED
    BY <1>1, <1>3 DEF Remembered, OnIt, Up

\* A job goes on.
LEMMA GoesOn ==
    ASSUME TypeOK, Remembered, run # NoRun, run' # NoRun, Known(run'),
           UNCHANGED <<idxL, base, queue, voided, report, cursor>>, Up' => Up,
           idxR' = idxR \/ dirty', dirty => dirty',
           run'.kind = run.kind, run'.L = run.L, run'.B = run.B,
           run'.ours => run.ours \/ idxL = idxR,
           run'.step \in {"plan", "put", "trash"} =>
               run'.src = idxL \/ (run.step \in {"plan", "put", "trash"} /\ run'.src = run.src)
    PROVE  Remembered'
  <1>1. Cared => Cared'
    BY DEF Cared, Vain
  <1>2. OnIt /\ ~Cared => OnIt'
    BY DEF OnIt, Vain, Cared
  <1>3. (run # NoRun => Known(run))'
    OBVIOUS
  <1> QED
    BY <1>1, <1>2, <1>3 DEF Remembered, Up

\* The same for a job that goes on as Go says.
LEMMA GoRemembered ==
    ASSUME TypeOK, Remembered, run # NoRun, NEW r \in Run, NEW step \in Steps, Go(r, step, queue),
           Known([r EXCEPT !.step = step]), UNCHANGED <<index, report, cursor>>, Up' => Up,
           r.kind = run.kind, r.L = run.L, r.B = run.B, r.ours => run.ours \/ idxL = idxR,
           step \in {"plan", "put", "trash"} =>
               r.src = idxL \/ (run.step \in {"plan", "put", "trash"} /\ r.src = run.src)
    PROVE  Remembered'
  <1>1. run' = [r EXCEPT !.step = step] /\ UNCHANGED <<queue, ledger, dirty>>
    BY DEF Go
  <1>2. run' # NoRun
    BY <1>1, NoRunAssumption DEF Run
  <1>3. /\ run'.kind = r.kind /\ run'.L = r.L /\ run'.B = r.B /\ run'.ours = r.ours
        /\ run'.src = r.src /\ run'.step = step
    BY <1>1 DEF Run
  <1>4. Known(run')
    BY <1>1
  <1> QED
    BY <1>1, <1>2, <1>3, <1>4, GoesOn DEF index, ledger

\* A job runs while the mirror is up, the watcher reports what is unseen.
LEMMA SegmentUp ==
    ASSUME Safe, run # NoRun
    PROVE  Up /\ (report \/ idxL = disk \/ disk = Absent)
  BY DEF Safe, Watched, Up

LEMMA PushHeadRemembered ==
    ASSUME TypeOK, Safe, Remembered, PushHead
    PROVE  Remembered'
  <1>1. run # NoRun /\ run \in Run /\ Known(run) /\ Up /\ UNCHANGED <<index, report, cursor>>
    BY SegmentUp DEF PushHead, At, AtKind, TypeOK, Remembered, position, view, index, watch, Outside
  <1>2. CASE hub # run.B
    <2>0. PICK r : r = [run EXCEPT !.R = hub]
      OBVIOUS
    <2>1. /\ r \in Run /\ r.kind = run.kind /\ r.L = run.L /\ r.B = run.B
          /\ r.R = hub /\ r.ours = run.ours /\ r.src = run.src
      BY <1>1, <2>0 DEF Run, TypeOK
    <2>2. Go(r, "redecide", queue)
      BY <1>2, <2>0 DEF PushHead
    <2>3. Known([r EXCEPT !.step = "redecide"])
      BY <1>1, <1>2, <2>1 DEF Known, Run, PushHead, At, AtKind
    <2> QED
      BY <1>1, <2>1, <2>2, <2>3, GoRemembered DEF Steps
  <1>3. CASE hub = run.B
    <2>1. Go(run, "send", queue)
      BY <1>3 DEF PushHead
    <2>2. Known([run EXCEPT !.step = "send"])
      BY <1>1, <1>3 DEF Known, Run, PushHead, At, AtKind
    <2>3. "send" \in {"plan", "put", "trash"} => run.step \in {"plan", "put", "trash"}
      BY DEF PushHead, At, AtKind
    <2> QED
      BY <1>1, <2>1, <2>2, <2>3, GoRemembered DEF Steps
  <1> QED
    BY <1>2, <1>3

LEMMA PushSendRemembered ==
    ASSUME TypeOK, Safe, Remembered, PushSend
    PROVE  Remembered'
  <1>1. run # NoRun /\ run \in Run /\ Known(run) /\ Up /\ UNCHANGED <<index, report, cursor>>
    BY SegmentUp DEF PushSend, At, AtKind, TypeOK, Remembered, position, view, index, watch, Outside
  <1>2. CASE idxL = Absent
    BY <1>1, <1>2, AgainRemembered DEF PushSend, Again, Up
  <1>3. CASE idxL # Absent
    <2>0. PICK r : r = [run EXCEPT !.src = idxL, !.ours = (idxL = idxR)]
      OBVIOUS
    <2>1. /\ r \in Run /\ r.kind = run.kind /\ r.L = run.L /\ r.B = run.B
          /\ r.src = idxL /\ (r.ours => idxL = idxR)
      BY <1>1, <2>0 DEF Run, TypeOK
    <2>2. Go(r, "plan", queue)
      BY <1>3, <2>0 DEF PushSend
    <2>3. Known([r EXCEPT !.step = "plan"])
      BY <1>1, <1>3, <2>1 DEF Known, Run, PushSend, At, AtKind
    <2> QED
      BY <1>1, <2>1, <2>2, <2>3, GoRemembered DEF Steps
  <1> QED
    BY <1>2, <1>3

LEMMA PushPlanRemembered ==
    ASSUME TypeOK, Safe, Remembered, PushPlan
    PROVE  Remembered'
  <1>1. run # NoRun /\ run \in Run /\ Known(run) /\ Up /\ UNCHANGED <<index, report, cursor>>
    BY SegmentUp DEF PushPlan, At, AtKind, TypeOK, Remembered, position, view, index, watch, Outside
  <1>2. CASE run.ours /\ hub # Absent
    <2>1. voided \/ Cared
      BY <1>1, <1>2 DEF Remembered, OnIt
    <2>2. Agree(run.L, queue) /\ UNCHANGED dirty /\ run.L # Absent
      BY <1>1, <1>2 DEF PushPlan, At, Safe, Stage, KindsAt, Steps, Known
    <2> QED
      BY <1>1, <2>1, <2>2, AgreeRemembered
  <1>3. CASE ~(run.ours /\ hub # Absent)
    <2>1. Go(run, "put", queue)
      BY <1>3 DEF PushPlan
    <2>2. Known([run EXCEPT !.step = "put"])
      BY <1>1, <1>3 DEF Known, Run, PushPlan, At, AtKind
    <2>3. "put" \in {"plan", "put", "trash"} => run.step \in {"plan", "put", "trash"}
      BY DEF PushPlan, At, AtKind
    <2> QED
      BY <1>1, <2>1, <2>2, <2>3, GoRemembered DEF Steps
  <1> QED
    BY <1>2, <1>3

LEMMA PushPutRemembered ==
    ASSUME TypeOK, Safe, Remembered, PushPut
    PROVE  Remembered'
  <1>1. run # NoRun /\ run \in Run /\ Known(run) /\ Up /\ UNCHANGED <<index, report, cursor>>
    BY SegmentUp DEF PushPut, At, AtKind, TypeOK, Remembered, position, view, index, watch, Outside
  <1>2. CASE Precondition
    <2>1. Go(run, "commit", queue)
      BY <1>2 DEF PushPut
    <2>2. Known([run EXCEPT !.step = "commit"])
      BY <1>1, <1>2 DEF Known, Run, PushPut, At, AtKind
    <2>3. "commit" \in {"plan", "put", "trash"} => run.step \in {"plan", "put", "trash"}
      BY DEF PushPut, At, AtKind
    <2> QED
      BY <1>1, <2>1, <2>2, <2>3, GoRemembered DEF Steps
  <1>3. CASE ~Precondition
    <2>0. PICK r : r = [run EXCEPT !.R = hub]
      OBVIOUS
    <2>1. /\ r \in Run /\ r.kind = run.kind /\ r.L = run.L /\ r.B = run.B
          /\ r.R = hub /\ r.ours = run.ours /\ r.src = run.src
      BY <1>1, <2>0 DEF Run, TypeOK
    <2>2. Go(r, "redecide", queue)
      BY <1>3, <2>0 DEF PushPut
    <2>3. Known([r EXCEPT !.step = "redecide"])
      BY <1>1, <1>3, <2>1 DEF Known, Run, PushPut, Precondition, At, AtKind
    <2> QED
      BY <1>1, <2>1, <2>2, <2>3, GoRemembered DEF Steps
  <1> QED
    BY <1>2, <1>3

LEMMA PutChangedRemembered ==
    ASSUME TypeOK, Safe, Remembered, PutChanged
    PROVE  Remembered'
  <1>1. run # NoRun /\ run \in Run /\ Known(run) /\ Up /\ UNCHANGED <<index, report, cursor>>
    BY SegmentUp DEF PutChanged, At, AtKind, TypeOK, Remembered, position, view, index, watch, Outside
  <1>2. CASE Failed
    BY <1>1, <1>2, FailedRemembered
  <1>3. CASE disk # Absent /\ Parked
    <2>1. OnIt => report
      BY <1>3 DEF PutChanged, At, OnIt, Safe, Watched
    <2>2. run' = NoRun /\ UNCHANGED <<queue, ledger, dirty>>
      BY <1>3 DEF Parked, Over
    <2>3. voided' \/ Cared'
      BY <1>1, <2>1, <2>2 DEF Remembered, Cared, Vain, index, ledger
    <2> QED
      BY <1>1, <2>2, <2>3 DEF Remembered, OnIt, Up
  <1> QED
    BY <1>2, <1>3 DEF PutChanged

LEMMA PushCommitRemembered ==
    ASSUME TypeOK, Safe, Remembered, PushCommit
    PROVE  Remembered'
  <1>1. run # NoRun /\ run \in Run /\ Known(run) /\ Up /\ UNCHANGED <<cursor>>
    BY SegmentUp DEF PushCommit, At, AtKind, TypeOK, Remembered, position, view, index, watch, Outside
  <1> QED
    BY <1>1, AgainRemembered DEF PushCommit, Agree, Up

LEMMA RedecideRemembered ==
    ASSUME BothWays, TypeOK, Safe, Remembered, Redecide
    PROVE  Remembered'
  <1>1. run # NoRun /\ run \in Run /\ Known(run) /\ Up /\ UNCHANGED <<idxL, report, cursor>>
    BY SegmentUp DEF Redecide, At, AtKind, TypeOK, Remembered, position, view, index, watch, Outside
  <1>2. PICK v : v = IF idxR = run.R THEN NotPolled ELSE Polled
    OBVIOUS
  <1>3. v \in View /\ Told(v)
    BY <1>2, NotPolledType, PolledFits
  <1>4. PICK d : d = Decide(idxL, base, run.R)
    OBVIOUS
  <1>5. /\ idxR' = v.idx
        /\ IF d \in {"adopt", "push", "delete-remote"} THEN Decided(v, queue)
           ELSE /\ run' = NoRun
                /\ IF d = "nothing" THEN UNCHANGED queue
                   ELSE Enqueue(queue, d, IF d = "pull" THEN run.R ELSE Absent)
                /\ dirty' = (dirty \/ v.news)
                /\ UNCHANGED ledger
    BY <1>2, <1>4 DEF Redecide, Show
  <1>6. CASE d \in {"adopt", "push", "delete-remote"}
    BY <1>1, <1>3, <1>5, <1>6, DecidedRemembered DEF TypeOK
  <1>7. CASE d = "nothing"
    <2>1. base = run.R /\ run.R # run.B
      BY <1>1, <1>4, <1>7, DecideRange DEF Decide, Redecide, At, Known
    <2>2. voided \/ Cared
      BY <1>1, <2>1 DEF Remembered, OnIt
    <2>3. UNCHANGED <<queue, base>> /\ (idxR' = idxR \/ dirty') /\ (dirty => dirty')
      BY <1>3, <1>5, <1>7 DEF Told, View, ledger
    <2>4. Cared => Cared'
      BY <1>1, <2>3 DEF Cared, Vain
    <2> QED
      BY <1>1, <1>5, <1>7, <2>2, <2>4 DEF Remembered, OnIt, Up, ledger
  <1>8. CASE d \in {"pull", "conflict", "trash-local"}
    <2>1. PICK want, older : queue' = older \cup {[kind |-> d, want |-> want]}
      BY <1>5, <1>8 DEF Enqueue
    <2>2. PICK job : job = [kind |-> d, want |-> want]
      OBVIOUS
    <2>3. job \in queue' /\ job.kind = d
      BY <2>1, <2>2
    <2>4. d = "trash-local" => idxL # Absent
      BY <1>4, <1>8 DEF Decide
    <2>5. ~Vain(job)'
      BY <1>1, <1>8, <2>3, <2>4 DEF Vain
    <2>6. Cared'
      BY <2>3, <2>5 DEF Cared
    <2> QED
      BY <1>1, <1>5, <1>8, <2>6 DEF Remembered, OnIt, Up
  <1> QED
    BY <1>4, <1>6, <1>7, <1>8, DecideRange

LEMMA PullFreshRemembered ==
    ASSUME BothWays, TypeOK, Safe, Remembered, PullFresh
    PROVE  Remembered'
  <1>1. run # NoRun /\ run \in Run /\ Known(run) /\ Up /\ UNCHANGED <<idxL, report, cursor>>
    BY SegmentUp DEF PullFresh, At, AtKind, TypeOK, Remembered, position, view, index, watch, Outside
  <1>2. Show(Polled) /\ PullCheck(run, Polled, queue) /\ idxR' = Polled.idx
    BY DEF PullFresh, Show
  <1>3. Polled \in View /\ Told(Polled)
    BY PolledFits
  <1>4. CASE Polled.idx = Absent
    BY <1>1, <1>2, <1>4, AgainRemembered DEF PullCheck, Again
  <1>5. CASE Polled.idx # Absent /\ (idxL = Polled.idx \/ LocalEdit)
    BY <1>1, <1>2, <1>3, <1>5, DecidedRemembered DEF PullCheck, TypeOK
  <1>6. CASE Polled.idx # Absent /\ idxL # Polled.idx /\ ~LocalEdit
    <2>1. /\ run' = [run EXCEPT !.step = "read", !.R = Polled.idx] /\ UNCHANGED <<queue, ledger>>
          /\ dirty' = (dirty \/ Polled.news)
      BY <1>2, <1>6 DEF PullCheck
    <2>2. /\ run' \in Run /\ run'.kind = run.kind /\ run'.L = run.L /\ run'.B = run.B
          /\ run'.ours = run.ours /\ run'.step = "read" /\ run'.R = Polled.idx
      BY <1>1, <1>3, <2>1 DEF Run, View, Steps
    <2>3. run' # NoRun /\ Known(run')
      BY <1>1, <1>6, <2>2, NoRunAssumption DEF Known
    <2>4. (idxR' = idxR \/ dirty') /\ (dirty => dirty')
      BY <1>2, <1>3, <2>1 DEF Told, View
    <2> QED
      BY <1>1, <2>1, <2>2, <2>3, <2>4, GoesOn DEF ledger
  <1> QED
    BY <1>4, <1>5, <1>6

LEMMA FetchPlanRemembered ==
    ASSUME TypeOK, Safe, Remembered, FetchPlan
    PROVE  Remembered'
  <1>1. run # NoRun /\ run \in Run /\ Known(run) /\ Up /\ UNCHANGED <<index, report, cursor>>
    BY SegmentUp DEF FetchPlan, At, AtKind, TypeOK, Remembered, position, view, index, watch, Outside
  <1>2. CASE idxR # Absent
    <2>0. PICK r : r = [run EXCEPT !.src = idxR, !.ours = (idxL = idxR)]
      OBVIOUS
    <2>1. /\ r \in Run /\ r.kind = run.kind /\ r.L = run.L /\ r.B = run.B
          /\ r.src = idxR /\ (r.ours => idxL = idxR) /\ r.R = run.R
      BY <1>1, <2>0 DEF Run, TypeOK
    <2>2. Go(r, "fetch", queue)
      BY <1>2, <2>0 DEF FetchPlan
    <2>3. Known([r EXCEPT !.step = "fetch"])
      BY <1>1, <1>2, <2>1 DEF Known, Run, FetchPlan, At, AtKind
    <2> QED
      BY <1>1, <2>1, <2>2, <2>3, GoRemembered DEF Steps
  <1>3. CASE idxR = Absent /\ run.kind = "pull"
    <2>1. Go(run, "gone", queue)
      BY <1>3 DEF FetchPlan
    <2>2. Known([run EXCEPT !.step = "gone"])
      BY <1>1, <1>3 DEF Known, Run, FetchPlan, At, AtKind
    <2>3. "gone" \in {"plan", "put", "trash"} => run.step \in {"plan", "put", "trash"}
      BY DEF FetchPlan, At, AtKind
    <2> QED
      BY <1>1, <2>1, <2>2, <2>3, GoRemembered DEF Steps
  <1>4. CASE idxR = Absent /\ run.kind # "pull"
    BY <1>1, <1>4, FailedRemembered DEF FetchPlan
  <1> QED
    BY <1>2, <1>3, <1>4

LEMMA FetchRemembered ==
    ASSUME TypeOK, Safe, Remembered, Fetch
    PROVE  Remembered'
  <1>1. run # NoRun /\ run \in Run /\ Known(run) /\ Up /\ UNCHANGED <<index, report, cursor>>
    BY SegmentUp DEF Fetch, At, AtKind, TypeOK, Remembered, position, view, index, watch, Outside
  <1>2. CASE run.ours /\ disk # Absent
    <2>1. voided \/ Cared
      BY <1>1, <1>2 DEF Remembered, OnIt
    <2>2. Agree(run.R, queue) /\ UNCHANGED dirty /\ run.R # Absent
      BY <1>1, <1>2 DEF Fetch, At, Known
    <2> QED
      BY <1>1, <2>1, <2>2, AgreeRemembered
  <1>3. CASE ~(run.ours /\ disk # Absent) /\ hub = Absent /\ run.kind = "pull"
    <2>1. Go(run, "gone", queue)
      BY <1>3 DEF Fetch
    <2>2. Known([run EXCEPT !.step = "gone"])
      BY <1>1, <1>3 DEF Known, Run, Fetch, At, AtKind
    <2>3. "gone" \in {"plan", "put", "trash"} => run.step \in {"plan", "put", "trash"}
      BY DEF Fetch, At, AtKind
    <2> QED
      BY <1>1, <2>1, <2>2, <2>3, GoRemembered DEF Steps
  <1>4. CASE ~(run.ours /\ disk # Absent) /\ hub # run.src /\ ~(hub = Absent /\ run.kind = "pull")
    BY <1>1, <1>4, FailedRemembered DEF Fetch
  <1>5. CASE ~(run.ours /\ disk # Absent) /\ hub = run.src /\ ~(hub = Absent /\ run.kind = "pull")
    <2>1. Go(run, "place", queue)
      BY <1>5 DEF Fetch
    <2>2. Known([run EXCEPT !.step = "place"])
      BY <1>1, <1>5 DEF Known, Run, Fetch, At, AtKind
    <2>3. "place" \in {"plan", "put", "trash"} => run.step \in {"plan", "put", "trash"}
      BY DEF Fetch, At, AtKind
    <2> QED
      BY <1>1, <2>1, <2>2, <2>3, GoRemembered DEF Steps
  <1> QED
    BY <1>2, <1>3, <1>4, <1>5

LEMMA FetchGoneRemembered ==
    ASSUME TypeOK, Safe, Remembered, FetchGone
    PROVE  Remembered'
  <1>1. run # NoRun /\ run \in Run /\ Known(run) /\ Up /\ UNCHANGED <<cursor>>
    BY SegmentUp DEF FetchGone, At, AtKind, TypeOK, Remembered, position, view, index, watch, Outside
  <1> QED
    BY <1>1, AgainRemembered DEF FetchGone, Again, Up

LEMMA PlaceRemembered ==
    ASSUME TypeOK, Safe, Remembered, Place
    PROVE  Remembered'
  <1>1. run # NoRun /\ run \in Run /\ Known(run) /\ Up /\ UNCHANGED <<cursor>>
    BY SegmentUp DEF Place, At, AtKind, TypeOK, Remembered, position, view, index, watch, Outside
  <1> QED
    BY <1>1, AgainRemembered DEF Place, Agree, Up

LEMMA DeletePlanRemembered ==
    ASSUME TypeOK, Safe, Remembered, DeletePlan
    PROVE  Remembered'
  <1>1. run # NoRun /\ run \in Run /\ Known(run) /\ Up /\ UNCHANGED <<index, report, cursor>>
    BY SegmentUp DEF DeletePlan, At, AtKind, TypeOK, Remembered, position, view, index, watch, Outside
  <1>2. CASE idxR = Absent
    <2>1. run.kind = "delete-remote"
      BY <1>1 DEF DeletePlan, At, Safe, Stage, KindsAt, Steps
    <2>2. voided \/ Cared
      BY <1>1, <1>2, <2>1 DEF Remembered, OnIt, Vain, Cared
    <2>3. Agree(Absent, queue) /\ UNCHANGED dirty
      BY <1>2 DEF DeletePlan
    <2> QED
      BY <1>1, <1>2, <2>2, <2>3, AgreeRemembered
  <1>3. CASE idxR # Absent /\ idxR = run.B
    <2>1. Go(run, "delete", queue)
      BY <1>3 DEF DeletePlan
    <2>2. Known([run EXCEPT !.step = "delete"])
      BY <1>1, <1>3 DEF Known, Run, DeletePlan, At, AtKind
    <2>3. "delete" \in {"plan", "put", "trash"} => run.step \in {"plan", "put", "trash"}
      BY DEF DeletePlan, At, AtKind
    <2> QED
      BY <1>1, <2>1, <2>2, <2>3, GoRemembered DEF Steps
  <1>4. CASE idxR \notin {Absent, run.B}
    <2>0. PICK r : r = [run EXCEPT !.R = idxR]
      OBVIOUS
    <2>1. /\ r \in Run /\ r.kind = run.kind /\ r.L = run.L /\ r.B = run.B
          /\ r.R = idxR /\ r.ours = run.ours /\ r.src = run.src
      BY <1>1, <2>0 DEF Run, TypeOK
    <2>2. Go(r, "redecide", queue)
      BY <1>4, <2>0 DEF DeletePlan
    <2>3. Known([r EXCEPT !.step = "redecide"])
      BY <1>1, <1>4, <2>1 DEF Known, Run, DeletePlan, At, AtKind
    <2> QED
      BY <1>1, <2>1, <2>2, <2>3, GoRemembered DEF Steps
  <1> QED
    BY <1>2, <1>3, <1>4

LEMMA DeleteHubRemembered ==
    ASSUME TypeOK, Safe, Remembered, DeleteHub
    PROVE  Remembered'
  <1>1. run # NoRun /\ run \in Run /\ Known(run) /\ Up /\ UNCHANGED <<index, report, cursor>>
    BY SegmentUp DEF DeleteHub, At, AtKind, TypeOK, Remembered, position, view, index, watch, Outside
  <1>2. CASE hub = Absent \/ Precondition
    <2>1. Go(run, "deleted", queue)
      BY <1>2 DEF DeleteHub
    <2>2. Known([run EXCEPT !.step = "deleted"])
      BY <1>1, <1>2 DEF Known, Run, DeleteHub, At, AtKind
    <2>3. "deleted" \in {"plan", "put", "trash"} => run.step \in {"plan", "put", "trash"}
      BY DEF DeleteHub, At, AtKind
    <2> QED
      BY <1>1, <2>1, <2>2, <2>3, GoRemembered DEF Steps
  <1>3. CASE ~(hub = Absent \/ Precondition)
    <2>0. PICK r : r = [run EXCEPT !.R = hub]
      OBVIOUS
    <2>1. /\ r \in Run /\ r.kind = run.kind /\ r.L = run.L /\ r.B = run.B
          /\ r.R = hub /\ r.ours = run.ours /\ r.src = run.src
      BY <1>1, <2>0 DEF Run, TypeOK
    <2>2. Go(r, "redecide", queue)
      BY <1>3, <2>0 DEF DeleteHub, Precondition
    <2>3. Known([r EXCEPT !.step = "redecide"])
      BY <1>1, <1>3, <2>1 DEF Known, Run, DeleteHub, Precondition, At, AtKind
    <2> QED
      BY <1>1, <2>1, <2>2, <2>3, GoRemembered DEF Steps
  <1> QED
    BY <1>2, <1>3

LEMMA DeleteCommitRemembered ==
    ASSUME TypeOK, Safe, Remembered, DeleteCommit
    PROVE  Remembered'
  <1>1. run # NoRun /\ run \in Run /\ Known(run) /\ Up /\ UNCHANGED <<cursor>>
    BY SegmentUp DEF DeleteCommit, At, AtKind, TypeOK, Remembered, position, view, index, watch, Outside
  <1> QED
    BY <1>1, AgainRemembered DEF DeleteCommit, Agree, Up

LEMMA TrashPlanRemembered ==
    ASSUME TypeOK, Safe, Remembered, TrashPlan
    PROVE  Remembered'
  <1>1. run # NoRun /\ run \in Run /\ Known(run) /\ Up /\ UNCHANGED <<index, report, cursor>>
    BY SegmentUp DEF TrashPlan, At, AtKind, TypeOK, Remembered, position, view, index, watch, Outside
  <1>2. CASE idxL = Absent
    <2>1. run.kind = "trash-local"
      BY <1>1 DEF TrashPlan, At, Safe, Stage, KindsAt, Steps
    <2>2. voided \/ Cared
      BY <1>1, <1>2, <2>1 DEF Remembered, OnIt, Vain
    <2>3. Forget(queue) /\ UNCHANGED dirty
      BY <1>2 DEF TrashPlan
    <2> QED
      BY <1>1, <2>2, <2>3, ForgetRemembered DEF Cared
  <1>3. CASE idxL # Absent
    <2>0. PICK r : r = [run EXCEPT !.src = idxL]
      OBVIOUS
    <2>1. /\ r \in Run /\ r.kind = run.kind /\ r.L = run.L /\ r.B = run.B
          /\ r.src = idxL /\ r.ours = run.ours
      BY <1>1, <2>0 DEF Run, TypeOK
    <2>2. Go(r, "trash", queue)
      BY <1>3, <2>0 DEF TrashPlan
    <2>3. Known([r EXCEPT !.step = "trash"])
      BY <1>1, <1>3, <2>1 DEF Known, Run, TrashPlan, At, AtKind
    <2> QED
      BY <1>1, <2>1, <2>2, <2>3, GoRemembered DEF Steps
  <1> QED
    BY <1>2, <1>3

LEMMA TrashRemembered ==
    ASSUME TypeOK, Safe, Remembered, Trash
    PROVE  Remembered'
  <1>1. run # NoRun /\ run \in Run /\ Known(run) /\ Up /\ UNCHANGED <<report, cursor>>
    BY SegmentUp DEF Trash, At, AtKind, TypeOK, Remembered, position, view, index, watch, Outside
  <1>2. CASE disk = Absent
    BY <1>1, <1>2, FailedRemembered DEF Trash, index
  <1>3. CASE disk # Absent /\ idxL = run.src
    BY <1>1, <1>3, AgainRemembered DEF Trash, Forget
  <1>4. CASE disk # Absent /\ idxL # run.src
    <2>1. Forget(queue) /\ UNCHANGED index /\ dirty' = (dirty \/ idxL = run.src)
      BY <1>4 DEF Trash, index
    <2>2. UNCHANGED dirty
      BY <1>4, <2>1 DEF TypeOK
    <2>3. voided \/ Cared
      BY <1>1, <1>4 DEF Trash, At, Remembered, OnIt
    <2> QED
      BY <1>1, <2>1, <2>2, <2>3, ForgetRemembered DEF Cared
  <1> QED
    BY <1>2, <1>3, <1>4

LEMMA ConflictHeadRemembered ==
    ASSUME BothWays, TypeOK, Safe, Remembered, ConflictHead
    PROVE  Remembered'
  <1>1. run # NoRun /\ run \in Run /\ Known(run) /\ Up /\ UNCHANGED <<index, report, cursor>>
    BY SegmentUp DEF ConflictHead, At, AtKind, TypeOK, Remembered, position, view, index, watch, Outside
  <1>2. CASE hub = Absent
    BY <1>1, <1>2, AgainRemembered DEF ConflictHead, Agree
  <1>3. CASE hub # Absent /\ hub \in {run.L, run.B}
    <2>1. Decided(NotPolled, queue) /\ UNCHANGED index
      BY <1>3 DEF ConflictHead
    <2> QED
      BY <1>1, <2>1, NotPolledType, DecidedRemembered DEF TypeOK, index
  <1>4. CASE hub # Absent /\ hub \notin {run.L, run.B}
    <2>0. PICK r : r = [run EXCEPT !.R = hub]
      OBVIOUS
    <2>1. /\ r \in Run /\ r.kind = run.kind /\ r.L = run.L /\ r.B = run.B
          /\ r.R = hub /\ r.ours = run.ours /\ r.src = run.src
      BY <1>1, <2>0 DEF Run, TypeOK
    <2>2. Go(r, "keep", queue)
      BY <1>4, <2>0 DEF ConflictHead
    <2>3. Known([r EXCEPT !.step = "keep"])
      BY <1>1, <1>4, <2>1 DEF Known, Run, ConflictHead, At, AtKind
    <2> QED
      BY <1>1, <2>1, <2>2, <2>3, GoRemembered DEF Steps
  <1> QED
    BY <1>2, <1>3, <1>4

LEMMA KeepRemembered ==
    ASSUME TypeOK, Safe, Remembered, Keep
    PROVE  Remembered'
  <1>1. run # NoRun /\ run \in Run /\ Known(run) /\ Up /\ UNCHANGED <<index, report, cursor>>
    BY SegmentUp DEF Keep, At, AtKind, TypeOK, Remembered, position, view, index, watch, Outside
  <1>2. CASE disk = Absent \/ disk # idxL
    BY <1>1, <1>2, FailedRemembered DEF Keep
  <1>3. CASE ~(disk = Absent \/ disk # idxL) /\ run.kind = "conflict"
    <2>1. Go(run, "upload", queue)
      BY <1>3 DEF Keep
    <2>2. Known([run EXCEPT !.step = "upload"])
      BY <1>1, <1>3 DEF Known, Run, Keep, At, AtKind
    <2>3. "upload" \in {"plan", "put", "trash"} => run.step \in {"plan", "put", "trash"}
      BY DEF Keep, At, AtKind
    <2> QED
      BY <1>1, <2>1, <2>2, <2>3, GoRemembered DEF Steps
  <1>4. CASE ~(disk = Absent \/ disk # idxL) /\ run.kind # "conflict"
    <2>1. Go(run, "read", queue)
      BY <1>4 DEF Keep
    <2>2. Known([run EXCEPT !.step = "read"])
      BY <1>1, <1>4 DEF Known, Run, Keep, At, AtKind
    <2>3. "read" \in {"plan", "put", "trash"} => run.step \in {"plan", "put", "trash"}
      BY DEF Keep, At, AtKind
    <2> QED
      BY <1>1, <2>1, <2>2, <2>3, GoRemembered DEF Steps
  <1> QED
    BY <1>2, <1>3, <1>4

LEMMA UploadRemembered ==
    ASSUME TypeOK, Safe, Remembered, Upload
    PROVE  Remembered'
  <1>1. run # NoRun /\ run \in Run /\ Known(run) /\ Up /\ UNCHANGED <<index, report, cursor>>
    BY SegmentUp DEF Upload, At, AtKind, TypeOK, Remembered, position, view, index, watch, Outside
  <1>2. CASE disk = idxL /\ disk # Absent
    <2>1. Go(run, "fresh", queue)
      BY <1>2 DEF Upload
    <2>2. Known([run EXCEPT !.step = "fresh"])
      BY <1>1, <1>2 DEF Known, Run, Upload, At, AtKind
    <2>3. "fresh" \in {"plan", "put", "trash"} => run.step \in {"plan", "put", "trash"}
      BY DEF Upload, At, AtKind
    <2> QED
      BY <1>1, <2>1, <2>2, <2>3, GoRemembered DEF Steps
  <1>3. CASE Failed
    BY <1>1, <1>3, FailedRemembered
  <1>4. CASE Absent \notin {disk, idxL} /\ disk # idxL /\ Parked
    <2>1. report
      BY <1>1, <1>4, SegmentUp DEF TypeOK
    <2>2. run' = NoRun
      BY <1>4 DEF Parked, Over
    <2> QED
      BY <1>1, <2>1, <2>2 DEF Remembered, Cared, OnIt, Up
  <1> QED
    BY <1>2, <1>3, <1>4 DEF Upload

LEMMA ConflictFreshRemembered ==
    ASSUME TypeOK, Safe, Remembered, ConflictFresh
    PROVE  Remembered'
  <1>1. run # NoRun /\ run \in Run /\ Known(run) /\ Up /\ UNCHANGED <<idxL, report, cursor>>
    BY SegmentUp DEF ConflictFresh, At, AtKind, TypeOK, Remembered, position, view, index, watch, Outside
  <1>2. PICK v : v = IF idxR = run.R THEN NotPolled ELSE Polled
    OBVIOUS
  <1>3. v \in View /\ Told(v)
    BY <1>2, NotPolledType, PolledFits
  <1>4. /\ idxR' = v.idx
        /\ IF v.idx = Absent THEN Again(queue)
           ELSE /\ run' = [run EXCEPT !.step = "read"]
                /\ dirty' = (dirty \/ v.news)
                /\ UNCHANGED <<queue, ledger>>
    BY <1>2 DEF ConflictFresh, Show
  <1>5. CASE v.idx = Absent
    BY <1>1, <1>4, <1>5, AgainRemembered DEF Again
  <1>6. CASE v.idx # Absent
    <2>1. /\ run' \in Run /\ run'.kind = run.kind /\ run'.L = run.L /\ run'.B = run.B
          /\ run'.ours = run.ours /\ run'.step = "read" /\ run'.R = run.R
      BY <1>1, <1>4, <1>6 DEF Run, Steps
    <2>2. run' # NoRun /\ Known(run')
      BY <1>1, <2>1, NoRunAssumption DEF Known, ConflictFresh, At, AtKind
    <2>3. (idxR' = idxR \/ dirty') /\ (dirty => dirty') /\ UNCHANGED <<queue, ledger>>
      BY <1>3, <1>4, <1>6 DEF Told, View
    <2> QED
      BY <1>1, <2>1, <2>2, <2>3, GoesOn DEF ledger
  <1> QED
    BY <1>5, <1>6

LEMMA RevertFreshRemembered ==
    ASSUME BothWays, TypeOK, Safe, Remembered, RevertFresh
    PROVE  Remembered'
  <1>1. run # NoRun /\ run \in Run /\ Known(run) /\ Up /\ UNCHANGED <<idxL, report, cursor>>
    BY SegmentUp DEF RevertFresh, At, AtKind, TypeOK, Remembered, position, view, index, watch, Outside
  <1>2. RevertCheck(run, Polled, queue) /\ idxR' = Polled.idx
    BY DEF RevertFresh, Show
  <1>3. Polled \in View /\ Told(Polled)
    BY PolledFits
  <1>4. CASE Polled.idx \in {Absent, run.L}
    BY <1>1, <1>2, <1>3, <1>4, DecidedRemembered DEF RevertCheck, TypeOK
  <1>5. CASE Polled.idx \notin {Absent, run.L}
    <2>1. /\ run' = [run EXCEPT !.step = "keep", !.R = Polled.idx] /\ UNCHANGED <<queue, ledger>>
          /\ dirty' = (dirty \/ Polled.news)
      BY <1>2, <1>5 DEF RevertCheck
    <2>2. /\ run' \in Run /\ run'.kind = run.kind /\ run'.L = run.L /\ run'.B = run.B
          /\ run'.ours = run.ours /\ run'.step = "keep" /\ run'.R = Polled.idx
      BY <1>1, <1>3, <2>1 DEF Run, View, Steps
    <2>3. run' # NoRun /\ Known(run')
      BY <1>1, <1>5, <2>2, NoRunAssumption DEF Known
    <2>4. (idxR' = idxR \/ dirty') /\ (dirty => dirty')
      BY <1>2, <1>3, <2>1 DEF Told, View
    <2> QED
      BY <1>1, <2>1, <2>2, <2>3, <2>4, GoesOn DEF ledger
  <1> QED
    BY <1>4, <1>5

LEMMA UnreachableRemembered ==
    ASSUME TypeOK, Safe, Remembered, Unreachable \/ AnswerLost
    PROVE  Remembered'
  <1>1. run # NoRun /\ Up /\ Failed /\ UNCHANGED <<index, report, cursor>>
    BY SegmentUp DEF Unreachable, AnswerLost, At, position, view, index, watch
  <1> QED
    BY <1>1, FailedRemembered

\* A job is taken: what it sees is what there is.
Taken(r, j) == r \in Run /\ r.kind = j.kind /\ r.L = idxL /\ r.B = base /\ r.ours = FALSE

LEMMA TakenGoes ==
    ASSUME TypeOK, Remembered, run = NoRun, Up, NEW j \in queue, Taken(run', j), Known(run'),
           run'.step \notin {"plan", "put", "trash"}, queue' = queue \ {j},
           UNCHANGED <<index, ledger, dirty, report, cursor>>
    PROVE  Remembered'
  <1>1. run' # NoRun /\ UNCHANGED <<idxL, idxR, base, voided>>
    BY NoRunAssumption DEF Taken, index, ledger
  <1>2. voided \/ Cared
    BY DEF Remembered, OnIt
  <1>3. ASSUME NEW i \in queue, ~Vain(i)
        PROVE  Cared' \/ OnIt'
    <2>1. CASE i # j
      BY <1>1, <1>3, <2>1 DEF Cared, Vain
    <2>2. CASE i = j
      BY <1>1, <1>3, <2>2 DEF OnIt, Vain, Taken
    <2> QED
      BY <2>1, <2>2
  <1>4. voided' \/ Cared' \/ OnIt'
    BY <1>1, <1>2, <1>3 DEF Cared
  <1> QED
    BY <1>1, <1>4 DEF Remembered, Up

LEMMA TakenGo ==
    ASSUME TypeOK, Remembered, run = NoRun, Up, NEW j \in queue, NEW r, Taken(r, j), NEW step \in Steps,
           Go(r, step, queue \ {j}), step \notin {"plan", "put", "trash"}, Known([r EXCEPT !.step = step]),
           UNCHANGED <<index, report, cursor>>
    PROVE  Remembered'
  <1>1. run' = [r EXCEPT !.step = step] /\ queue' = queue \ {j} /\ UNCHANGED <<ledger, dirty>>
    BY DEF Go
  <1>2. run'.step = step /\ Taken([r EXCEPT !.step = step], j)
    BY <1>1 DEF Taken, Run
  <1>3. Taken(run', j) /\ Known(run')
    BY <1>1, <1>2
  <1> QED
    BY <1>1, <1>2, <1>3, TakenGoes

LEMMA TakeRemembered ==
    ASSUME BothWays, TypeOK, Safe, Remembered, NEW j \in queue, Take(j)
    PROVE  Remembered'
  <1>1. PICK r : r = [kind |-> j.kind, want |-> j.want, step |-> "first", L |-> idxL, B |-> base,
                      R |-> idxR, src |-> Absent, ours |-> FALSE]
    OBVIOUS
  <1>2. PICK q : q = queue \ {j}
    OBVIOUS
  <1>3. /\ r \in Run /\ Taken(r, j) /\ r.R = idxR /\ r.want = j.want /\ j.kind \in Kinds
        /\ q \in SUBSET Job
    BY <1>1, <1>2 DEF TypeOK, Run, Job, Steps, File, Taken
  <1>4. /\ CASE j.kind = "push"          -> PushFirst(r, q)
             [] j.kind = "pull"          -> PullFirst(r, q)
             [] j.kind = "delete-remote" -> DeleteFirst(r, q)
             [] j.kind = "trash-local"   -> TrashFirst(r, q)
             [] j.kind = "conflict"      -> ConflictFirst(r, q)
             [] j.kind = "revert"        -> RevertFirst(r, q)
    BY <1>1, <1>2 DEF Take
  <1>5. run = NoRun /\ Up /\ UNCHANGED <<index, report, cursor>> /\ UNCHANGED <<idxL, idxR>>
    BY DEF Take, Up, position, view, index
  <1>6. voided \/ Cared
    BY <1>5 DEF Remembered, OnIt
  <1>7. NotPolled \in View /\ NotPolled.idx = idxR /\ NotPolled.news = FALSE
    BY NotPolledType DEF NotPolled
  <1>8. ASSUME Again(q)
        PROVE  Remembered'
    BY <1>5, <1>8, AgainRemembered DEF Again
  <1>9. ASSUME Decided(NotPolled, q)
        PROVE  Remembered'
    BY <1>3, <1>5, <1>7, <1>9, DecidedRemembered
  <1>10. ASSUME NEW step \in Steps, Go(r, step, q), step \notin {"plan", "put", "trash", "redecide",
                  "keep", "upload", "read", "fetch", "place"},
                j.kind = "push" => r.L # Absent, step = "fresh" => j.kind # "conflict"
         PROVE  Remembered'
    <2>1. Known([r EXCEPT !.step = step])
      BY <1>3, <1>10 DEF Known, Run, Taken
    <2> QED
      BY <1>2, <1>3, <1>5, <1>10, <2>1, TakenGo
  <1>11. ASSUME NEW step \in {"read", "keep"}, j.kind \in {"pull", "revert"}, idxR # Absent, queue' = q,
                run' = [r EXCEPT !.step = step, !.R = idxR], dirty' = (dirty \/ NotPolled.news),
                UNCHANGED ledger
         PROVE  Remembered'
    <2>1. run' \in Run /\ run'.step = step /\ run'.R = idxR
          /\ Taken([r EXCEPT !.step = step, !.R = idxR], j)
      BY <1>3, <1>11 DEF Taken, Run, Steps, TypeOK
    <2>2. Taken(run', j)
      BY <1>11, <2>1
    <2>3. Known(run') /\ UNCHANGED dirty
      BY <1>7, <1>11, <2>1, <2>2 DEF Known, Taken, TypeOK
    <2> QED
      BY <1>2, <1>3, <1>5, <1>11, <2>1, <2>2, <2>3, TakenGoes
  <1>12. CASE j.kind = "push"
    BY <1>3, <1>4, <1>8, <1>10, <1>12 DEF PushFirst, Steps
  <1>13. CASE j.kind = "pull"
    <2>1. CASE idxR # r.want
      BY <1>3, <1>4, <1>10, <1>13, <2>1 DEF PullFirst, Steps
    <2>2. CASE idxR = r.want
      <3>1. PullCheck(r, NotPolled, q)
        BY <1>4, <1>13, <2>2 DEF PullFirst
      <3>2. CASE idxR = Absent
        BY <1>7, <1>8, <3>1, <3>2 DEF PullCheck
      <3>3. CASE idxR # Absent /\ (idxL = idxR \/ LocalEdit)
        BY <1>7, <1>9, <3>1, <3>3 DEF PullCheck
      <3>4. CASE idxR # Absent /\ idxL # idxR /\ ~LocalEdit
        <4>1. /\ run' = [r EXCEPT !.step = "read", !.R = idxR] /\ queue' = q
              /\ dirty' = (dirty \/ NotPolled.news) /\ UNCHANGED ledger
          BY <1>7, <3>1, <3>4 DEF PullCheck
        <4> QED
          BY <1>11, <1>13, <3>4, <4>1
      <3> QED
        BY <3>2, <3>3, <3>4
    <2> QED
      BY <2>1, <2>2
  <1>14. CASE j.kind = "delete-remote"
    <2>1. DeleteFirst(r, q)
      BY <1>4, <1>14
    <2>2. CASE r.B = Absent
      <3>1. Over(q)
        BY <2>1, <2>2 DEF DeleteFirst
      <3>2. Vain(j)
        BY <1>3, <1>14, <2>2 DEF Vain, Taken
      <3>3. run' = NoRun /\ queue' = queue \ {j} /\ UNCHANGED <<dirty, base, voided>>
        BY <1>2, <3>1 DEF Over, ledger
      <3>4. Cared => Cared'
        BY <1>5, <3>2, <3>3 DEF Cared, Vain
      <3> QED
        BY <1>5, <1>6, <3>3, <3>4 DEF Remembered, OnIt, Up
    <2>3. CASE r.B # Absent /\ CameBack(r)
      BY <1>8, <2>1, <2>3 DEF DeleteFirst
    <2>4. CASE r.B # Absent /\ ~CameBack(r)
      BY <1>10, <1>14, <2>1, <2>4 DEF DeleteFirst, Steps
    <2> QED
      BY <2>2, <2>3, <2>4
  <1>15. CASE j.kind = "trash-local"
    <2>1. TrashFirst(r, q)
      BY <1>4, <1>15
    <2>2. CASE r.L = Absent
      <3>1. Forget(q) /\ UNCHANGED dirty
        BY <2>1, <2>2 DEF TrashFirst
      <3>2. Vain(j)
        BY <1>3, <1>15, <2>2 DEF Vain, Taken
      <3>3. voided \/ idxL = idxR \/ dirty \/ report \/ \E i \in q : ~Vain(i)
        BY <1>2, <1>6, <3>2 DEF Cared
      <3> QED
        BY <1>5, <3>1, <3>3, ForgetRemembered
    <2>3. CASE r.L # Absent /\ (r.L # r.B \/ idxR # Absent)
      BY <1>8, <2>1, <2>3 DEF TrashFirst
    <2>4. CASE r.L # Absent /\ r.L = r.B /\ idxR = Absent
      BY <1>10, <1>15, <2>1, <2>4 DEF TrashFirst, Steps
    <2> QED
      BY <2>2, <2>3, <2>4
  <1>16. CASE j.kind = "conflict"
    BY <1>4, <1>8, <1>10, <1>16 DEF ConflictFirst, Steps
  <1>17. CASE j.kind = "revert"
    <2>1. RevertFirst(r, q)
      BY <1>4, <1>17
    <2>2. CASE r.L = Absent
      BY <1>8, <2>1, <2>2 DEF RevertFirst
    <2>3. CASE r.L # Absent /\ idxR # r.want
      BY <1>10, <1>17, <2>1, <2>3 DEF RevertFirst, Steps
    <2>4. CASE r.L # Absent /\ idxR = r.want
      <3>1. RevertCheck(r, NotPolled, q)
        BY <2>1, <2>4 DEF RevertFirst
      <3>2. CASE idxR \in {Absent, r.L}
        BY <1>7, <1>9, <3>1, <3>2 DEF RevertCheck
      <3>3. CASE idxR \notin {Absent, r.L}
        <4>1. /\ run' = [r EXCEPT !.step = "keep", !.R = idxR] /\ queue' = q
              /\ dirty' = (dirty \/ NotPolled.news) /\ UNCHANGED ledger
          BY <1>7, <3>1, <3>3 DEF RevertCheck
        <4> QED
          BY <1>11, <1>17, <3>3, <4>1
      <3> QED
        BY <3>2, <3>3
    <2> QED
      BY <2>2, <2>3, <2>4
  <1> QED
    BY <1>3, <1>12, <1>13, <1>14, <1>15, <1>16, <1>17 DEF Kinds

\* Beside the job: the index changes only with a pass to come.
LEMMA BesideRemembered ==
    ASSUME TypeOK, Remembered, UNCHANGED <<base, queue, voided, run>>,
           (UNCHANGED <<idxL, idxR>> \/ dirty'), dirty => dirty', report => report' \/ dirty',
           cursor # "none" => cursor' # "none", Up' => Up
    PROVE  Remembered'
  <1>1. Cared => Cared'
    BY DEF Cared, Vain
  <1>2. OnIt => OnIt' \/ Cared'
    BY DEF OnIt, Cared, Vain
  <1> QED
    BY <1>1, <1>2 DEF Remembered, Up, Known

LEMMA ListCursor ==
    ASSUME TypeOK, CatchUp \/ List
    PROVE  cursor' # "none"
  BY DEF TypeOK, CatchUp, List

LEMMA AsideRemembered ==
    ASSUME BothWays, TypeOK, Safe, Remembered,
           \/ \E c \in File : UserWrites(c) \/ ForeignWrites(c)
           \/ \E c \in Contents : Expire(c)
           \/ Watch \/ Poll \/ Started \/ TryOnline \/ FullReconcile \/ Start \/ Resync \/ GoOffline
           \/ Crash \/ Stop
    PROVE  Remembered'
  <1>1. ASSUME NEW c \in File, UserWrites(c)
        PROVE  Remembered'
    <2>1. UNCHANGED <<base, queue, voided, run, idxL, idxR, dirty, cursor, phase>>
          /\ report' = (phase # "down")
      BY <1>1 DEF UserWrites, position, index, ledger, engine
    <2>2. Up => Cared'
      BY <2>1 DEF Cared, Up
    <2> QED
      BY <2>1, <2>2 DEF Remembered, Up, Known
  <1>2. ASSUME NEW c \in File, ForeignWrites(c)
        PROVE  Remembered'
    BY <1>2, BesideRemembered DEF ForeignWrites, position, index, ledger, engine, watch, Up
  <1>3. ASSUME NEW c \in Contents, Expire(c)
        PROVE  Remembered'
    BY <1>3, BesideRemembered DEF Expire, position, ledger, watch, Up
  <1>4. CASE Watch \/ FullReconcile
    BY <1>4, BesideRemembered DEF Watch, FullReconcile, position, ledger, watch, Up
  <1>5. CASE Poll
    <2>1. dirty' = (dirty \/ Polled.news) /\ idxR' = Polled.idx
      BY <1>5 DEF Poll, Show
    <2>2. (idxR' = idxR \/ dirty') /\ (dirty => dirty')
      BY <2>1, PolledFits DEF Told, View
    <2> QED
      BY <1>5, <2>2, BesideRemembered DEF Poll, ledger, watch, Up
  <1>6. CASE Started \/ Resync
    <2>1. cursor' # "none" /\ dirty' = TRUE /\ UNCHANGED run
      BY <1>6, ListCursor DEF Started, Resync
    <2> QED
      BY <2>1 DEF Remembered, Cared, Known
  <1>7. CASE TryOnline
    <2>1. cursor # "none" /\ Show(Polled) /\ UNCHANGED cursor /\ dirty' = (dirty \/ Polled.news)
      BY <1>7 DEF TryOnline, CatchUp, Remembered, Up
    <2>2. (idxR' = idxR \/ dirty') /\ (dirty => dirty')
      BY <2>1, PolledFits DEF Told, View, Show
    <2> QED
      BY <1>7, <2>1, <2>2, BesideRemembered DEF TryOnline, ledger, watch, Up
  <1>8. CASE GoOffline
    <2>1. Up
      BY <1>8 DEF GoOffline, Fault, BothWays, Up
    <2> QED
      BY <1>8, <2>1, BesideRemembered DEF GoOffline, position, index, ledger, engine, watch
  <1>9. CASE Start \/ Crash \/ Stop
    <2>1. ~Up' /\ (run' = NoRun \/ run' = run)
      BY <1>9 DEF Start, Crash, Stop, Down, Up, engine
    <2> QED
      BY <2>1 DEF Remembered, Known
  <1> QED
    BY <1>1, <1>2, <1>3, <1>4, <1>5, <1>6, <1>7, <1>8, <1>9

LEMMA PassRemembered ==
    ASSUME BothWays, TypeOK, Remembered, Reconcile
    PROVE  Remembered'
  <1>1. Up /\ cursor # "none" /\ cursor' # "none" /\ UNCHANGED <<run, idxL, idxR, report>>
    BY DEF Reconcile, Remembered, Up, index, watch
  <1>2. CASE dirty
    <2>1. idxL = idxR \/ \E j \in queue' : ~Vain(j)'
      BY <1>1, <1>2, ReconcileCares DEF Reconcile, TypeOK
    <2>2. Cared'
      BY <1>1, <2>1 DEF Cared
    <2> QED
      BY <1>1, <2>2 DEF Remembered, Known
  <1>3. CASE ~dirty
    <2>1. UNCHANGED <<base, queue, voided>> /\ (Up' => Up)
      BY <1>1, <1>3 DEF Reconcile, ledger
    <2>2. dirty' = FALSE
      BY DEF Reconcile
    <2> QED
      BY <1>1, <1>3, <2>1, <2>2, BesideRemembered
  <1> QED
    BY <1>2, <1>3

LEMMA RememberedStep ==
    ASSUME BothWays, TypeOK, Safe, Remembered, [Next]_vars
    PROVE  Remembered'
  <1>1. CASE Environment
    BY <1>1, AsideRemembered, UnreachableRemembered DEF Environment
  <1>2. CASE Segment
    BY <1>2, PushHeadRemembered, PushSendRemembered, PushPlanRemembered, PushPutRemembered,
       PutChangedRemembered, PushCommitRemembered, RedecideRemembered, PullFreshRemembered,
       FetchPlanRemembered, FetchRemembered, FetchGoneRemembered, PlaceRemembered,
       DeletePlanRemembered, DeleteHubRemembered, DeleteCommitRemembered, TrashPlanRemembered,
       TrashRemembered, ConflictHeadRemembered, KeepRemembered, UploadRemembered,
       ConflictFreshRemembered, RevertFreshRemembered DEF Segment
  <1>3. CASE Watch \/ Poll \/ Reconcile \/ Start \/ Started \/ TryOnline \/ FullReconcile
    BY <1>3, AsideRemembered, PassRemembered
  <1>4. CASE (\E c \in Contents : Expire(c)) \/ (\E j \in queue : Take(j))
    BY <1>4, AsideRemembered, TakeRemembered
  <1>5. CASE UNCHANGED vars
    <2>1. UNCHANGED <<base, queue, voided, run, idxL, idxR, dirty, report, cursor, phase>>
      BY <1>5 DEF vars, position, index, ledger, watch, engine
    <2> QED
      BY <2>1, BesideRemembered DEF Up
  <1> QED
    BY <1>1, <1>2, <1>3, <1>4, <1>5 DEF Next

LEMMA ForgetsNothingHere ==
    ASSUME BothWays, Remembered
    PROVE  ForgetsNothing
  <1> SUFFICES ASSUME Idle, ~voided
               PROVE  Directed(Decide(idxL, base, idxR), idxR) \in {"nothing", "skip", "adopt"}
    BY DEF ForgetsNothing
  <1>1. idxL = idxR
    BY DEF Idle, Remembered, Up, Cared, OnIt
  <1>2. Decide(idxL, base, idxR) \in {"nothing", "adopt"}
    BY <1>1 DEF Decide
  <1> QED
    BY <1>2 DEF Directed, BothWays

\* ForgetsNothing for every mirror that writes both ways, forwards deletes and
\* finds the hub when it starts: whoever writes, whatever fails or is lost, an
\* idle mirror has nothing left to do.
THEOREM ForgetsNothingCorrect ==
    ASSUME BothWays
    PROVE  Spec => []ForgetsNothing
  <1>1. Init => Remembered
    BY InitRemembered
  <1>2. TypeOK /\ Safe /\ Remembered /\ [Next]_vars => Remembered'
    BY RememberedStep
  <1>3. Remembered => ForgetsNothing
    BY ForgetsNothingHere
  <1> QED
    BY <1>1, <1>2, <1>3, TypeCorrect, SafeCorrect, PTL DEF Spec

=============================================================================
