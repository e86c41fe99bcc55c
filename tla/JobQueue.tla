------------------------------ MODULE JobQueue ------------------------------
(* The durable job queue of the sync engine (src/src/sync/JobQueue.js): two  *)
(* LMDB sub-databases, jobs (seq -> job) and dedupe (mirror|intent -> seq,   *)
(* plus the counter), shared by every JobQueue object opened on the same     *)
(* environment.  Each object ("handle") keeps its own copy of the counter.   *)
(*                                                                           *)
(* Every method body is one LMDB transaction and runs to its end without an  *)
(* await, so it is one action.  A crash keeps the two sub-databases and      *)
(* loses the handles' counters and the jobs' executors.                      *)
(*                                                                           *)
(* A payload is abstracted to the number of the append that brought it: the  *)
(* n-th append of an intent carries payload n.  nextAt is abstracted to      *)
(* whether the backoff has elapsed (due).  The Mutant operators are defects  *)
(* that the properties are shown to catch.                                   *)
EXTENDS Naturals, FiniteSets

CONSTANTS
    Handles,    \* JobQueue objects opened on one LMDB environment
    Mirrors,    \* mirror ids
    QueueOf,    \* the handle a mirror appends through
    Intents,    \* dedupe keys, "<kind>|<key>"
    Keys,       \* object keys
    KeysOf,     \* the keys an intent touches: its key, payload.from, payload.to
    NoJob,      \* an absent row
    MaxSeq,     \* bound: jobs ever created
    MaxEdits    \* bound: appends of one intent

Seqs == 1 .. MaxSeq
NoSeq == 0

ASSUME BoundsAssumption == MaxSeq \in Nat /\ MaxEdits \in Nat
ASSUME WiringAssumption ==
    QueueOf \in [Mirrors -> Handles] /\ KeysOf \in [Intents -> SUBSET Keys]

States == {"pending", "running", "failed"}
Job == [mirror : Mirrors, intent : Intents, payload : Nat,
        state : States, due : BOOLEAN]

ASSUME NoJobAssumption == NoJob \notin Job

VARIABLES
    jobs,       \* LMDB: seq -> job
    dedupe,     \* LMDB: mirror and intent -> seq
    head,       \* LMDB: the counter stored under SEQ_KEY
    open,       \* the handles whose constructor ran since the process started
    seq,        \* each handle's #seq
    claimed,    \* the jobs an executor of this process is working on
    edits,      \* history: appends made of each intent
    settled     \* history: the newest payload of each intent that was carried
                \* out or dropped

store == <<jobs, dedupe, head>>
memory == <<open, seq, claimed>>
history == <<edits, settled>>
vars == <<store, memory, history>>

TypeOK ==
    /\ jobs \in [Seqs -> Job \cup {NoJob}]
    /\ dedupe \in [Mirrors -> [Intents -> Seqs \cup {NoSeq}]]
    /\ head \in 0 .. MaxSeq
    /\ open \in SUBSET Handles
    /\ seq \in [Handles -> 0 .. MaxSeq]
    /\ claimed \in SUBSET Seqs
    /\ edits \in [Mirrors -> [Intents -> Nat]]
    /\ settled \in [Mirrors -> [Intents -> Nat]]

Has(s) == jobs[s] # NoJob
In(s, state) == Has(s) /\ jobs[s].state = state
Of(s, m, i) == Has(s) /\ jobs[s].mirror = m /\ jobs[s].intent = i

Init ==
    /\ jobs = [s \in Seqs |-> NoJob]
    /\ dedupe = [m \in Mirrors |-> [i \in Intents |-> NoSeq]]
    /\ head = 0
    /\ open = {}
    /\ seq = [h \in Handles |-> 0]
    /\ claimed = {}
    /\ edits = [m \in Mirrors |-> [i \in Intents |-> 0]]
    /\ settled = [m \in Mirrors |-> [i \in Intents |-> 0]]

-----------------------------------------------------------------------------
(* Opening, crashing                                                         *)

MutantNotRecovered == jobs
MutantRecoveredAsDone ==
    [s \in Seqs |-> IF In(s, "running") THEN NoJob ELSE jobs[s]]

\* running -> pending.
Recovered ==
    [s \in Seqs |-> IF In(s, "running") THEN [jobs[s] EXCEPT !.state = "pending"]
                                        ELSE jobs[s]]

MutantLoadedSeq == 0
MutantUndefinedSeq == IF head = 0 THEN NoJob ELSE head

\* The counter a new handle starts from.
LoadedSeq == head

\* The constructor: read the counter, recover.
Open(h) ==
    /\ h \notin open
    /\ open' = open \cup {h}
    /\ seq' = [seq EXCEPT ![h] = LoadedSeq]
    /\ jobs' = Recovered
    /\ UNCHANGED <<dedupe, head, claimed, history>>

\* The process dies: every handle and every executor goes with it.
Crash ==
    /\ open # {}
    /\ open' = {}
    /\ claimed' = {}
    /\ seq' = [h \in Handles |-> 0]
    /\ UNCHANGED <<store, history>>

-----------------------------------------------------------------------------
(* append                                                                    *)

MutantReplaceable(m, i) ==
    /\ dedupe[m][i] # NoSeq
    /\ Has(dedupe[m][i])
MutantReplaceableDue(m, i) ==
    /\ dedupe[m][i] # NoSeq
    /\ In(dedupe[m][i], "pending")
    /\ jobs[dedupe[m][i]].due

\* The row an append may replace: the one the dedupe entry names, while it
\* is still pending.
Replaceable(m, i) ==
    /\ dedupe[m][i] # NoSeq
    /\ In(dedupe[m][i], "pending")

Edit(m, i) ==
    /\ edits[m][i] < MaxEdits
    /\ edits' = [edits EXCEPT ![m][i] = @ + 1]

\* The newer payload wins; seq and backoff stay.
Replace(m, i) ==
    /\ Replaceable(m, i)
    /\ Edit(m, i)
    /\ jobs' = [jobs EXCEPT ![dedupe[m][i]].payload = edits[m][i] + 1]
    /\ UNCHANGED <<dedupe, head, memory, settled>>

\* A new row behind whatever is running.
AddJob(m, i) ==
    LET new == seq[QueueOf[m]] + 1
    IN  /\ ~Replaceable(m, i)
        /\ new \in Seqs
        /\ Edit(m, i)
        /\ seq' = [seq EXCEPT ![QueueOf[m]] = new]
        /\ jobs' = [jobs EXCEPT ![new] =
                      [mirror |-> m, intent |-> i, payload |-> edits[m][i] + 1,
                       state |-> "pending", due |-> TRUE]]
        /\ dedupe' = [dedupe EXCEPT ![m][i] = new]
        /\ head' = new
        /\ UNCHANGED <<open, claimed, settled>>

Append(m, i) == QueueOf[m] \in open /\ (Replace(m, i) \/ AddJob(m, i))

-----------------------------------------------------------------------------
(* take, complete, fail, retry                                               *)

\* pending() offers the job, its backoff elapsed; take claims it.
Take(s) ==
    /\ open # {}
    /\ In(s, "pending")
    /\ jobs[s].due
    /\ jobs' = [jobs EXCEPT ![s].state = "running"]
    /\ claimed' = claimed \cup {s}
    /\ UNCHANGED <<dedupe, head, open, seq, history>>

\* The clock reaches nextAt.
Elapse(s) ==
    /\ In(s, "pending")
    /\ ~jobs[s].due
    /\ jobs' = [jobs EXCEPT ![s].due = TRUE]
    /\ UNCHANGED <<dedupe, head, memory, history>>

MutantDedupeKept(S) == dedupe

\* The dedupe entry goes only when it names the removed row.
DedupeWithout(S) ==
    [m \in Mirrors |-> [i \in Intents |->
        IF dedupe[m][i] \in S THEN NoSeq ELSE dedupe[m][i]]]

\* The rows in S leave the queue, with what they carried.
Remove(S) ==
    /\ jobs' = [s \in Seqs |-> IF s \in S THEN NoJob ELSE jobs[s]]
    /\ dedupe' = DedupeWithout(S)
    /\ settled' = [m \in Mirrors |-> [i \in Intents |->
           IF \E s \in S : Of(s, m, i) /\ jobs[s].payload = edits[m][i]
           THEN edits[m][i] ELSE settled[m][i]]]
    /\ UNCHANGED <<head, open, seq, edits>>

\* The executor of s ended; the row may be gone by then (clear).
Complete(s) ==
    /\ s \in claimed
    /\ claimed' = claimed \ {s}
    /\ Remove({s})

\* Back to the queue after a backoff, or parked for good.
Fail(s, permanent) ==
    /\ s \in claimed
    /\ claimed' = claimed \ {s}
    /\ jobs' = IF ~Has(s) THEN jobs
               ELSE IF permanent THEN [jobs EXCEPT ![s].state = "failed"]
               ELSE [jobs EXCEPT ![s].state = "pending", ![s].due = FALSE]
    /\ UNCHANGED <<dedupe, head, open, seq, history>>

\* retry(): the executor gives the job back because the hub is offline, or a
\* parked job is put back by hand.
Retry(s) ==
    /\ open # {}
    /\ s \in claimed \/ In(s, "failed")
    /\ claimed' = claimed \ {s}
    /\ jobs' = IF ~Has(s) THEN jobs
               ELSE [jobs EXCEPT ![s].state = "pending", ![s].due = TRUE]
    /\ UNCHANGED <<dedupe, head, open, seq, history>>

-----------------------------------------------------------------------------
(* cancel, cancelByKey, clear                                                *)

\* A newer decision drops a job that has not started (Mirror's #enqueue).
Cancel(s) ==
    /\ open # {}
    /\ In(s, "pending")
    /\ Remove({s})
    /\ UNCHANGED claimed

\* Every pending or parked job that touches k; a running one is left alone.
ByKey(m, k) == {s \in Seqs : Has(s) /\ jobs[s].mirror = m /\ k \in KeysOf[jobs[s].intent]}
Droppable(m, k) == {s \in ByKey(m, k) : jobs[s].state # "running"}

CancelByKey(m, k) ==
    /\ open # {}
    /\ Droppable(m, k) # {}
    /\ Remove(Droppable(m, k))
    /\ UNCHANGED claimed

Clear(m) ==
    /\ open # {}
    /\ \E s \in Seqs : Has(s) /\ jobs[s].mirror = m
    /\ Remove({s \in Seqs : Has(s) /\ jobs[s].mirror = m})
    /\ UNCHANGED claimed

-----------------------------------------------------------------------------

Next ==
    \/ \E h \in Handles : Open(h)
    \/ Crash
    \/ \E m \in Mirrors, i \in Intents : Append(m, i)
    \/ \E s \in Seqs :
          \/ Take(s) \/ Elapse(s) \/ Complete(s) \/ Retry(s) \/ Cancel(s)
          \/ \E permanent \in BOOLEAN : Fail(s, permanent)
    \/ \E m \in Mirrors, k \in Keys : CancelByKey(m, k)
    \/ \E m \in Mirrors : Clear(m)

Spec == Init /\ [][Next]_vars

-----------------------------------------------------------------------------
(* Properties                                                                *)

\* A dedupe entry never dangles and never leads to another intent's job: the
\* next append of the intent would otherwise be merged into a stranger's row
\* (JobQueue.js:64-71, 128-133).
DedupeSound ==
    \A m \in Mirrors, i \in Intents :
        dedupe[m][i] # NoSeq => Of(dedupe[m][i], m, i)

\* While the process is up, the jobs marked running are exactly those an
\* executor works on, rows cleared under an executor aside: a job left in
\* "running" with nobody on it is never offered again (JobQueue.js:107-124,
\* 204-215).
RunningIsClaimed ==
    open # {} =>
        /\ \A s \in Seqs : In(s, "running") => s \in claimed
        /\ \A s \in claimed : Has(s) => In(s, "running")

\* The newest append of an intent is in the queue until it was carried out or
\* dropped, whatever ran, failed or crashed meanwhile: an older job of the
\* same intent never stands in for it (JobQueue.js:53-93).
NewestKept ==
    \A m \in Mirrors, i \in Intents :
        edits[m][i] # settled[m][i] =>
            \E s \in Seqs : Of(s, m, i) /\ jobs[s].payload = edits[m][i]

\* A row keeps its mirror and its intent for life, over crashes and reopened
\* handles: no append is ever written over another job (JobQueue.js:45, 72-89).
RowsKeepIdentity ==
    [][\A s \in Seqs : Has(s) /\ Has(s)' =>
          /\ jobs'[s].mirror = jobs[s].mirror
          /\ jobs'[s].intent = jobs[s].intent]_vars

\* What an executor works on is not changed under it (JobQueue.js:56-57,
\* 183-191): while s stays claimed its row stays as it was taken, unless the
\* whole queue is cleared.
ClaimedUntouched ==
    [][\A s \in claimed \cap claimed' :
          jobs'[s] = jobs[s] \/ (~Has(s)' /\ \E m \in Mirrors : Clear(m))]_vars

\* An append whose predecessor is still waiting adds no job: a file saved
\* again before its push started is still one push (JobQueue.js:66-71).
SavedAgainIsOneJob ==
    [][\A m \in Mirrors, i \in Intents :
          (/\ edits'[m][i] # edits[m][i]
           /\ \E s \in Seqs : /\ Of(s, m, i) /\ jobs[s].state = "pending"
                              /\ jobs[s].payload = edits[m][i])
          => {s \in Seqs : Has(s)'} = {s \in Seqs : Has(s)}]_vars

\* The comment on append: "A running job is never replaced: the new one queues
\* behind it" (JobQueue.js:56-57).
RunningNeverReplaced ==
    [][\A s \in claimed : Has(s) /\ Has(s)' =>
          /\ jobs'[s].mirror = jobs[s].mirror
          /\ jobs'[s].intent = jobs[s].intent
          /\ jobs'[s].payload = jobs[s].payload]_vars

=============================================================================
