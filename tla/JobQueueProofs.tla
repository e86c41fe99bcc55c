--------------------------- MODULE JobQueueProofs ---------------------------
(* The queue's invariants for every number of mirrors, intents, keys and     *)
(* rows.  TypeOK needs nothing else; the others hold when one queue object   *)
(* is opened on the database (OneHandle), and the run JobQueueTwoHandles     *)
(* shows why that hypothesis is there.                                       *)
EXTENDS JobQueue, TLAPS

\* One queue object per database.
OneHandle == \A g, h \in Handles : g = h

\* Rows and executors never run ahead of the stored counter, and an open
\* handle agrees with it: the next append takes a free row.
CounterAhead ==
    /\ \A s \in Seqs : Has(s) \/ s \in claimed => s <= head
    /\ \A h \in open : seq[h] = head

\* The executors die with the process.
ClaimedWhileOpen == open = {} => claimed = {}

QueueInv ==
    /\ TypeOK
    /\ CounterAhead
    /\ ClaimedWhileOpen
    /\ DedupeSound
    /\ RunningIsClaimed
    /\ NewestKept

-----------------------------------------------------------------------------

LEMMA InitType == Init => TypeOK
  BY BoundsAssumption DEF Init, TypeOK, Seqs, NoSeq

LEMMA RemoveType ==
  ASSUME TypeOK, NEW S \in SUBSET Seqs, Remove(S)
  PROVE  /\ jobs' \in [Seqs -> Job \cup {NoJob}]
         /\ dedupe' \in [Mirrors -> [Intents -> Seqs \cup {NoSeq}]]
         /\ settled' \in [Mirrors -> [Intents -> Nat]]
  <1>1. jobs' \in [Seqs -> Job \cup {NoJob}]
    BY DEF TypeOK, Remove
  <1>2. dedupe' \in [Mirrors -> [Intents -> Seqs \cup {NoSeq}]]
    BY DEF TypeOK, Remove, DedupeWithout
  <1>3. settled' \in [Mirrors -> [Intents -> Nat]]
    <2>1. \A m \in Mirrors, i \in Intents : edits[m][i] \in Nat /\ settled[m][i] \in Nat
      BY DEF TypeOK
    <2> QED  BY <2>1 DEF Remove
  <1> QED  BY <1>1, <1>2, <1>3

\* A job whose payload, state or backoff changes is still a job.
LEMMA JobUpdate ==
  ASSUME NEW j \in Job
  PROVE  /\ \A st \in States : [j EXCEPT !.state = st] \in Job
         /\ \A st \in States, d \in BOOLEAN : [j EXCEPT !.state = st, !.due = d] \in Job
         /\ \A d \in BOOLEAN : [j EXCEPT !.due = d] \in Job
         /\ \A n \in Nat : [j EXCEPT !.payload = n] \in Job
  BY DEF Job

LEMMA RowIsJob ==
  ASSUME TypeOK, NEW s \in Seqs, Has(s)
  PROVE  jobs[s] \in Job
  BY DEF TypeOK, Has

LEMMA TypeStep == TypeOK /\ [Next]_vars => TypeOK'
  <1> SUFFICES ASSUME TypeOK, [Next]_vars PROVE TypeOK'
    OBVIOUS
  <1> USE DEF store, memory, history
  <1>1. ASSUME NEW h \in Handles, Open(h) PROVE TypeOK'
    <2>1. \A s \in Seqs : Recovered[s] \in Job \cup {NoJob}
      BY JobUpdate, RowIsJob DEF Recovered, In, TypeOK, States
    <2>2. jobs' \in [Seqs -> Job \cup {NoJob}]
      BY <1>1, <2>1 DEF Open, Recovered
    <2> QED  BY <1>1, <2>2 DEF Open, LoadedSeq, TypeOK
  <1>2. CASE Crash
    BY <1>2, BoundsAssumption DEF Crash, TypeOK
  <1>3. ASSUME NEW m \in Mirrors, NEW i \in Intents, Replace(m, i) PROVE TypeOK'
    <2> DEFINE s == dedupe[m][i]
    <2>1. s \in Seqs /\ Has(s)
      BY <1>3 DEF Replace, Replaceable, In, TypeOK
    <2>2. edits[m][i] \in Nat
      BY DEF TypeOK
    <2>3. [jobs[s] EXCEPT !.payload = edits[m][i] + 1] \in Job
      <3>1. jobs[s] \in Job
        BY <2>1, RowIsJob
      <3>2. edits[m][i] + 1 \in Nat
        BY <2>2
      <3> QED  BY <3>1, <3>2, JobUpdate
    <2>4. jobs' \in [Seqs -> Job \cup {NoJob}]
      BY <1>3, <2>1, <2>3 DEF Replace, TypeOK
    <2>5. edits' \in [Mirrors -> [Intents -> Nat]]
      BY <1>3, <2>2 DEF Replace, Edit, TypeOK
    <2> QED  BY <1>3, <2>4, <2>5 DEF Replace, TypeOK
  <1>4. ASSUME NEW m \in Mirrors, NEW i \in Intents, AddJob(m, i) PROVE TypeOK'
    <2> DEFINE new == seq[QueueOf[m]] + 1
               row == [mirror |-> m, intent |-> i, payload |-> edits[m][i] + 1,
                       state |-> "pending", due |-> TRUE]
    <2>1. new \in Seqs /\ new \in 0 .. MaxSeq
      BY <1>4, BoundsAssumption DEF AddJob, Seqs
    <2>2. edits[m][i] \in Nat
      BY DEF TypeOK
    <2>3. row \in Job
      BY <2>2 DEF Job, States
    <2>4. jobs' = [jobs EXCEPT ![new] = row]
      BY <1>4 DEF AddJob
    <2>5. jobs' \in [Seqs -> Job \cup {NoJob}]
      BY <2>1, <2>3, <2>4 DEF TypeOK
    <2>6. edits' \in [Mirrors -> [Intents -> Nat]]
      BY <1>4, <2>2 DEF AddJob, Edit, TypeOK
    <2>7. seq' \in [Handles -> 0 .. MaxSeq] /\ head' \in 0 .. MaxSeq
      BY <1>4, <2>1 DEF AddJob, TypeOK
    <2>8. dedupe' \in [Mirrors -> [Intents -> Seqs \cup {NoSeq}]]
      BY <1>4, <2>1 DEF AddJob, TypeOK
    <2> QED  BY <1>4, <2>5, <2>6, <2>7, <2>8 DEF AddJob, TypeOK
  <1>5. ASSUME NEW s \in Seqs, Take(s) PROVE TypeOK'
    <2>1. jobs' \in [Seqs -> Job \cup {NoJob}]
      BY <1>5, JobUpdate, RowIsJob DEF Take, In, TypeOK, States
    <2> QED  BY <1>5, <2>1 DEF Take, TypeOK
  <1>6. ASSUME NEW s \in Seqs, Elapse(s) PROVE TypeOK'
    <2>1. jobs' \in [Seqs -> Job \cup {NoJob}]
      BY <1>6, JobUpdate, RowIsJob DEF Elapse, In, TypeOK
    <2> QED  BY <1>6, <2>1 DEF Elapse, TypeOK
  <1>7. ASSUME NEW s \in Seqs, Complete(s) PROVE TypeOK'
    BY <1>7, RemoveType DEF Complete, Remove, TypeOK
  <1>8. ASSUME NEW s \in Seqs, NEW permanent \in BOOLEAN, Fail(s, permanent) PROVE TypeOK'
    <2>1. jobs' \in [Seqs -> Job \cup {NoJob}]
      <3>1. CASE ~Has(s)
        BY <1>8, <3>1 DEF Fail, TypeOK
      <3>2. CASE Has(s) /\ permanent
        BY <1>8, <3>2, JobUpdate, RowIsJob DEF Fail, TypeOK, States
      <3>3. CASE Has(s) /\ ~permanent
        <4>1. jobs' = [jobs EXCEPT ![s] = [jobs[s] EXCEPT !.state = "pending", !.due = FALSE]]
          BY <1>8, <3>3 DEF Fail, TypeOK
        <4> QED  BY <4>1, <3>3, JobUpdate, RowIsJob DEF TypeOK, States
      <3> QED  BY <3>1, <3>2, <3>3
    <2> QED  BY <1>8, <2>1 DEF Fail, TypeOK
  <1>9. ASSUME NEW s \in Seqs, Retry(s) PROVE TypeOK'
    <2>1. jobs' \in [Seqs -> Job \cup {NoJob}]
      <3>1. CASE ~Has(s)
        BY <1>9, <3>1 DEF Retry, TypeOK
      <3>2. CASE Has(s)
        <4>1. jobs' = [jobs EXCEPT ![s] = [jobs[s] EXCEPT !.state = "pending", !.due = TRUE]]
          BY <1>9, <3>2 DEF Retry, TypeOK
        <4> QED  BY <4>1, <3>2, JobUpdate, RowIsJob DEF TypeOK, States
      <3> QED  BY <3>1, <3>2
    <2> QED  BY <1>9, <2>1 DEF Retry, TypeOK
  <1>10. ASSUME NEW s \in Seqs, Cancel(s) PROVE TypeOK'
    BY <1>10, RemoveType DEF Cancel, Remove, TypeOK
  <1>11. ASSUME NEW m \in Mirrors, NEW k \in Keys, CancelByKey(m, k) PROVE TypeOK'
    <2>1. Droppable(m, k) \in SUBSET Seqs
      BY DEF Droppable, ByKey
    <2> QED  BY <1>11, <2>1, RemoveType DEF CancelByKey, Remove, TypeOK
  <1>12. ASSUME NEW m \in Mirrors, Clear(m) PROVE TypeOK'
    BY <1>12, RemoveType DEF Clear, Remove, TypeOK
  <1>13. CASE UNCHANGED vars
    BY <1>13 DEF vars, TypeOK
  <1> QED
    BY <1>1, <1>2, <1>3, <1>4, <1>5, <1>6, <1>7, <1>8, <1>9, <1>10, <1>11, <1>12, <1>13
       DEF Next, Append

\* The queue's rows, entries and counters always have their type, whatever the
\* number of handles (JobQueue.js:34-47).
THEOREM TypeCorrect == Spec => []TypeOK
  BY InitType, TypeStep, PTL DEF Spec

-----------------------------------------------------------------------------

\* What take, fail, retry, recover and the clock leave alone: which rows there
\* are, whose they are and what they carry.
SameRows ==
    /\ UNCHANGED <<dedupe, head, edits, settled>>
    /\ \A s \in Seqs : Has(s)' <=> Has(s)
    /\ \A s \in Seqs : Has(s) =>
          /\ jobs'[s].mirror = jobs[s].mirror
          /\ jobs'[s].intent = jobs[s].intent
          /\ jobs'[s].payload = jobs[s].payload

LEMMA SameRowsKeep ==
  ASSUME QueueInv, SameRows
  PROVE  DedupeSound' /\ NewestKept'
  <1>1. \A s \in Seqs, m \in Mirrors, i \in Intents : Of(s, m, i) => Of(s, m, i)'
    BY DEF SameRows, Of
  <1>2. DedupeSound'
    BY <1>1 DEF SameRows, QueueInv, TypeOK, DedupeSound, NoSeq
  <1>3. NewestKept'
    <2> SUFFICES ASSUME NEW m \in Mirrors, NEW i \in Intents, edits'[m][i] # settled'[m][i]
                 PROVE  \E s \in Seqs : Of(s, m, i)' /\ jobs'[s].payload = edits'[m][i]
      BY DEF NewestKept
    <2>1. PICK s \in Seqs : Of(s, m, i) /\ jobs[s].payload = edits[m][i]
      BY DEF SameRows, QueueInv, NewestKept
    <2> QED  BY <1>1, <2>1 DEF SameRows, Of
  <1> QED  BY <1>2, <1>3

LEMMA RemoveKeeps ==
  ASSUME QueueInv, NEW S \in SUBSET Seqs, Remove(S)
  PROVE  /\ DedupeSound'
         /\ NewestKept'
         /\ \A s \in Seqs : Has(s)' => s \notin S /\ Has(s) /\ jobs'[s] = jobs[s]
  <1>1. \A s \in Seqs : s \notin S => jobs'[s] = jobs[s]
    BY DEF Remove
  <1>2. \A s \in S : ~Has(s)'
    BY DEF Remove, Has
  <1>3. \A s \in Seqs : Has(s)' => s \notin S /\ Has(s) /\ jobs'[s] = jobs[s]
    BY <1>1, <1>2 DEF Has
  <1>4. DedupeSound'
    <2> SUFFICES ASSUME NEW m \in Mirrors, NEW i \in Intents, dedupe'[m][i] # NoSeq
                 PROVE  Of(dedupe[m][i], m, i)' /\ dedupe'[m][i] = dedupe[m][i]
      BY DEF DedupeSound, Of, Has
    <2>1. dedupe'[m][i] = IF dedupe[m][i] \in S THEN NoSeq ELSE dedupe[m][i]
      BY DEF Remove, DedupeWithout
    <2>2. dedupe[m][i] \notin S /\ dedupe'[m][i] = dedupe[m][i]
      BY <2>1
    <2>3. dedupe[m][i] \in Seqs
      BY <2>2 DEF QueueInv, TypeOK
    <2>4. Of(dedupe[m][i], m, i)
      BY <2>2 DEF QueueInv, DedupeSound
    <2>5. jobs'[dedupe[m][i]] = jobs[dedupe[m][i]]
      BY <1>1, <2>2, <2>3
    <2>6. dedupe'[m][i] = dedupe[m][i] => (Of(dedupe[m][i], m, i)' <=> Of(dedupe[m][i], m, i))
      BY <2>5 DEF Of, Has
    <2> QED  BY <2>2, <2>4, <2>6
  <1>5. NewestKept'
    <2> SUFFICES ASSUME NEW m \in Mirrors, NEW i \in Intents, edits'[m][i] # settled'[m][i]
                 PROVE  \E s \in Seqs : Of(s, m, i)' /\ jobs'[s].payload = edits'[m][i]
      BY DEF NewestKept
    <2>1. edits' = edits
      BY DEF Remove
    <2>2. settled'[m][i] = IF \E s \in S : Of(s, m, i) /\ jobs[s].payload = edits[m][i]
                           THEN edits[m][i] ELSE settled[m][i]
      BY DEF Remove
    <2>3. /\ ~\E s \in S : Of(s, m, i) /\ jobs[s].payload = edits[m][i]
          /\ edits[m][i] # settled[m][i]
      BY <2>1, <2>2
    <2>4. PICK s \in Seqs : Of(s, m, i) /\ jobs[s].payload = edits[m][i]
      BY <2>3 DEF QueueInv, NewestKept
    <2> QED  BY <1>1, <2>1, <2>3, <2>4 DEF Of, Has
  <1> QED  BY <1>3, <1>4, <1>5

\* A row whose job only changed state or backoff.
Restated(s) ==
    \/ jobs'[s] = jobs[s]
    \/ \E st \in States : jobs'[s] = [jobs[s] EXCEPT !.state = st]
    \/ \E d \in BOOLEAN : jobs'[s] = [jobs[s] EXCEPT !.due = d]
    \/ \E st \in States, d \in BOOLEAN : jobs'[s] = [jobs[s] EXCEPT !.state = st, !.due = d]

LEMMA RestatedKeep ==
  ASSUME QueueInv, UNCHANGED <<dedupe, head, edits, settled>>,
         \A s \in Seqs : IF Has(s) THEN Restated(s) ELSE jobs'[s] = jobs[s]
  PROVE  SameRows /\ DedupeSound' /\ NewestKept'
  <1>1. ASSUME NEW s \in Seqs, Has(s)
        PROVE  /\ Has(s)'
               /\ jobs'[s].mirror = jobs[s].mirror
               /\ jobs'[s].intent = jobs[s].intent
               /\ jobs'[s].payload = jobs[s].payload
    <2>1. PICK j \in Job : j = jobs[s]
      BY <1>1, RowIsJob DEF QueueInv
    <2>2. \/ jobs'[s] = j
          \/ \E st \in States : jobs'[s] = [j EXCEPT !.state = st]
          \/ \E d \in BOOLEAN : jobs'[s] = [j EXCEPT !.due = d]
          \/ \E st \in States, d \in BOOLEAN : jobs'[s] = [j EXCEPT !.state = st, !.due = d]
      BY <1>1, <2>1 DEF Restated
    <2>3. jobs'[s] \in Job
      BY <2>1, <2>2 DEF Job
    <2>4. Has(s)'
      BY <2>3, NoJobAssumption DEF Has
    <2> QED  BY <2>1, <2>2, <2>4 DEF Job
  <1>2. \A s \in Seqs : Has(s)' <=> Has(s)
    BY <1>1 DEF Has
  <1>3. SameRows
    BY <1>1, <1>2 DEF SameRows
  <1> QED  BY <1>3, SameRowsKeep

LEMMA InitInv == Init => QueueInv
  BY InitType DEF Init, QueueInv, CounterAhead, ClaimedWhileOpen, DedupeSound,
                  RunningIsClaimed, NewestKept, Has, In

LEMMA OpenKeeps ==
  ASSUME OneHandle, QueueInv, TypeOK', NEW h \in Handles, Open(h)
  PROVE  QueueInv'
  <1>1. open = {} /\ claimed = {} /\ open' = {h}
    BY DEF OneHandle, QueueInv, TypeOK, ClaimedWhileOpen, Open
  <1>2. \A s \in Seqs : jobs'[s] = IF In(s, "running")
                                   THEN [jobs[s] EXCEPT !.state = "pending"] ELSE jobs[s]
    BY DEF Open, Recovered
  <1>3. \A s \in Seqs : IF Has(s) THEN Restated(s) ELSE jobs'[s] = jobs[s]
    BY <1>2 DEF Restated, In, States
  <1>4. SameRows /\ DedupeSound' /\ NewestKept'
    BY <1>3, RestatedKeep DEF Open, history
  <1>5. \A s \in Seqs : Has(s) <=> Has(s)'
    BY <1>4 DEF SameRows
  <1>7. RunningIsClaimed'
    <2>1. ASSUME NEW s \in Seqs, In(s, "running")' PROVE FALSE
      <3>1. Has(s)
        BY <1>5, <2>1 DEF In
      <3>2. jobs[s] \in Job
        BY <3>1, RowIsJob DEF QueueInv
      <3> QED  BY <1>2, <2>1, <3>1, <3>2 DEF In, Has, Job
    <2> QED  BY <1>1, <2>1 DEF RunningIsClaimed, Open
  <1>8. CounterAhead'
    BY <1>1, <1>5 DEF CounterAhead, QueueInv, TypeOK, Open, LoadedSeq, Has
  <1>9. ClaimedWhileOpen'
    BY <1>1 DEF ClaimedWhileOpen, Open
  <1> QED  BY <1>4, <1>7, <1>8, <1>9 DEF QueueInv

LEMMA CrashKeeps == QueueInv /\ TypeOK' /\ Crash => QueueInv'
  <1> SUFFICES ASSUME QueueInv, TypeOK', Crash PROVE QueueInv'
    OBVIOUS
  <1>1. SameRows
    BY DEF Crash, SameRows, store, history, Has
  <1>2. DedupeSound' /\ NewestKept'
    BY <1>1, SameRowsKeep
  <1> QED  BY <1>2 DEF QueueInv, CounterAhead, ClaimedWhileOpen, RunningIsClaimed,
                       Crash, store, Has

LEMMA ReplaceKeeps ==
  ASSUME QueueInv, TypeOK', NEW m \in Mirrors, NEW i \in Intents, Append(m, i), Replace(m, i)
  PROVE  QueueInv'
  <1>1. PICK t \in Seqs : t = dedupe[m][i] /\ Of(t, m, i) /\ In(t, "pending")
    BY DEF QueueInv, TypeOK, DedupeSound, Replace, Replaceable
  <1>2. PICK j \in Job : j = jobs[t]
    BY <1>1, RowIsJob DEF QueueInv, Of
  <1>3. PICK e \in Nat : e = edits[m][i] + 1
    BY DEF QueueInv, TypeOK
  <1>4. /\ jobs'[t] = [j EXCEPT !.payload = e]
        /\ \A s \in Seqs : s # t => jobs'[s] = jobs[s]
    BY <1>1, <1>2, <1>3 DEF QueueInv, TypeOK, Replace
  <1>5. jobs'[t] \in Job
    BY <1>2, <1>3, <1>4 DEF Job
  <1>6. /\ Has(t)'
        /\ jobs'[t].mirror = jobs[t].mirror
        /\ jobs'[t].intent = jobs[t].intent
        /\ jobs'[t].state = jobs[t].state
        /\ jobs'[t].payload = e
    BY <1>2, <1>4, <1>5, NoJobAssumption DEF Has, Job
  <1>7. \A s \in Seqs : Has(s)' <=> Has(s)
    BY <1>1, <1>4, <1>6 DEF Has, Of
  <1>8. \A s \in Seqs, n \in Mirrors, a \in Intents : Of(s, n, a)' <=> Of(s, n, a)
    BY <1>1, <1>4, <1>6, <1>7 DEF Of
  <1>9. DedupeSound'
    BY <1>8 DEF DedupeSound, QueueInv, TypeOK, Replace, NoSeq
  <1>10. NewestKept'
    <2> SUFFICES ASSUME NEW n \in Mirrors, NEW a \in Intents, edits'[n][a] # settled'[n][a]
                 PROVE  \E s \in Seqs : Of(s, n, a)' /\ jobs'[s].payload = edits'[n][a]
      BY DEF NewestKept
    <2>1. edits'[n][a] = IF n = m /\ a = i THEN e ELSE edits[n][a]
      BY <1>3 DEF QueueInv, TypeOK, Replace, Edit
    <2>2. CASE n = m /\ a = i
      BY <1>1, <1>6, <1>8, <2>1, <2>2
    <2>3. CASE ~(n = m /\ a = i)
      <3>1. edits[n][a] # settled[n][a]
        BY <2>1, <2>3 DEF Replace
      <3>2. PICK s \in Seqs : Of(s, n, a) /\ jobs[s].payload = edits[n][a]
        BY <3>1 DEF QueueInv, NewestKept
      <3>3. s # t
        BY <1>1, <2>3, <3>2 DEF Of
      <3> QED  BY <1>4, <1>8, <2>1, <2>3, <3>2, <3>3
    <2> QED  BY <2>2, <2>3
  <1>11. \A s \in Seqs : In(s, "running")' <=> In(s, "running")
    BY <1>1, <1>4, <1>6, <1>7 DEF In
  <1>12. RunningIsClaimed' /\ CounterAhead' /\ ClaimedWhileOpen'
    BY <1>7, <1>11 DEF RunningIsClaimed, CounterAhead, ClaimedWhileOpen, QueueInv, TypeOK,
                       Replace, memory
  <1> QED  BY <1>9, <1>10, <1>12 DEF QueueInv

\* The row an append takes is free: the counter the handle holds is the stored
\* one, and no row is beyond that.
LEMMA FreshRow ==
  ASSUME QueueInv, NEW m \in Mirrors, NEW i \in Intents, Append(m, i), AddJob(m, i)
  PROVE  /\ head + 1 \in Seqs
         /\ ~Has(head + 1)
         /\ head + 1 \notin claimed
         /\ seq[QueueOf[m]] + 1 = head + 1
  <1>1. seq[QueueOf[m]] = head
    BY DEF QueueInv, CounterAhead, Append
  <1>2. head + 1 \in Seqs
    BY <1>1 DEF AddJob
  <1>3. head \in Nat
    BY BoundsAssumption DEF QueueInv, TypeOK
  <1> QED  BY <1>1, <1>2, <1>3 DEF QueueInv, CounterAhead

LEMMA AddJobKeeps ==
  ASSUME OneHandle, QueueInv, TypeOK', NEW m \in Mirrors, NEW i \in Intents,
         Append(m, i), AddJob(m, i)
  PROVE  QueueInv'
  <1>0. PICK new \in Seqs : new = head + 1
    BY FreshRow
  <1> DEFINE row == [mirror |-> m, intent |-> i, payload |-> edits[m][i] + 1,
                     state |-> "pending", due |-> TRUE]
  <1>1. /\ new \in Seqs /\ ~Has(new) /\ new \notin claimed
        /\ seq[QueueOf[m]] + 1 = new
    BY <1>0, FreshRow
  <1>2. jobs' = [jobs EXCEPT ![new] = row]
    BY <1>1 DEF AddJob
  <1>3. jobs'[new] = row /\ \A s \in Seqs : s # new => jobs'[s] = jobs[s]
    BY <1>1, <1>2 DEF QueueInv, TypeOK
  <1>4. row \in Job
    BY DEF QueueInv, TypeOK, Job, States
  <1>5. Has(new)' /\ Of(new, m, i)' /\ ~In(new, "running")'
    <2>1. /\ jobs'[new].mirror = m /\ jobs'[new].intent = i
          /\ jobs'[new].state = "pending"
      BY <1>3
    <2>2. Has(new)'
      BY <1>3, <1>4, NoJobAssumption DEF Has
    <2> QED  BY <2>1, <2>2 DEF Of, In
  <1>6. \A s \in Seqs : s # new => (Has(s)' <=> Has(s))
    BY <1>3 DEF Has
  <1>7. \A s \in Seqs, n \in Mirrors, a \in Intents : Of(s, n, a) => s # new /\ Of(s, n, a)' /\ jobs'[s] = jobs[s]
    BY <1>1, <1>3 DEF Of, Has
  <1>8. DedupeSound'
    <2>1. \A n \in Mirrors, a \in Intents :
             dedupe'[n][a] = IF n = m /\ a = i THEN new ELSE dedupe[n][a]
      BY <1>1 DEF QueueInv, TypeOK, AddJob
    <2> SUFFICES ASSUME NEW n \in Mirrors, NEW a \in Intents, NEW d,
                        d = dedupe'[n][a], d # NoSeq
                 PROVE  Of(d, n, a)'
      BY DEF DedupeSound, Of, Has
    <2>2. CASE n = m /\ a = i
      <3>1. d = new
        BY <2>1, <2>2
      <3> QED  BY <1>5, <2>2, <3>1
    <2>3. CASE ~(n = m /\ a = i)
      <3>1. d = dedupe[n][a]
        BY <2>1, <2>3
      <3>2. d \in Seqs /\ Of(d, n, a)
        BY <3>1 DEF QueueInv, TypeOK, DedupeSound
      <3> QED  BY <1>7, <3>2
    <2> QED  BY <2>2, <2>3
  <1>9. NewestKept'
    <2> SUFFICES ASSUME NEW n \in Mirrors, NEW a \in Intents, edits'[n][a] # settled'[n][a]
                 PROVE  \E s \in Seqs : Of(s, n, a)' /\ jobs'[s].payload = edits'[n][a]
      BY DEF NewestKept
    <2>1. edits'[n][a] = IF n = m /\ a = i THEN edits[m][i] + 1 ELSE edits[n][a]
      BY DEF QueueInv, TypeOK, AddJob, Edit
    <2>2. CASE n = m /\ a = i
      <3>1. Of(new, n, a)'
        BY <1>3, <1>5, <2>2 DEF Of, Has
      <3>2. jobs'[new].payload = edits'[n][a]
        BY <1>3, <2>1, <2>2
      <3> QED  BY <1>1, <3>1, <3>2
    <2>3. CASE ~(n = m /\ a = i)
      <3>1. edits[n][a] # settled[n][a]
        BY <2>1, <2>3 DEF AddJob
      <3>2. PICK s \in Seqs : Of(s, n, a) /\ jobs[s].payload = edits[n][a]
        BY <3>1 DEF QueueInv, NewestKept
      <3> QED  BY <1>7, <2>1, <2>3, <3>2
    <2> QED  BY <2>2, <2>3
  <1>10. RunningIsClaimed'
    <2>1. \A s \in Seqs : s # new => (In(s, "running")' <=> In(s, "running"))
      BY <1>3, <1>6 DEF In
    <2>2. open' = open /\ claimed' = claimed /\ claimed \in SUBSET Seqs
      BY DEF QueueInv, TypeOK, AddJob
    <2> QED  BY <1>1, <1>5, <1>6, <2>1, <2>2 DEF RunningIsClaimed, QueueInv
  <1>11. CounterAhead'
    <2>1. head' = new /\ new = head + 1 /\ claimed' = claimed /\ open' = open /\ head \in Nat
      BY <1>0, <1>1, BoundsAssumption DEF AddJob, QueueInv, TypeOK
    <2>2. ASSUME NEW s \in Seqs, Has(s)' \/ s \in claimed' PROVE s <= head'
      BY <1>6, <2>1, <2>2 DEF CounterAhead, QueueInv, Seqs
    <2>3. ASSUME NEW h \in open' PROVE seq'[h] = head'
      <3>1. h = QueueOf[m]
        BY <2>1, <2>3, WiringAssumption DEF OneHandle, QueueInv, TypeOK
      <3> QED  BY <1>1, <2>1, <3>1, WiringAssumption DEF AddJob, QueueInv, TypeOK
    <2> QED  BY <2>2, <2>3 DEF CounterAhead
  <1>12. ClaimedWhileOpen'
    BY DEF ClaimedWhileOpen, QueueInv, AddJob
  <1> QED  BY <1>8, <1>9, <1>10, <1>11, <1>12 DEF QueueInv

\* Take, Elapse, Fail and Retry change one row and the executors.
LEMMA OneRowKeeps ==
  ASSUME QueueInv, TypeOK', NEW t \in Seqs, open # {}, UNCHANGED <<open, seq>>,
         UNCHANGED <<dedupe, head, edits, settled>>,
         \A s \in Seqs : s # t => jobs'[s] = jobs[s],
         IF Has(t) THEN Restated(t) ELSE jobs'[t] = jobs[t],
         \/ /\ claimed' = claimed \cup {t}
            /\ In(t, "running")'
         \/ /\ claimed' = claimed \ {t}
            /\ ~In(t, "running")'
         \/ /\ claimed' = claimed
            /\ In(t, "running")' <=> In(t, "running")
            /\ Has(t)' <=> Has(t)
  PROVE  QueueInv'
  <1>1. \A s \in Seqs : IF Has(s) THEN Restated(s) ELSE jobs'[s] = jobs[s]
    BY DEF Restated
  <1>2. SameRows /\ DedupeSound' /\ NewestKept'
    BY <1>1, RestatedKeep
  <1>3. \A s \in Seqs : Has(s)' <=> Has(s)
    BY <1>2 DEF SameRows
  <1>4. \A s \in Seqs : s # t => (In(s, "running")' <=> In(s, "running"))
    BY DEF In, Has
  <1>5. claimed \in SUBSET Seqs /\ claimed' \in SUBSET Seqs
    BY DEF QueueInv, TypeOK
  <1>6. RunningIsClaimed'
    BY <1>3, <1>4, <1>5 DEF RunningIsClaimed, QueueInv
  <1>7. CounterAhead'
    <2>1. In(t, "running")' => Has(t)
      BY <1>3 DEF In
    <2> QED  BY <1>3, <1>5, <2>1 DEF CounterAhead, QueueInv, TypeOK
  <1> QED  BY <1>2, <1>6, <1>7 DEF QueueInv, ClaimedWhileOpen

LEMMA TakeKeeps ==
  ASSUME QueueInv, TypeOK', NEW s \in Seqs, Take(s)
  PROVE  QueueInv'
  <1>1. PICK j \in Job : j = jobs[s]
    BY RowIsJob DEF QueueInv, Take, In
  <1>2. jobs'[s] = [j EXCEPT !.state = "running"]
    BY <1>1 DEF QueueInv, TypeOK, Take
  <1>3. jobs'[s] \in Job /\ jobs'[s].state = "running"
    BY <1>1, <1>2 DEF Job, States
  <1>4. In(s, "running")'
    BY <1>3, NoJobAssumption DEF In, Has
  <1>5. Restated(s)
    BY <1>1, <1>2 DEF Restated, States
  <1>6. \A r \in Seqs : r # s => jobs'[r] = jobs[r]
    BY DEF QueueInv, TypeOK, Take
  <1> QED  BY <1>4, <1>5, <1>6, OneRowKeeps DEF Take, history, In

LEMMA ElapseKeeps ==
  ASSUME QueueInv, TypeOK', open # {}, NEW s \in Seqs, Elapse(s)
  PROVE  QueueInv'
  <1>1. PICK j \in Job : j = jobs[s] /\ j.state = "pending"
    BY RowIsJob DEF QueueInv, Elapse, In
  <1>2. jobs'[s] = [j EXCEPT !.due = TRUE]
    BY <1>1 DEF QueueInv, TypeOK, Elapse
  <1>3. jobs'[s] \in Job /\ jobs'[s].state = "pending"
    BY <1>1, <1>2 DEF Job
  <1>4. Has(s)' /\ Has(s) /\ ~In(s, "running")' /\ ~In(s, "running")
    BY <1>1, <1>3, NoJobAssumption DEF In, Has
  <1>5. Restated(s)
    BY <1>1, <1>2 DEF Restated
  <1>6. \A r \in Seqs : r # s => jobs'[r] = jobs[r]
    BY DEF QueueInv, TypeOK, Elapse
  <1> QED  BY <1>4, <1>5, <1>6, OneRowKeeps DEF Elapse, memory, history

\* The clock also runs while the process is down.
LEMMA ElapseClosedKeeps ==
  ASSUME QueueInv, TypeOK', open = {}, NEW s \in Seqs, Elapse(s)
  PROVE  QueueInv'
  <1>1. PICK j \in Job : j = jobs[s]
    BY RowIsJob DEF QueueInv, Elapse, In
  <1>2. jobs'[s] = [j EXCEPT !.due = TRUE]
    BY <1>1 DEF QueueInv, TypeOK, Elapse
  <1>3. \A r \in Seqs : IF Has(r) THEN Restated(r) ELSE jobs'[r] = jobs[r]
    <2>1. Restated(s)
      BY <1>1, <1>2 DEF Restated
    <2>2. \A r \in Seqs : r # s => jobs'[r] = jobs[r]
      BY DEF QueueInv, TypeOK, Elapse
    <2> QED  BY <2>1, <2>2 DEF Restated, Elapse, In
  <1>4. SameRows /\ DedupeSound' /\ NewestKept'
    BY <1>3, RestatedKeep DEF Elapse, history
  <1> QED  BY <1>4 DEF QueueInv, CounterAhead, ClaimedWhileOpen, RunningIsClaimed,
                       SameRows, Elapse, memory

\* An executor's end: fail and retry.
LEMMA EndKeeps ==
  ASSUME QueueInv, TypeOK', NEW s \in Seqs,
         \/ Retry(s)
         \/ \E permanent \in BOOLEAN : Fail(s, permanent)
  PROVE  QueueInv'
  <1>1. open # {} /\ UNCHANGED <<open, seq, dedupe, head, edits, settled>>
    BY DEF Retry, Fail, history, QueueInv, ClaimedWhileOpen
  <1>2. claimed' = claimed \ {s}
    BY DEF Retry, Fail
  <1>3. \A r \in Seqs : r # s => jobs'[r] = jobs[r]
    BY DEF QueueInv, TypeOK, Retry, Fail
  <1>4. CASE ~Has(s)
    <2>1. jobs' = jobs
      BY <1>4 DEF Retry, Fail
    <2> QED  BY <1>1, <1>2, <1>3, <1>4, <2>1, OneRowKeeps DEF In, Has
  <1>5. CASE Has(s)
    <2>1. PICK j \in Job : j = jobs[s]
      BY <1>5, RowIsJob DEF QueueInv
    <2>2. \/ jobs'[s] = [j EXCEPT !.state = "failed"]
          \/ \E d \in BOOLEAN : jobs'[s] = [j EXCEPT !.state = "pending", !.due = d]
      BY <1>5, <2>1 DEF QueueInv, TypeOK, Retry, Fail
    <2>3. ~In(s, "running")'
      BY <2>1, <2>2 DEF In, Job
    <2>4. Restated(s)
      BY <2>1, <2>2 DEF Restated, States
    <2> QED  BY <1>1, <1>2, <1>3, <1>5, <2>3, <2>4, OneRowKeeps
  <1> QED  BY <1>4, <1>5

\* complete, cancel, cancelByKey and clear.
LEMMA RemovalKeeps ==
  ASSUME QueueInv, TypeOK', NEW S \in SUBSET Seqs, Remove(S), open # {},
         claimed' = claimed \/ (\E s \in S : claimed' = claimed \ {s} /\ S = {s})
  PROVE  QueueInv'
  <1>1. /\ DedupeSound' /\ NewestKept'
        /\ \A s \in Seqs : Has(s)' => s \notin S /\ Has(s) /\ jobs'[s] = jobs[s]
    BY RemoveKeeps
  <1>2. claimed \in SUBSET Seqs
    BY DEF QueueInv, TypeOK
  <1>3. \A s \in Seqs : Has(s)' => (s \in claimed' <=> s \in claimed)
    BY <1>1
  <1>4. RunningIsClaimed'
    BY <1>1, <1>2, <1>3 DEF RunningIsClaimed, QueueInv, In, Remove
  <1>5. CounterAhead'
    BY <1>1, <1>2 DEF CounterAhead, QueueInv, Remove
  <1> QED  BY <1>1, <1>4, <1>5 DEF QueueInv, ClaimedWhileOpen, Remove

LEMMA QueueStep == OneHandle /\ QueueInv /\ [Next]_vars => QueueInv'
  <1> SUFFICES ASSUME OneHandle, QueueInv, [Next]_vars PROVE QueueInv'
    OBVIOUS
  <1>0. TypeOK'
    BY TypeStep DEF QueueInv
  <1>1. ASSUME NEW h \in Handles, Open(h) PROVE QueueInv'
    BY <1>0, <1>1, OpenKeeps
  <1>2. CASE Crash
    BY <1>0, <1>2, CrashKeeps
  <1>3. ASSUME NEW m \in Mirrors, NEW i \in Intents, Append(m, i) PROVE QueueInv'
    BY <1>0, <1>3, ReplaceKeeps, AddJobKeeps DEF Append
  <1>4. ASSUME NEW s \in Seqs, Take(s) PROVE QueueInv'
    BY <1>0, <1>4, TakeKeeps
  <1>5. ASSUME NEW s \in Seqs, Elapse(s) PROVE QueueInv'
    BY <1>0, <1>5, ElapseKeeps, ElapseClosedKeeps
  <1>6. ASSUME NEW s \in Seqs, Complete(s) PROVE QueueInv'
    <2>1. open # {}
      BY <1>6 DEF Complete, QueueInv, ClaimedWhileOpen
    <2> QED  BY <1>0, <1>6, <2>1, RemovalKeeps DEF Complete
  <1>7. ASSUME NEW s \in Seqs, Retry(s) PROVE QueueInv'
    BY <1>0, <1>7, EndKeeps
  <1>8. ASSUME NEW s \in Seqs, NEW permanent \in BOOLEAN, Fail(s, permanent) PROVE QueueInv'
    BY <1>0, <1>8, EndKeeps
  <1>9. ASSUME NEW s \in Seqs, Cancel(s) PROVE QueueInv'
    BY <1>0, <1>9, RemovalKeeps DEF Cancel
  <1>10. ASSUME NEW m \in Mirrors, NEW k \in Keys, CancelByKey(m, k) PROVE QueueInv'
    <2>1. Droppable(m, k) \in SUBSET Seqs
      BY DEF Droppable, ByKey
    <2> QED  BY <1>0, <1>10, <2>1, RemovalKeeps DEF CancelByKey
  <1>11. ASSUME NEW m \in Mirrors, Clear(m) PROVE QueueInv'
    BY <1>0, <1>11, RemovalKeeps DEF Clear
  <1>12. CASE UNCHANGED vars
    BY <1>0, <1>12 DEF vars, store, memory, history, QueueInv, CounterAhead, ClaimedWhileOpen,
       DedupeSound, RunningIsClaimed, NewestKept, Has, In, Of
  <1> QED
    BY <1>1, <1>2, <1>3, <1>4, <1>5, <1>6, <1>7, <1>8, <1>9, <1>10, <1>11, <1>12 DEF Next

\* The rows' identity over one step.
Kept(s) == jobs'[s].mirror = jobs[s].mirror /\ jobs'[s].intent = jobs[s].intent

LEMMA RowsStep ==
  ASSUME QueueInv, [Next]_vars, NEW s \in Seqs, Has(s), Has(s)'
  PROVE  Kept(s)
  <1>1. PICK j \in Job : j = jobs[s]
    BY RowIsJob DEF QueueInv
  <1>2. ASSUME NEW S \in SUBSET Seqs, Remove(S) PROVE Kept(s)
    BY <1>2, RemoveKeeps DEF Kept
  <1>3. ASSUME NEW h \in Handles, Open(h) PROVE Kept(s)
    <2>1. jobs'[s] = j \/ jobs'[s] = [j EXCEPT !.state = "pending"]
      BY <1>1, <1>3 DEF Open, Recovered
    <2> QED  BY <1>1, <2>1 DEF Job, Kept
  <1>4. ASSUME NEW m \in Mirrors, NEW i \in Intents, Append(m, i) PROVE Kept(s)
    <2>1. CASE Replace(m, i)
      <3>1. jobs'[s] = j \/ jobs'[s] = [j EXCEPT !.payload = edits[m][i] + 1]
        BY <1>1, <2>1 DEF Replace, QueueInv, TypeOK
      <3> QED  BY <1>1, <3>1 DEF Job, Kept
    <2>2. CASE AddJob(m, i)
      <3>1. s # seq[QueueOf[m]] + 1
        BY <1>4, <2>2, FreshRow
      <3> QED  BY <2>2, <3>1 DEF AddJob, QueueInv, TypeOK, Kept
    <2> QED  BY <1>4, <2>1, <2>2 DEF Append
  <1>5. ASSUME NEW r \in Seqs, Take(r) \/ Elapse(r) PROVE Kept(s)
    <2>1. \/ jobs'[s] = j
          \/ jobs'[s] = [j EXCEPT !.state = "running"]
          \/ jobs'[s] = [j EXCEPT !.due = TRUE]
      BY <1>1, <1>5 DEF Take, Elapse, QueueInv, TypeOK
    <2> QED  BY <1>1, <2>1 DEF Job, Kept
  <1>6. ASSUME NEW r \in Seqs, Retry(r) \/ \E permanent \in BOOLEAN : Fail(r, permanent)
        PROVE  Kept(s)
    <2>1. \/ jobs'[s] = j
          \/ jobs'[s] = [j EXCEPT !.state = "failed"]
          \/ \E d \in BOOLEAN : jobs'[s] = [j EXCEPT !.state = "pending", !.due = d]
      BY <1>1, <1>6 DEF Retry, Fail, QueueInv, TypeOK
    <2> QED  BY <1>1, <2>1 DEF Job, Kept
  <1>7. ASSUME NEW m \in Mirrors, NEW k \in Keys, CancelByKey(m, k) PROVE Kept(s)
    BY <1>2, <1>7 DEF CancelByKey, Droppable, ByKey
  <1>8. ASSUME NEW r \in Seqs, Complete(r) \/ Cancel(r) PROVE Kept(s)
    BY <1>2, <1>8 DEF Complete, Cancel
  <1>9. ASSUME NEW m \in Mirrors, Clear(m) PROVE Kept(s)
    BY <1>2, <1>9 DEF Clear
  <1>10. CASE Crash \/ UNCHANGED vars
    BY <1>10 DEF Crash, vars, store, Kept
  <1> QED
    BY <1>3, <1>4, <1>5, <1>6, <1>7, <1>8, <1>9, <1>10 DEF Next

\* A claimed row over one step.
Untouched(s) ==
    jobs'[s] = jobs[s] \/ (~Has(s)' /\ \E m \in Mirrors : Clear(m))

LEMMA ClaimedStep ==
  ASSUME OneHandle, QueueInv, [Next]_vars, NEW s \in claimed \cap claimed'
  PROVE  Untouched(s)
  <1>1. s \in Seqs /\ open # {}
    BY DEF QueueInv, TypeOK, ClaimedWhileOpen
  <1>2. ~In(s, "pending") /\ ~In(s, "failed")
    BY <1>1 DEF QueueInv, RunningIsClaimed, In
  <1>3. ASSUME NEW S \in SUBSET Seqs, Remove(S), s \notin S PROVE Untouched(s)
    BY <1>1, <1>3 DEF Remove, Untouched
  <1>4. ASSUME NEW h \in Handles, Open(h) PROVE Untouched(s)
    BY <1>1, <1>4 DEF Open, OneHandle, QueueInv, TypeOK
  <1>5. ASSUME NEW m \in Mirrors, NEW i \in Intents, Append(m, i) PROVE Untouched(s)
    <2>1. CASE Replace(m, i)
      BY <1>1, <1>2, <2>1 DEF Replace, Replaceable, QueueInv, TypeOK, Untouched
    <2>2. CASE AddJob(m, i)
      <3>1. s <= head
        BY <1>1 DEF QueueInv, CounterAhead
      <3>2. seq[QueueOf[m]] = head
        BY <1>5 DEF Append, QueueInv, CounterAhead
      <3>3. s # seq[QueueOf[m]] + 1
        BY <1>1, <3>1, <3>2, BoundsAssumption DEF QueueInv, TypeOK, Seqs
      <3> QED  BY <1>1, <2>2, <3>3 DEF AddJob, QueueInv, TypeOK, Untouched
    <2> QED  BY <1>5, <2>1, <2>2 DEF Append
  <1>6. ASSUME NEW r \in Seqs, Take(r) \/ Elapse(r) PROVE Untouched(s)
    BY <1>1, <1>2, <1>6 DEF Take, Elapse, QueueInv, TypeOK, Untouched
  <1>7. ASSUME NEW r \in Seqs, Retry(r) \/ \E permanent \in BOOLEAN : Fail(r, permanent)
        PROVE  Untouched(s)
    <2>1. s # r
      BY <1>7 DEF Retry, Fail
    <2> QED  BY <1>1, <1>7, <2>1 DEF Retry, Fail, QueueInv, TypeOK, Untouched
  <1>8. ASSUME NEW r \in Seqs, Complete(r) \/ Cancel(r) PROVE Untouched(s)
    <2>1. s # r
      BY <1>2, <1>8 DEF Complete, Cancel
    <2> QED  BY <1>3, <1>8, <2>1 DEF Complete, Cancel
  <1>9. ASSUME NEW m \in Mirrors, NEW k \in Keys, CancelByKey(m, k) PROVE Untouched(s)
    <2>1. Droppable(m, k) \in SUBSET Seqs
      BY DEF Droppable, ByKey
    <2>2. s \notin Droppable(m, k)
      <3>1. Has(s) => jobs[s].state = "running"
        BY <1>1 DEF QueueInv, RunningIsClaimed, In
      <3> QED  BY <3>1 DEF Droppable, ByKey
    <2> QED  BY <1>3, <1>9, <2>1, <2>2 DEF CancelByKey
  <1>10. ASSUME NEW m \in Mirrors, Clear(m) PROVE Untouched(s)
    BY <1>1, <1>10 DEF Clear, Remove, Has, Untouched
  <1>11. CASE Crash \/ UNCHANGED vars
    BY <1>11 DEF Crash, vars, store, memory, Untouched
  <1> QED
    BY <1>4, <1>5, <1>6, <1>7, <1>8, <1>9, <1>10, <1>11 DEF Next

-----------------------------------------------------------------------------

THEOREM QueueInvariant ==
  ASSUME OneHandle
  PROVE  Spec => []QueueInv
  <1>1. QueueInv /\ [Next]_vars => QueueInv'
    BY QueueStep
  <1> QED  BY <1>1, InitInv, PTL DEF Spec

\* With one queue object on the database a dedupe entry never dangles and never
\* leads to another intent's job (JobQueue.js:64-71, 128-133).
THEOREM DedupeIsSound ==
  ASSUME OneHandle
  PROVE  Spec => []DedupeSound
  <1>1. QueueInv => DedupeSound
    BY DEF QueueInv
  <1> QED  BY <1>1, QueueInvariant, PTL

\* The jobs marked running are those an executor works on: none is orphaned by
\* a crash, none is offered while it runs (JobQueue.js:107-124, 204-215).
THEOREM RunningHasExecutor ==
  ASSUME OneHandle
  PROVE  Spec => []RunningIsClaimed
  <1>1. QueueInv => RunningIsClaimed
    BY DEF QueueInv
  <1> QED  BY <1>1, QueueInvariant, PTL

\* The newest append of an intent stays queued until it is carried out or
\* dropped (JobQueue.js:53-93).
THEOREM NewestIsKept ==
  ASSUME OneHandle
  PROVE  Spec => []NewestKept
  <1>1. QueueInv => NewestKept
    BY DEF QueueInv
  <1> QED  BY <1>1, QueueInvariant, PTL

\* No append is ever written over another job (JobQueue.js:45, 72-89).
THEOREM RowsAreKept ==
  ASSUME OneHandle
  PROVE  Spec => RowsKeepIdentity
  <1>1. QueueInv /\ [Next]_vars =>
          [\A s \in Seqs : Has(s) /\ Has(s)' =>
              /\ jobs'[s].mirror = jobs[s].mirror
              /\ jobs'[s].intent = jobs[s].intent]_vars
    BY RowsStep DEF Kept
  <1> QED  BY <1>1, QueueInvariant, PTL DEF Spec, RowsKeepIdentity

\* What an executor works on is not changed under it, unless the whole queue is
\* cleared (JobQueue.js:56-57, 183-191).
THEOREM ClaimedIsUntouched ==
  ASSUME OneHandle
  PROVE  Spec => ClaimedUntouched
  <1>1. QueueInv /\ [Next]_vars =>
          [\A s \in claimed \cap claimed' :
              jobs'[s] = jobs[s] \/ (~Has(s)' /\ \E m \in Mirrors : Clear(m))]_vars
    BY ClaimedStep DEF Untouched
  <1> QED  BY <1>1, QueueInvariant, PTL DEF Spec, ClaimedUntouched

-----------------------------------------------------------------------------
(* What an intent's rows carry                                               *)

\* An intent's rows carry appends that were made, and the row with its newest
\* append is the one the dedupe entry names.
NewestNamed ==
    \A s \in Seqs, m \in Mirrors, i \in Intents :
        Of(s, m, i) =>
            /\ jobs[s].payload <= edits[m][i]
            /\ jobs[s].payload = edits[m][i] => dedupe[m][i] = s

\* Every row left was there, with what it carries, and its entry names it still.
Carried ==
    /\ edits' = edits
    /\ \A s \in Seqs : Has(s)' =>
          /\ Has(s)
          /\ jobs'[s].mirror = jobs[s].mirror
          /\ jobs'[s].intent = jobs[s].intent
          /\ jobs'[s].payload = jobs[s].payload
          /\ \A m \in Mirrors, i \in Intents : dedupe[m][i] = s => dedupe'[m][i] = s

LEMMA CarriedNamed ==
  ASSUME NewestNamed, Carried
  PROVE  NewestNamed'
  <1> SUFFICES ASSUME NEW s \in Seqs, NEW m \in Mirrors, NEW i \in Intents, Of(s, m, i)'
               PROVE  /\ jobs'[s].payload <= edits'[m][i]
                      /\ jobs'[s].payload = edits'[m][i] => dedupe'[m][i] = s
    BY DEF NewestNamed
  <1>1. Of(s, m, i)
    BY DEF Of, Carried
  <1> QED  BY <1>1 DEF NewestNamed, Carried, Of

LEMMA RemoveCarries ==
  ASSUME NEW S \in SUBSET Seqs, Remove(S)
  PROVE  Carried
  <1> SUFFICES ASSUME NEW s \in Seqs, Has(s)'
               PROVE  /\ jobs'[s] = jobs[s] /\ Has(s)
                      /\ \A m \in Mirrors, i \in Intents : dedupe[m][i] = s => dedupe'[m][i] = s
    BY DEF Carried, Remove
  <1>1. s \notin S
    BY DEF Remove, Has
  <1> QED  BY <1>1 DEF Remove, DedupeWithout, Has

\* Every step but an append.
LEMMA OthersCarry ==
  ASSUME TypeOK, [Next]_vars, \A m \in Mirrors, i \in Intents : ~Append(m, i)
  PROVE  Carried
  <1>1. ASSUME UNCHANGED <<dedupe, edits>>,
               \A s \in Seqs : jobs'[s] = jobs[s] \/ (Has(s) /\ Restated(s))
        PROVE  Carried
    <2> SUFFICES ASSUME NEW s \in Seqs, Has(s)'
                 PROVE  /\ Has(s)
                        /\ jobs'[s].mirror = jobs[s].mirror
                        /\ jobs'[s].intent = jobs[s].intent
                        /\ jobs'[s].payload = jobs[s].payload
      BY <1>1 DEF Carried
    <2>1. CASE jobs'[s] = jobs[s]
      BY <2>1 DEF Has
    <2>2. CASE Has(s) /\ Restated(s)
      <3>1. jobs[s] \in Job
        BY <2>2, RowIsJob
      <3> QED  BY <2>2, <3>1 DEF Restated, Job
    <2> QED  BY <1>1, <2>1, <2>2
  <1>2. ASSUME NEW h \in Handles, Open(h) PROVE Carried
    <2>1. \A s \in Seqs : jobs'[s] = jobs[s] \/ (Has(s) /\ Restated(s))
      BY <1>2 DEF Open, Recovered, Restated, In, States
    <2> QED  BY <1>1, <1>2, <2>1 DEF Open, history
  <1>3. CASE Crash \/ UNCHANGED vars
    BY <1>1, <1>3 DEF Crash, vars, store, history
  <1>4. ASSUME NEW s \in Seqs, Take(s) \/ Elapse(s) PROVE Carried
    <2>1. \A r \in Seqs : jobs'[r] = jobs[r] \/ (Has(r) /\ Restated(r))
      BY <1>4 DEF Take, Elapse, TypeOK, Restated, In, States
    <2> QED  BY <1>1, <1>4, <2>1 DEF Take, Elapse, history
  <1>5. ASSUME NEW s \in Seqs, Retry(s) \/ \E permanent \in BOOLEAN : Fail(s, permanent)
        PROVE  Carried
    <2>1. \A r \in Seqs : jobs'[r] = jobs[r] \/ (Has(r) /\ Restated(r))
      <3>1. CASE ~Has(s)
        BY <1>5, <3>1 DEF Retry, Fail
      <3>2. CASE Has(s)
        <4>1. PICK j \in Job : j = jobs[s]
          BY <3>2, RowIsJob
        <4>2. \/ jobs'[s] = [j EXCEPT !.state = "failed"]
              \/ \E d \in BOOLEAN : jobs'[s] = [j EXCEPT !.state = "pending", !.due = d]
          BY <1>5, <3>2, <4>1 DEF TypeOK, Retry, Fail
        <4>3. Restated(s)
          BY <4>1, <4>2 DEF Restated, States
        <4>4. \A r \in Seqs : r # s => jobs'[r] = jobs[r]
          BY <1>5, <3>2 DEF TypeOK, Retry, Fail
        <4> QED  BY <3>2, <4>3, <4>4
      <3> QED  BY <3>1, <3>2
    <2> QED  BY <1>1, <1>5, <2>1 DEF Retry, Fail, history
  <1>6. ASSUME NEW s \in Seqs, Complete(s) \/ Cancel(s) PROVE Carried
    BY <1>6, RemoveCarries DEF Complete, Cancel
  <1>7. ASSUME NEW m \in Mirrors, NEW k \in Keys, CancelByKey(m, k) PROVE Carried
    BY <1>7, RemoveCarries DEF CancelByKey, Droppable, ByKey
  <1>8. ASSUME NEW m \in Mirrors, Clear(m) PROVE Carried
    BY <1>8, RemoveCarries DEF Clear
  <1> QED
    BY <1>2, <1>3, <1>4, <1>5, <1>6, <1>7, <1>8 DEF Next

\* An append writes its number, which no row carries yet, into the row it
\* leaves the dedupe entry with.
LEMMA AppendNamed ==
  ASSUME QueueInv, NewestNamed, NEW m \in Mirrors, NEW i \in Intents, Append(m, i)
  PROVE  NewestNamed'
  <1>1. \A n \in Mirrors, k \in Intents : edits[n][k] \in Nat
    BY DEF QueueInv, TypeOK
  <1>2. /\ edits'[m][i] = edits[m][i] + 1
        /\ \A n \in Mirrors, k \in Intents : n # m \/ k # i => edits'[n][k] = edits[n][k]
    BY DEF Append, Replace, AddJob, Edit, QueueInv, TypeOK
  <1>3. PICK t \in Seqs :
            /\ dedupe'[m][i] = t
            /\ jobs'[t].mirror = m /\ jobs'[t].intent = i /\ jobs'[t].payload = edits[m][i] + 1
            /\ \A s \in Seqs : s # t => jobs'[s] = jobs[s]
            /\ \A n \in Mirrors, k \in Intents : n # m \/ k # i => dedupe'[n][k] = dedupe[n][k]
    <2>1. CASE Replace(m, i)
      <3>1. PICK t \in Seqs : t = dedupe[m][i] /\ Of(t, m, i)
        BY <2>1 DEF QueueInv, TypeOK, DedupeSound, Replace, Replaceable
      <3>2. PICK j \in Job : j = jobs[t]
        BY <3>1, RowIsJob DEF QueueInv, Of
      <3>3. PICK e \in Nat : e = edits[m][i] + 1
        BY <1>1
      <3>4. /\ jobs'[t] = [j EXCEPT !.payload = e]
            /\ \A s \in Seqs : s # t => jobs'[s] = jobs[s]
        BY <2>1, <3>1, <3>2, <3>3 DEF QueueInv, TypeOK, Replace
      <3>5. jobs'[t].mirror = m /\ jobs'[t].intent = i /\ jobs'[t].payload = e
        BY <3>1, <3>2, <3>4 DEF Of, Job
      <3> QED  BY <2>1, <3>1, <3>3, <3>4, <3>5 DEF Replace
    <2>2. CASE AddJob(m, i)
      BY <2>2 DEF AddJob, QueueInv, TypeOK
    <2> QED  BY <2>1, <2>2 DEF Append
  <1> SUFFICES ASSUME NEW s \in Seqs, NEW n \in Mirrors, NEW k \in Intents, Of(s, n, k)'
               PROVE  /\ jobs'[s].payload <= edits'[n][k]
                      /\ jobs'[s].payload = edits'[n][k] => dedupe'[n][k] = s
    BY DEF NewestNamed
  <1>4. CASE s = t
    BY <1>1, <1>2, <1>3, <1>4 DEF Of
  <1>5. CASE s # t
    <2>1. Of(s, n, k) /\ jobs'[s] = jobs[s]
      BY <1>3, <1>5 DEF Of, Has
    <2>2. jobs[s].payload <= edits[n][k] /\ (jobs[s].payload = edits[n][k] => dedupe[n][k] = s)
      BY <2>1 DEF NewestNamed
    <2>3. jobs[s].payload \in Nat
      BY <2>1, RowIsJob DEF QueueInv, Of, Job
    <2>4. CASE n = m /\ k = i
      BY <1>1, <1>2, <2>1, <2>2, <2>3, <2>4
    <2>5. CASE n # m \/ k # i
      BY <1>2, <1>3, <2>1, <2>2, <2>5
    <2> QED  BY <2>4, <2>5
  <1> QED  BY <1>4, <1>5

LEMMA NamedStep ==
  ASSUME QueueInv, NewestNamed, [Next]_vars
  PROVE  NewestNamed'
  <1>1. CASE \E m \in Mirrors, i \in Intents : Append(m, i)
    BY <1>1, AppendNamed
  <1>2. CASE \A m \in Mirrors, i \in Intents : ~Append(m, i)
    BY <1>2, OthersCarry, CarriedNamed DEF QueueInv
  <1> QED  BY <1>1, <1>2

LEMMA SavedStep ==
  ASSUME QueueInv, NewestNamed, [Next]_vars, NEW m \in Mirrors, NEW i \in Intents,
         edits'[m][i] # edits[m][i],
         \E s \in Seqs : Of(s, m, i) /\ jobs[s].state = "pending" /\ jobs[s].payload = edits[m][i]
  PROVE  {s \in Seqs : Has(s)'} = {s \in Seqs : Has(s)}
  <1>1. PICK n \in Mirrors, k \in Intents : Append(n, k)
    BY OthersCarry DEF QueueInv, Carried
  <1>2. n = m /\ k = i
    BY <1>1 DEF Append, Replace, AddJob, Edit, QueueInv, TypeOK
  <1>3. PICK s \in Seqs : dedupe[m][i] = s /\ In(s, "pending")
    BY DEF NewestNamed, Of, In
  <1>4. Replace(m, i)
    BY <1>1, <1>2, <1>3 DEF Append, AddJob, Replaceable, Seqs, NoSeq
  <1>5. /\ \A r \in Seqs : r # s => jobs'[r] = jobs[r]
        /\ Has(s)'
    <2>1. PICK j \in Job : j = jobs[s]
      BY <1>3, RowIsJob DEF QueueInv, In
    <2>2. PICK e \in Nat : e = edits[m][i] + 1
      BY DEF QueueInv, TypeOK
    <2>3. /\ jobs'[s] = [j EXCEPT !.payload = e]
          /\ \A r \in Seqs : r # s => jobs'[r] = jobs[r]
      BY <1>3, <1>4, <2>1, <2>2 DEF QueueInv, TypeOK, Replace
    <2>4. jobs'[s] \in Job
      BY <2>1, <2>2, <2>3 DEF Job
    <2> QED  BY <2>3, <2>4, NoJobAssumption DEF Has
  <1> QED  BY <1>3, <1>5 DEF Has, In

\* While the newest append of an intent waits, another one adds no row: the
\* dedupe entry leads to it (JobQueue.js:66-71).
THEOREM SavedAgainOnce ==
  ASSUME OneHandle
  PROVE  Spec => SavedAgainIsOneJob
  <1>1. Init => NewestNamed
    BY DEF Init, NewestNamed, Of, Has
  <1>2. QueueInv /\ NewestNamed /\ [Next]_vars => NewestNamed'
    BY NamedStep
  <1>3. QueueInv /\ NewestNamed /\ [Next]_vars =>
          [\A m \in Mirrors, i \in Intents :
              (/\ edits'[m][i] # edits[m][i]
               /\ \E s \in Seqs : /\ Of(s, m, i) /\ jobs[s].state = "pending"
                                  /\ jobs[s].payload = edits[m][i])
              => {s \in Seqs : Has(s)'} = {s \in Seqs : Has(s)}]_vars
    BY SavedStep
  <1> QED  BY <1>1, <1>2, <1>3, QueueInvariant, PTL DEF Spec, SavedAgainIsOneJob

=============================================================================
