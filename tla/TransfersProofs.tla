----------------------------- MODULE TransfersProofs -----------------------------
(***************************************************************************)
(* Theorems about ContentIndex and Transfers. The first part follows one    *)
(* write of the index: #append (Coalesced) and what the log says after it   *)
(* (Told), one put or delete (Writes), and the idioms of its callers        *)
(* (Freed, Owned). Core is then inductive: types, and an index whose rows,  *)
(* entries and log agree on every key that is not claimed twice. Ends is    *)
(* what the steps of a move know of its two ends. Settling is what makes    *)
(* QuietAgrees inductive: whatever index and disk disagree about is in      *)
(* doubt, or a transfer, the watcher or a held unlink still has it.         *)
(***************************************************************************)
EXTENDS Transfers, SequenceTheorems, FiniteSetTheorems, TLAPS

-----------------------------------------------------------------------------
(***************************************************************************)
(* Sequences and greatest members                                           *)
(***************************************************************************)

\* SetToSeq lists a finite set.
LEMMA Enumeration ==
  ASSUME NEW S, IsFiniteSet(S)
  PROVE  /\ SetToSeq(S) \in Seq(S)
         /\ \A x \in S : \E i \in 1 .. Len(SetToSeq(S)) : SetToSeq(S)[i] = x
  <1> DEFINE n == Cardinality(S)
  <1>1. n \in Nat /\ ExistsBijection(1..n, S)
    BY FS_CardinalityType
  <1>2. PICK g \in Bijection(1..n, S) : TRUE
    BY <1>1 DEF ExistsBijection
  <1>3. g \in [1..n -> S] /\ IsInjective(g)
    BY <1>2 DEF Bijection, Injection, IsInjective
  <1> DEFINE f == SetToSeq(S)
  <1>4. f \in [1..n -> S] /\ IsInjective(f)
    BY <1>3 DEF SetToSeq
  <1> HIDE DEF f, n
  <1>5. f \in Injection(1..n, S)
    BY <1>4 DEF Injection, IsInjective
  <1>6. IsFiniteSet(1..n) /\ Cardinality(1..n) = n
    BY <1>1, FS_Interval
  <1>7. f \in Surjection(1..n, S)
    BY <1>5, <1>6, FS_Injection DEF n
  <1>8. f \in Seq(S) /\ Len(f) = n
    BY <1>1, <1>4
  <1> QED
    BY <1>7, <1>8 DEF Surjection, f

\* A bounded set of positions that is not empty has a greatest one: the sets
\* x..max of its members x have a smallest among them.
LEMMA Greatest ==
  ASSUME NEW max \in Nat, NEW T \in SUBSET (1..max), T # {}
  PROVE  Max(T) \in T /\ \A y \in T : y <= Max(T)
  <1> DEFINE Base == 1..max
  <1> DEFINE Above == {x..max : x \in T}
  <1>1. IsFiniteSet(Base)
    BY FS_Interval
  <1>2. IsWellFoundedOn(StrictSubsetOrdering(Base), SUBSET Base)
    BY <1>1, FS_StrictSubsetOrderingWellFounded, FS_FiniteSubsetsOfFinite
  <1>3. Above \subseteq SUBSET Base /\ Above # {}
    <2>1. PICK x \in T : TRUE
      OBVIOUS
    <2>2. x..max \in Above
      BY <2>1
    <2>3. ASSUME NEW y \in T  PROVE y..max \in SUBSET Base
      BY <2>3
    <2> QED  BY <2>2, <2>3
  <1>4. \E X \in Above : \A Y \in Above : ~ (<<Y, X>> \in StrictSubsetOrdering(Base))
    <2> HIDE DEF Base, Above
    <2> QED  BY <1>2, <1>3, WFMin
  <1>5. PICK X \in Above : \A Y \in Above : ~ (Y \subseteq X /\ Y # X)
    <2>1. PICK X \in Above : \A Y \in Above : ~ (<<Y, X>> \in StrictSubsetOrdering(Base))
      BY <1>4
    <2>2. ASSUME NEW Y \in Above, Y \subseteq X, Y # X  PROVE FALSE
      BY <2>1, <2>2, <1>3 DEF StrictSubsetOrdering
    <2> QED  BY <2>1, <2>2
  <1>6. PICK x \in T : X = x..max
    BY <1>5
  <1>7. ASSUME NEW y \in T  PROVE y <= x
    <2>1. SUFFICES ASSUME ~ (y <= x)  PROVE FALSE
      OBVIOUS
    <2>2. x \in Int /\ y \in Int /\ x < y /\ x <= max
      BY <2>1
    <2>3. y..max \subseteq x..max /\ y..max # x..max
      BY <2>2
    <2>4. y..max \in Above
      OBVIOUS
    <2> QED  BY <2>3, <2>4, <1>5, <1>6
  <1>8. \A y \in T : x >= y
    BY <1>7
  <1> QED
    BY <1>8 DEF Max

-----------------------------------------------------------------------------
(***************************************************************************)
(* What a change log says                                                   *)
(***************************************************************************)

About(log, k) == {s \in 1 .. Len(log) : log[s].key = k \/ log[s].from = k}
Word(e, k) == IF e.key = k /\ e.op # "delete" THEN e.c ELSE None
Told(log, k) == IF About(log, k) = {} THEN Indexed.owner[k] ELSE Word(log[Max(About(log, k))], k)

\* All that a transaction that began at tx has logged so far is deletes.
OnlyGone(log, tx) == \A s \in 1 .. Len(log) : s > tx => log[s].op = "delete" /\ log[s].from = None

\* If the entries about k from p on say the same, so does the log.
LEMMA ToldLast ==
  ASSUME NEW log \in Seq(Entry), NEW k, NEW p \in About(log, k),
         \A s \in About(log, k) : s >= p => Word(log[s], k) = Word(log[p], k)
  PROVE  Told(log, k) = Word(log[p], k)
  <1>1. Len(log) \in Nat /\ About(log, k) \in SUBSET (1 .. Len(log)) /\ About(log, k) # {}
    BY DEF About
  <1>2. Max(About(log, k)) \in About(log, k) /\ p <= Max(About(log, k))
    BY <1>1, Greatest
  <1>3. Max(About(log, k)) >= p
    BY <1>1, <1>2
  <1> QED
    BY <1>1, <1>2, <1>3 DEF Told

\* Logs that say the same at the same places say the same.
LEMMA ToldSame ==
  ASSUME NEW log \in Seq(Entry), NEW new \in Seq(Entry), NEW k, About(new, k) = About(log, k),
         \A s \in About(log, k) : Word(new[s], k) = Word(log[s], k)
  PROVE  Told(new, k) = Told(log, k)
  <1>1. CASE About(log, k) = {}
    BY <1>1 DEF Told
  <1>2. CASE About(log, k) # {}
    <2>1. Len(log) \in Nat /\ About(log, k) \in SUBSET (1 .. Len(log))
      BY DEF About
    <2>2. Max(About(log, k)) \in About(log, k)
      BY <1>2, <2>1, Greatest
    <2> QED
      BY <1>2, <2>2 DEF Told
  <1> QED
    BY <1>1, <1>2

LEMMA MergedType ==
  ASSUME NEW prior \in Entry, NEW entry \in Entry
  PROVE  Merged(prior, entry) \in Entry /\ Merged(prior, entry).key = entry.key
  BY DEF Merged, Entry

\* new is log with the entries news of a transaction that began at tx: old
\* entries stay at their places, and every new one has one.
Extends(new, log, tx, K, news) ==
  /\ new \in Seq(Entry) /\ Len(new) >= Len(log)
  /\ \A s \in 1 .. Len(log) :
       new[s] = IF s > tx /\ log[s].key \in K THEN Merged(log[s], news[log[s].key]) ELSE log[s]
  /\ \A s \in 1 .. Len(new) : s > Len(log) => \E k \in K : new[s] = news[k]
  /\ \A k \in K : \/ \E s \in tx + 1 .. Len(log) : log[s].key = k
                  \/ \E s \in 1 .. Len(new) : s > Len(log) /\ new[s] = news[k]

LEMMA CoalescedShape ==
  ASSUME NEW log \in Seq(Entry), NEW tx \in Nat, NEW K \in SUBSET Locs, NEW news \in [K -> Entry],
         \A k \in K : news[k].key = k,
         NEW new, new = Coalesced(log, tx, news)
  PROVE  Extends(new, log, tx, K, news)
  <1> DEFINE rest == {k \in K : \A s \in tx + 1 .. Len(log) : log[s].key # k}
             fresh == SetToSeq(rest)
             old == [s \in 1 .. Len(log) |-> IF s > tx /\ log[s].key \in K
                                            THEN Merged(log[s], news[log[s].key]) ELSE log[s]]
             tail == [i \in 1 .. Len(fresh) |-> news[fresh[i]]]
  <1>1. DOMAIN news = K /\ new = old \o tail
    BY DEF Coalesced
  <1>2. IsFiniteSet(rest) /\ rest \subseteq K
    BY FiniteAssumption, FS_Subset
  <1>3. fresh \in Seq(rest) /\ \A k \in rest : \E i \in 1 .. Len(fresh) : fresh[i] = k
    BY <1>2, Enumeration
  <1>4. Len(log) \in Nat /\ Len(fresh) \in Nat /\ \A s \in 1 .. Len(log) : log[s] \in Entry
    BY <1>3
  <1>5. ASSUME NEW s \in 1 .. Len(log)  PROVE old[s] \in Entry
    <2>1. CASE s > tx /\ log[s].key \in K
      <3>1. news[log[s].key] \in Entry /\ log[s] \in Entry
        BY <1>4, <2>1
      <3>2. Merged(log[s], news[log[s].key]) \in Entry
        BY <3>1, MergedType
      <3> QED  BY <2>1, <3>2
    <2>2. CASE ~ (s > tx /\ log[s].key \in K)
      BY <1>4, <2>2
    <2> QED  BY <2>1, <2>2
  <1>6. \A i \in 1 .. Len(fresh) : fresh[i] \in K /\ tail[i] \in Entry
    <2>1. \A i \in 1 .. Len(fresh) : fresh[i] \in rest
      BY <1>3, ElementOfSeq
    <2>2. \A i \in 1 .. Len(fresh) : fresh[i] \in K
      BY <1>2, <2>1
    <2> HIDE DEF fresh, rest
    <2> QED  BY <2>2
  <1>7. old \in Seq(Entry) /\ Len(old) = Len(log)
    BY <1>4, <1>5
  <1>8. tail \in Seq(Entry) /\ Len(tail) = Len(fresh)
    <2> HIDE DEF fresh, rest
    <2> QED  BY <1>4, <1>6
  <1>9. new \in Seq(Entry) /\ Len(new) = Len(log) + Len(fresh)
    <2>1. new = old \o tail
      BY <1>1
    <2> HIDE DEF old, tail, fresh, rest
    <2>2. new \in Seq(Entry) /\ Len(new) = Len(old) + Len(tail)
      BY <2>1, <1>7, <1>8, ConcatProperties
    <2> QED  BY <2>2, <1>7, <1>8
  <1>10. \A s \in 1 .. Len(log) : new[s] = old[s]
    BY <1>1, <1>4, <1>7, <1>8
  <1>11. \A i \in 1 .. Len(fresh) : new[Len(log) + i] = tail[i]
    <2>1. new = old \o tail
      BY <1>1
    <2> HIDE DEF old, tail, fresh, rest
    <2>2. \A i \in 1 .. Len(old) + Len(tail) : new[i] = IF i <= Len(old) THEN old[i] ELSE tail[i - Len(old)]
      BY <2>1, <1>7, <1>8, ConcatProperties
    <2> QED  BY <2>2, <1>4, <1>7, <1>8
  <1> HIDE DEF rest, fresh
  <1>12. ASSUME NEW s \in 1 .. Len(new), s > Len(log)  PROVE \E k \in K : new[s] = news[k]
    <2>1. s - Len(log) \in 1 .. Len(fresh) /\ Len(log) + (s - Len(log)) = s
      BY <1>4, <1>9, <1>12
    <2>2. new[s] = news[fresh[s - Len(log)]]
      BY <1>11, <2>1
    <2> QED  BY <1>6, <2>1, <2>2
  <1>13. ASSUME NEW k \in K, ~ \E s \in tx + 1 .. Len(log) : log[s].key = k
         PROVE \E s \in 1 .. Len(new) : s > Len(log) /\ new[s] = news[k]
    <2>1. k \in rest
      BY <1>13 DEF rest
    <2>2. PICK i \in 1 .. Len(fresh) : fresh[i] = k
      BY <1>3, <2>1
    <2>3. Len(log) + i \in 1 .. Len(new) /\ Len(log) + i > Len(log) /\ new[Len(log) + i] = news[k]
      BY <1>4, <1>9, <1>11, <2>2
    <2> QED  BY <2>3
  <1>14. Len(new) >= Len(log)
    BY <1>4, <1>9
  <1> QED
    BY <1>9, <1>10, <1>12, <1>13, <1>14 DEF Extends

\* After #append of news the log says what news says; a key that a rename came
\* from is nowhere; about other keys it says what it said.
Says(new, log, tx, K, news) ==
  /\ new \in Seq(Entry) /\ tx <= Len(new)
  /\ \A k \in K : Told(new, k) = Word(news[k], k)
  /\ \A k \in Locs \ K : (\E m \in K : news[m].from = k) => Told(new, k) = None
  /\ \A k \in Locs \ K : (\A m \in K : news[m].from # k) => Told(new, k) = Told(log, k)
  /\ (\A k \in K : news[k].op = "delete" /\ news[k].from = None) => OnlyGone(new, tx)

LEMMA CoalescedSays ==
  ASSUME NEW log \in Seq(Entry), NEW tx \in Nat, tx <= Len(log), NEW K \in SUBSET Locs, NEW news \in [K -> Entry],
         \A k \in K : news[k].key = k,
         \A m \in K, k \in K : news[m].from # k,
         OnlyGone(log, tx),
         NEW new, new = Coalesced(log, tx, news)
  PROVE  Says(new, log, tx, K, news)
  <1>1. /\ new \in Seq(Entry) /\ Len(new) >= Len(log)
        /\ \A s \in 1 .. Len(log) :
             new[s] = IF s > tx /\ log[s].key \in K THEN Merged(log[s], news[log[s].key]) ELSE log[s]
        /\ \A s \in 1 .. Len(new) : s > Len(log) => \E k \in K : new[s] = news[k]
        /\ \A k \in K : \/ \E s \in tx + 1 .. Len(log) : log[s].key = k
                        \/ \E s \in 1 .. Len(new) : s > Len(log) /\ new[s] = news[k]
    <2>1. Extends(new, log, tx, K, news)
      BY CoalescedShape
    <2> QED  BY <2>1 DEF Extends
  <1>2. /\ Len(log) \in Nat /\ Len(new) \in Nat /\ tx <= Len(new)
        /\ \A s \in 1 .. Len(log) : log[s] \in Entry
        /\ \A s \in 1 .. Len(new) : new[s] \in Entry
    BY <1>1, ElementOfSeq, LenProperties
  <1>3. ASSUME NEW s \in 1 .. Len(log), s > tx, log[s].key \in K  PROVE new[s] = news[log[s].key]
    BY <1>1, <1>3 DEF OnlyGone, Merged
  <1>4. ASSUME NEW s \in 1 .. Len(new)
        PROVE  \/ s > tx /\ \E k \in K : new[s] = news[k]
               \/ s \in 1 .. Len(log) /\ new[s] = log[s] /\ (s > tx => log[s].key \notin K)
    <2>1. CASE s > Len(log)
      BY <1>1, <1>2, <2>1
    <2>2. CASE s <= Len(log) /\ s > tx /\ log[s].key \in K
      BY <1>2, <1>3, <2>2
    <2>3. CASE s <= Len(log) /\ ~ (s > tx /\ log[s].key \in K)
      BY <1>1, <1>2, <2>3
    <2> QED  BY <1>2, <2>1, <2>2, <2>3
  <1>5. ASSUME NEW k \in K  PROVE \E s \in 1 .. Len(new) : s > tx /\ new[s] = news[k]
    <2>1. CASE \E s \in tx + 1 .. Len(log) : log[s].key = k
      <3>1. PICK s \in tx + 1 .. Len(log) : log[s].key = k
        BY <2>1
      <3>2. s \in 1 .. Len(log) /\ s \in 1 .. Len(new) /\ s > tx
        BY <1>1, <1>2
      <3> QED  BY <1>3, <3>1, <3>2
    <2>2. CASE \E s \in 1 .. Len(new) : s > Len(log) /\ new[s] = news[k]
      BY <1>2, <2>2
    <2> QED  BY <1>1, <2>1, <2>2
  <1>6. ASSUME NEW k \in K  PROVE Told(new, k) = Word(news[k], k)
    <2>1. PICK p \in 1 .. Len(new) : p > tx /\ new[p] = news[k]
      BY <1>5
    <2>2. p \in About(new, k)
      BY <2>1 DEF About
    <2>3. ASSUME NEW s \in About(new, k), s >= p  PROVE Word(new[s], k) = Word(news[k], k)
      <3>1. s \in 1 .. Len(new) /\ s > tx /\ (new[s].key = k \/ new[s].from = k)
        BY <1>2, <2>1, <2>3 DEF About
      <3>2. CASE \E m \in K : new[s] = news[m]
        BY <3>1, <3>2
      <3>3. CASE s \in 1 .. Len(log) /\ new[s] = log[s] /\ log[s].key \notin K
        BY <3>1, <3>3, NoneAssumption DEF OnlyGone
      <3> QED  BY <1>4, <3>1, <3>2, <3>3
    <2>4. \A s \in About(new, k) : s >= p => Word(new[s], k) = Word(new[p], k)
      BY <2>1, <2>3
    <2> QED  BY <1>1, <2>1, <2>2, <2>4, ToldLast
  <1>7. ASSUME NEW k \in Locs \ K, NEW m \in K, news[m].from = k  PROVE Told(new, k) = None
    <2>1. PICK p \in 1 .. Len(new) : p > tx /\ new[p] = news[m]
      BY <1>5
    <2>2. p \in About(new, k)
      BY <1>7, <2>1 DEF About
    <2>3. ASSUME NEW s \in About(new, k), s >= p  PROVE Word(new[s], k) = None
      <3>1. s \in 1 .. Len(new) /\ s > tx
        BY <1>2, <2>1, <2>3 DEF About
      <3>2. CASE \E n \in K : new[s] = news[n]
        BY <3>2 DEF Word
      <3>3. CASE s \in 1 .. Len(log) /\ new[s] = log[s]
        BY <3>1, <3>3 DEF OnlyGone, Word
      <3> QED  BY <1>4, <3>1, <3>2, <3>3
    <2>4. \A s \in About(new, k) : s >= p => Word(new[s], k) = Word(new[p], k)
      BY <2>2, <2>3, <1>2
    <2> QED  BY <1>1, <1>2, <2>2, <2>3, <2>4, ToldLast
  <1>8. ASSUME NEW k \in Locs \ K, \A m \in K : news[m].from # k  PROVE Told(new, k) = Told(log, k)
    <2>1. ASSUME NEW s \in About(new, k)  PROVE s \in 1 .. Len(log) /\ new[s] = log[s]
      <3>1. s \in 1 .. Len(new) /\ (new[s].key = k \/ new[s].from = k)
        BY <2>1 DEF About
      <3>2. ~ \E m \in K : new[s] = news[m]
        BY <1>8, <3>1
      <3> QED  BY <1>4, <3>1, <3>2
    <2>2. About(new, k) \subseteq About(log, k)
      BY <2>1 DEF About
    <2>3. ASSUME NEW s \in About(log, k)  PROVE s \in About(new, k)
      <3>1. s \in 1 .. Len(log) /\ s \in 1 .. Len(new) /\ (log[s].key = k \/ log[s].from = k)
        BY <1>1, <1>2, <2>3 DEF About
      <3>2. CASE s > tx /\ log[s].key \in K
        BY <3>1, <3>2, NoneAssumption DEF OnlyGone
      <3>3. CASE ~ (s > tx /\ log[s].key \in K)
        BY <1>1, <3>1, <3>3 DEF About
      <3> QED  BY <3>2, <3>3
    <2>4. About(new, k) = About(log, k)
      BY <2>2, <2>3
    <2>5. \A s \in About(log, k) : Word(new[s], k) = Word(log[s], k)
      BY <2>1, <2>4
    <2> QED  BY <1>1, <2>4, <2>5, ToldSame
  <1>9. ASSUME \A k \in K : news[k].op = "delete" /\ news[k].from = None  PROVE OnlyGone(new, tx)
    <2>1. ASSUME NEW s \in 1 .. Len(new), s > tx  PROVE new[s].op = "delete" /\ new[s].from = None
      <3>1. CASE \E n \in K : new[s] = news[n]
        BY <1>9, <3>1
      <3>2. CASE s \in 1 .. Len(log) /\ new[s] = log[s]
        BY <2>1, <3>2 DEF OnlyGone
      <3> QED  BY <1>4, <3>1, <3>2
    <2> QED  BY <2>1 DEF OnlyGone
  <1> QED
    BY <1>1, <1>2, <1>6, <1>7, <1>8, <1>9 DEF Says

-----------------------------------------------------------------------------
(***************************************************************************)
(* What one call of the index does                                          *)
(***************************************************************************)

\* y is x with the log entries of the difference, which say it.
Diffed(y, x, tx, c, removed, added) ==
  /\ y = [x EXCEPT !.log = y.log]
  /\ y.log \in Seq(Entry) /\ tx <= Len(y.log)
  /\ \A k \in Locs : Told(y.log, k) = IF k \in added THEN c ELSE IF k \in removed THEN None ELSE Told(x.log, k)
  /\ added = {} => OnlyGone(y.log, tx)

LEMMA GoneEntry ==
  ASSUME NEW k \in Locs, NEW c \in Contents
  PROVE  /\ Gone(k, c) \in Entry /\ Gone(k, c).key = k /\ Gone(k, c).op = "delete" /\ Gone(k, c).from = None
         /\ Word(Gone(k, c), k) = None
  BY DEF Gone, Entry, Word

LEMMA LogDiffSays ==
  ASSUME NEW x \in IndexType, NEW tx \in Nat, tx <= Len(x.log), OnlyGone(x.log, tx),
         NEW c \in Contents, NEW removed \in SUBSET Locs, NEW added \in SUBSET Locs, removed \cap added = {},
         NEW rename \in {None} \cup [from: Locs, to: Locs]
  PROVE  Diffed(LogDiff(x, tx, c, removed, added, rename), x, tx, c, removed, added)
  <1> DEFINE paired == IF rename = None THEN FALSE ELSE rename.from \in removed /\ rename.to \in added
             left == IF paired THEN removed \ {rename.from} ELSE removed
             gone == [k \in left |-> Gone(k, c)]
             here == [k \in added |->
                        IF paired /\ k = rename.to
                        THEN [op |-> "rename", key |-> k, c |-> c, from |-> rename.from]
                        ELSE [op |-> "put", key |-> k, c |-> c, from |-> None]]
             mid == Coalesced(x.log, tx, gone)
             new == Coalesced(mid, tx, here)
             y == LogDiff(x, tx, c, removed, added, rename)
  <1>1. y = [x EXCEPT !.log = new]
    BY DEF LogDiff
  <1>2. x.log \in Seq(Entry) /\ y.log = new /\ y = [x EXCEPT !.log = y.log]
    BY <1>1 DEF IndexType
  <1>3. /\ left \in SUBSET Locs /\ gone \in [left -> Entry]
        /\ \A k \in left : gone[k].key = k /\ gone[k].op = "delete" /\ gone[k].from = None /\ Word(gone[k], k) = None
    <2> HIDE DEF paired
    <2>1. left \in SUBSET Locs
      OBVIOUS
    <2>2. \A k \in left : gone[k] = Gone(k, c)
      OBVIOUS
    <2> HIDE DEF left, gone
    <2>3. \A k \in left : Gone(k, c) \in Entry
      BY <2>1, GoneEntry
    <2>4. gone \in [left -> Entry]
      BY <2>3 DEF gone
    <2> QED  BY <2>1, <2>2, <2>4, GoneEntry
  <1>4. /\ here \in [added -> Entry]
        /\ \A k \in added : here[k].key = k /\ Word(here[k], k) = c
        /\ \A k \in added : here[k].from = None \/ (paired /\ k = rename.to /\ here[k].from = rename.from)
        /\ paired => rename.to \in added /\ rename.from \in removed /\ here[rename.to].from = rename.from
    <2>1. paired => rename.from \in removed /\ rename.to \in added /\ rename.from \in Locs
      OBVIOUS
    <2> HIDE DEF paired
    <2>2. ASSUME NEW k \in added
          PROVE  /\ here[k] \in Entry /\ here[k].key = k /\ Word(here[k], k) = c
                 /\ here[k].from = None \/ (paired /\ k = rename.to /\ here[k].from = rename.from)
      <3>1. CASE paired /\ k = rename.to
        BY <2>1, <3>1 DEF Entry, Word
      <3>2. CASE ~ (paired /\ k = rename.to)
        BY <3>2 DEF Entry, Word
      <3> QED  BY <3>1, <3>2
    <2> QED  BY <2>1, <2>2
  <1> HIDE DEF gone, here, mid, new, y
  <1>5. /\ mid \in Seq(Entry) /\ tx <= Len(mid)
        /\ \A k \in left : Told(mid, k) = Word(gone[k], k)
        /\ \A k \in Locs \ left : (\A m \in left : gone[m].from # k) => Told(mid, k) = Told(x.log, k)
        /\ OnlyGone(mid, tx)
    <2>1. \A m \in left, k \in left : gone[m].from # k
      BY <1>3, NoneAssumption
    <2> HIDE DEF left
    <2>2. Says(mid, x.log, tx, left, gone)
      BY <1>2, <1>3, <2>1, CoalescedSays DEF mid
    <2> QED  BY <1>3, <2>2 DEF Says
  <1>6. \A k \in Locs : Told(mid, k) = IF k \in left THEN None ELSE Told(x.log, k)
    BY <1>3, <1>5, NoneAssumption
  <1>7. /\ new \in Seq(Entry) /\ tx <= Len(new)
        /\ \A k \in added : Told(new, k) = Word(here[k], k)
        /\ \A k \in Locs \ added : (\E m \in added : here[m].from = k) => Told(new, k) = None
        /\ \A k \in Locs \ added : (\A m \in added : here[m].from # k) => Told(new, k) = Told(mid, k)
        /\ (\A k \in added : here[k].op = "delete" /\ here[k].from = None) => OnlyGone(new, tx)
    <2>1. \A m \in added, k \in added : here[m].from # k
      BY <1>4, NoneAssumption
    <2> HIDE DEF left, paired
    <2>2. Says(new, mid, tx, added, here)
      BY <1>4, <1>5, <2>1, CoalescedSays DEF new
    <2> QED  BY <2>2 DEF Says
  <1>8. ASSUME NEW k \in Locs
        PROVE  Told(new, k) = IF k \in added THEN c ELSE IF k \in removed THEN None ELSE Told(x.log, k)
    <2>1. CASE k \in added
      BY <1>4, <1>7, <2>1
    <2>2. CASE k \notin added /\ paired /\ k = rename.from
      BY <1>4, <1>7, <2>2
    <2>3. CASE k \notin added /\ ~ (paired /\ k = rename.from)
      <3>1. \A m \in added : here[m].from # k
        BY <1>4, <2>3, NoneAssumption
      <3>2. k \in left <=> k \in removed
        BY <2>3
      <3> QED  BY <1>6, <1>7, <2>3, <3>1, <3>2
    <2> QED  BY <2>1, <2>2, <2>3
  <1>9. added = {} => OnlyGone(new, tx)
    BY <1>7
  <1> QED
    BY <1>2, <1>7, <1>8, <1>9 DEF Diffed, y

\* Outside X an index is sound: rows and entries agree, and the log explains
\* the rows.
Agrees(x, X) == \A k \in Locs \ X, c \in Contents : (x.locs[c][k] # None) <=> (x.owner[k] = c)
Explains(x, X) == \A k \in Locs \ X : Told(x.log, k) = x.owner[k]
Sound(x, X) == x \in IndexType /\ Agrees(x, X) /\ Explains(x, X)

\* y is x after c was given those locations.
Writes(y, x, X, tx, c, locations) ==
  /\ Sound(y, X) /\ tx <= Len(y.log)
  /\ y.locs = [x.locs EXCEPT ![c] = locations] /\ y.floor = x.floor
  /\ y.owner = [k \in Locs |-> IF k \in Listed(locations) THEN c
                              ELSE IF k \in Listed(x.locs[c]) THEN None ELSE x.owner[k]]
  /\ Listed(locations) \subseteq Listed(x.locs[c]) => OnlyGone(y.log, tx)

LEMMA WriteSound ==
  ASSUME NEW X, NEW x \in IndexType, Sound(x, X), NEW tx \in Nat, tx <= Len(x.log), OnlyGone(x.log, tx),
         NEW c \in Contents, NEW locations \in Locations, NEW rename \in {None} \cup [from: Locs, to: Locs],
         \A k \in Listed(locations) \ X : x.owner[k] \in {None, c},
         NEW rows,
         rows = [k \in Locs |-> IF k \in Listed(locations) THEN c
                               ELSE IF k \in Listed(x.locs[c]) THEN None ELSE x.owner[k]]
  PROVE  Writes(LogDiff([x EXCEPT !.locs[c] = locations, !.owner = rows], tx, c,
                        Listed(x.locs[c]) \ Listed(locations), Listed(locations) \ Listed(x.locs[c]), rename),
                x, X, tx, c, locations)
  <1> DEFINE before == Listed(x.locs[c])
             after == Listed(locations)
             z == [x EXCEPT !.locs[c] = locations, !.owner = rows]
             y == LogDiff(z, tx, c, before \ after, after \ before, rename)
  <1>1. /\ x.locs \in [Contents -> Locations] /\ x.owner \in [Locs -> Contents \cup {None}]
        /\ x.log \in Seq(Entry) /\ x.floor \in Nat
        /\ x = [locs |-> x.locs, owner |-> x.owner, log |-> x.log, floor |-> x.floor]
    BY DEF IndexType
  <1>2. before \subseteq Locs /\ after \subseteq Locs
    BY DEF Listed
  <1>3. rows \in [Locs -> Contents \cup {None}]
    BY <1>1
  <1>4. /\ z = [locs |-> [x.locs EXCEPT ![c] = locations], owner |-> rows, log |-> x.log, floor |-> x.floor]
        /\ z \in IndexType
    <2>1. [x.locs EXCEPT ![c] = locations] \in [Contents -> Locations]
      BY <1>1
    <2>2. z = [locs |-> [x.locs EXCEPT ![c] = locations], owner |-> rows, log |-> x.log, floor |-> x.floor]
      <3>1. z = [x EXCEPT !.locs = [x.locs EXCEPT ![c] = locations], !.owner = rows]
        OBVIOUS
      <3> DEFINE L == [x.locs EXCEPT ![c] = locations]
      <3>2. z = [x EXCEPT !.locs = L, !.owner = rows]
        BY <3>1
      <3> HIDE DEF L, z
      <3>3. z = [locs |-> L, owner |-> rows, log |-> x.log, floor |-> x.floor]
        BY <3>2 DEF IndexType
      <3> QED  BY <3>3 DEF L
    <2> HIDE DEF z
    <2> QED  BY <1>1, <1>3, <2>1, <2>2 DEF IndexType
  <1>5. z.log = x.log /\ z.owner = rows /\ z.locs = [x.locs EXCEPT ![c] = locations] /\ z.floor = x.floor
    BY <1>4
  <1> HIDE DEF z, before, after
  <1>6. Diffed(y, z, tx, c, before \ after, after \ before)
    <2>1. before \ after \in SUBSET Locs /\ after \ before \in SUBSET Locs
          /\ (before \ after) \cap (after \ before) = {}
      BY <1>2
    <2>2. tx <= Len(z.log) /\ OnlyGone(z.log, tx)
      BY <1>5
    <2> QED  BY <1>4, <2>1, <2>2, LogDiffSays
  <1> HIDE DEF y
  <1>7. /\ y = [z EXCEPT !.log = y.log] /\ y.log \in Seq(Entry) /\ tx <= Len(y.log)
        /\ \A k \in Locs : Told(y.log, k) = IF k \in after \ before THEN c
                                            ELSE IF k \in before \ after THEN None ELSE Told(x.log, k)
        /\ after \ before = {} => OnlyGone(y.log, tx)
    BY <1>5, <1>6 DEF Diffed
  <1>8. /\ y.locs = [x.locs EXCEPT ![c] = locations] /\ y.floor = x.floor /\ y.owner = rows
        /\ y \in IndexType
    BY <1>4, <1>5, <1>7 DEF IndexType
  <1>9. Agrees(y, X)
    <2>1. ASSUME NEW k \in Locs \ X, NEW d \in Contents  PROVE (y.locs[d][k] # None) <=> (y.owner[k] = d)
      <3>1. /\ y.owner[k] = IF k \in after THEN c ELSE IF k \in before THEN None ELSE x.owner[k]
            /\ y.locs[d][k] = IF d = c THEN locations[k] ELSE x.locs[d][k]
        BY <1>1, <1>8 DEF before, after
      <3>2. (k \in after <=> locations[k] # None) /\ (k \in before <=> x.locs[c][k] # None)
        BY DEF before, after, Listed
      <3>3. /\ (x.locs[d][k] # None) <=> (x.owner[k] = d)
            /\ (x.locs[c][k] # None) <=> (x.owner[k] = c)
        BY DEF Sound, Agrees
      <3>4. k \in after => x.owner[k] \in {None, c}
        BY DEF after
      <3>5. None # c /\ None # d
        BY NoneAssumption
      <3> QED  BY <3>1, <3>2, <3>3, <3>4, <3>5
    <2> QED  BY <2>1 DEF Agrees
  <1>10. Explains(y, X)
    <2>1. ASSUME NEW k \in Locs \ X  PROVE Told(y.log, k) = y.owner[k]
      <3>1. y.owner[k] = IF k \in after THEN c ELSE IF k \in before THEN None ELSE x.owner[k]
        BY <1>8 DEF before, after
      <3>2. (k \in before <=> x.owner[k] = c) /\ Told(x.log, k) = x.owner[k]
        BY DEF before, Listed, Sound, Agrees, Explains
      <3> QED  BY <1>7, <3>1, <3>2
    <2> QED  BY <2>1 DEF Explains
  <1>11. after \subseteq before => OnlyGone(y.log, tx)
    BY <1>7
  <1> QED
    BY <1>7, <1>8, <1>9, <1>10, <1>11 DEF Writes, Sound, y, z, before, after

LEMMA PutSound ==
  ASSUME NEW X, NEW x, Sound(x, X), NEW tx \in Nat, tx <= Len(x.log), OnlyGone(x.log, tx),
         NEW c \in Contents, NEW locations \in Locations, NEW rename \in {None} \cup [from: Locs, to: Locs],
         \A k \in Listed(locations) \ X : x.owner[k] \in {None, c}
  PROVE  Writes(Put(x, tx, c, locations, rename), x, X, tx, c, locations)
  <1>1. x \in IndexType
    BY DEF Sound
  <1> QED
    BY <1>1, WriteSound DEF Put

LEMMA DeleteSound ==
  ASSUME NEW X, NEW x, Sound(x, X), NEW tx \in Nat, tx <= Len(x.log), OnlyGone(x.log, tx), NEW c \in Contents
  PROVE  Writes(Delete(x, tx, c), x, X, tx, c, Nowhere)
  <1>1. Listed(Nowhere) = {} /\ Nowhere \in Locations /\ x \in IndexType
    BY DEF Listed, Nowhere, Locations, Sound
  <1> DEFINE before == Listed(x.locs[c])
             rows == [k \in Locs |-> IF k \in before THEN None ELSE x.owner[k]]
  <1>2. rows = [k \in Locs |-> IF k \in Listed(Nowhere) THEN c ELSE IF k \in before THEN None ELSE x.owner[k]]
    BY <1>1
  <1>3. before \ Listed(Nowhere) = before /\ Listed(Nowhere) \ before = {}
    BY <1>1
  <1>4. Delete(x, tx, c) = LogDiff([x EXCEPT !.locs[c] = Nowhere, !.owner = rows], tx, c,
                                   before \ Listed(Nowhere), Listed(Nowhere) \ before, None)
    BY <1>3 DEF Delete
  <1> HIDE DEF rows
  <1>5. \A k \in Listed(Nowhere) \ X : x.owner[k] \in {None, c}
    BY <1>1
  <1> QED
    <2>1. None \in {None} \cup [from: Locs, to: Locs]
      OBVIOUS
    <2>2. Writes(LogDiff([x EXCEPT !.locs[c] = Nowhere, !.owner = rows], tx, c,
                         Listed(x.locs[c]) \ Listed(Nowhere), Listed(Nowhere) \ Listed(x.locs[c]), None),
                 x, X, tx, c, Nowhere)
      BY <1>1, <1>2, <1>5, <2>1, WriteSound
    <2> QED  BY <1>4, <2>2

LEMMA IndexParts ==
  ASSUME NEW x \in IndexType
  PROVE  /\ x.locs \in [Contents -> Locations] /\ x.owner \in [Locs -> Contents \cup {None}]
         /\ x.log \in Seq(Entry) /\ x.floor \in Nat /\ LogHead(x) = Len(x.log) /\ LogHead(x) \in Nat
         /\ OnlyGone(x.log, LogHead(x))
         /\ \A c \in Contents, k \in Locs : x.locs[c][k] \in Location \cup {None}
  BY DEF IndexType, LogHead, OnlyGone, Locations

LEMMA SetLocation ==
  ASSUME NEW locations \in Locations, NEW k \in Locs, NEW location \in Location \cup {None}
  PROVE  [locations EXCEPT ![k] = location] \in Locations
  BY DEF Locations

LEMMA WithoutSound ==
  ASSUME NEW X, NEW x, Sound(x, X), NEW tx \in Nat, tx <= Len(x.log), OnlyGone(x.log, tx),
         NEW c \in Contents, NEW k \in Locs
  PROVE  Writes(Without(x, tx, c, k), x, X, tx, c, [x.locs[c] EXCEPT ![k] = None])
  <1> DEFINE rest == [x.locs[c] EXCEPT ![k] = None]
  <1>1. x \in IndexType /\ x.locs[c] \in Locations /\ rest \in Locations
    BY SetLocation, IndexParts DEF Sound
  <1>2. CASE Listed(rest) = {}
    <2>1. rest = Nowhere
      BY <1>1, <1>2 DEF Listed, Nowhere, Locations
    <2>2. Without(x, tx, c, k) = Delete(x, tx, c)
      BY <1>2 DEF Without
    <2> QED  BY <2>1, <2>2, DeleteSound
  <1>3. CASE Listed(rest) # {}
    <2>1. Without(x, tx, c, k) = Put(x, tx, c, rest, None)
      BY <1>3 DEF Without
    <2>2. \A m \in Listed(rest) \ X : x.owner[m] \in {None, c}
      BY <1>1 DEF Listed, Sound, Agrees, Locations
    <2>3. None \in {None} \cup [from: Locs, to: Locs]
      OBVIOUS
    <2> HIDE DEF rest
    <2>4. Writes(Put(x, tx, c, rest, None), x, X, tx, c, rest)
      BY <1>1, <2>2, <2>3, PutSound
    <2> QED  BY <2>1, <2>4 DEF rest
  <1> QED
    BY <1>2, <1>3

\* Outside X the index gives who owns a key.
LEMMA OwnerIs ==
  ASSUME NEW X, NEW x, Sound(x, X), NEW k \in Locs
  PROVE  /\ Owner(x, k) \in Contents \cup {None}
         /\ Owner(x, k) # None => Owner(x, k) = x.owner[k]
         /\ k \notin X => Owner(x, k) = x.owner[k]
  <1>1. x \in IndexType /\ x.owner[k] \in Contents \cup {None}
    BY IndexParts DEF Sound
  <1>2. CASE x.owner[k] = None
    BY <1>2 DEF Owner
  <1>3. CASE x.owner[k] # None
    <2>1. x.owner[k] \in Contents
      BY <1>1, <1>3
    <2>2. k \notin X => k \in Listed(x.locs[x.owner[k]])
      BY <2>1 DEF Sound, Agrees, Listed
    <2> QED  BY <1>3, <2>1, <2>2 DEF Owner
  <1> QED
    BY <1>2, <1>3

\* y is x after those keys lost their owners.
Freed(y, x, X, tx, keys) ==
  /\ Sound(y, X) /\ tx <= Len(y.log) /\ OnlyGone(y.log, tx)
  /\ \A m \in Locs \ X : y.owner[m] = IF m \in keys THEN None ELSE x.owner[m]

LEMMA WithoutFrees ==
  ASSUME NEW X, NEW x, Sound(x, X), NEW tx \in Nat, tx <= Len(x.log), OnlyGone(x.log, tx),
         NEW k \in Locs, x.owner[k] \in Contents
  PROVE  Freed(Without(x, tx, x.owner[k], k), x, X, tx, {k})
  <1> DEFINE c == x.owner[k]
             rest == [x.locs[c] EXCEPT ![k] = None]
             y == Without(x, tx, c, k)
  <1>1. x \in IndexType /\ x.locs[c] \in Locations /\ c \in Contents
    BY IndexParts DEF Sound
  <1>2. Writes(y, x, X, tx, c, rest)
    BY <1>1, WithoutSound
  <1> HIDE DEF y
  <1>3. Listed(rest) = Listed(x.locs[c]) \ {k}
    BY <1>1 DEF Listed, Locations
  <1>4. OnlyGone(y.log, tx) /\ Sound(y, X) /\ tx <= Len(y.log)
    BY <1>2, <1>3 DEF Writes
  <1>5. ASSUME NEW m \in Locs \ X  PROVE y.owner[m] = IF m \in {k} THEN None ELSE x.owner[m]
    <2>1. y.owner[m] = IF m \in Listed(rest) THEN c ELSE IF m \in Listed(x.locs[c]) THEN None ELSE x.owner[m]
      BY <1>2 DEF Writes
    <2>2. m \in Listed(x.locs[c]) <=> x.owner[m] = c
      BY <1>1 DEF Sound, Agrees, Listed
    <2> QED  BY <1>3, <2>1, <2>2
  <1> QED
    BY <1>4, <1>5 DEF Freed, y

LEMMA ProcessUnlinkFrees ==
  ASSUME NEW X, NEW x, Sound(x, X), NEW k \in Locs, NEW tx, tx = LogHead(x)
  PROVE  Freed(ProcessUnlink(x, tx, k), x, X, tx, {k})
  <1>1. x \in IndexType /\ tx \in Nat /\ tx <= Len(x.log) /\ OnlyGone(x.log, tx)
    BY IndexParts DEF Sound
  <1>2. CASE Owner(x, k) = None
    <2>1. ProcessUnlink(x, tx, k) = x
      BY <1>2 DEF ProcessUnlink
    <2>2. k \notin X => x.owner[k] = None
      BY <1>2, OwnerIs
    <2> QED  BY <1>1, <2>1, <2>2 DEF Freed
  <1>3. CASE Owner(x, k) # None
    <2>1. Owner(x, k) = x.owner[k] /\ x.owner[k] \in Contents
      BY <1>3, OwnerIs
    <2>2. ProcessUnlink(x, tx, k) = Without(x, tx, x.owner[k], k)
      BY <1>3, <2>1 DEF ProcessUnlink
    <2> QED  BY <1>1, <2>1, <2>2, WithoutFrees
  <1> QED
    BY <1>2, <1>3

LEMMA DisplacedFrees ==
  ASSUME NEW X, NEW x, Sound(x, X), NEW k \in Locs, NEW c \in Contents, NEW tx, tx = LogHead(x)
  PROVE  Freed(Displaced(x, tx, k, c), x, X, tx, {m \in {k} : x.owner[m] # c})
  <1> DEFINE keys == {m \in {k} : x.owner[m] # c}
  <1>1. x \in IndexType /\ tx \in Nat /\ tx <= Len(x.log) /\ OnlyGone(x.log, tx)
    BY IndexParts DEF Sound
  <1>2. CASE Owner(x, k) \in {None, c}
    <2>1. Displaced(x, tx, k, c) = x
      BY <1>2 DEF Displaced
    <2>2. k \notin X => x.owner[k] \in {None, c}
      BY <1>2, OwnerIs
    <2> QED  BY <1>1, <2>1, <2>2 DEF Freed
  <1>3. CASE Owner(x, k) \notin {None, c}
    <2>1. Owner(x, k) = x.owner[k] /\ x.owner[k] \in Contents /\ x.owner[k] # c
      BY <1>3, OwnerIs
    <2>2. Displaced(x, tx, k, c) = Without(x, tx, x.owner[k], k)
      BY <1>3, <2>1 DEF Displaced
    <2>3. keys = {k}
      BY <2>1
    <2> HIDE DEF keys
    <2>4. Freed(Displaced(x, tx, k, c), x, X, tx, keys)
      BY <1>1, <2>1, <2>2, <2>3, WithoutFrees
    <2> QED  BY <2>4 DEF keys
  <1> QED
    BY <1>2, <1>3

\* y is x after c took key k, and the keys in lost were let go.
Owned(y, x, X, k, c, lost) ==
  /\ Sound(y, X)
  /\ \A m \in Locs \ X : y.owner[m] = IF m = k THEN c ELSE IF m \in lost THEN None ELSE x.owner[m]

LEMMA SucceededOwns ==
  ASSUME NEW X, NEW x, Sound(x, X), NEW k \in Locs, NEW file \in File, NEW tx, tx = LogHead(x)
  PROVE  Owned(Succeeded(x, tx, k, file), x, X, k, file.c, {})
  <1> DEFINE c == file.c
             z == Displaced(x, tx, k, c)
             there == [z.locs[c] EXCEPT ![k] = There(file.ino)]
             y == Succeeded(x, tx, k, file)
  <1>1. c \in Contents /\ There(file.ino) \in Location
    BY DEF File, There, Location
  <1>2. Freed(z, x, X, tx, {m \in {k} : x.owner[m] # c})
    BY <1>1, DisplacedFrees
  <1> HIDE DEF z
  <1>3. Sound(z, X) /\ tx \in Nat /\ tx <= Len(z.log) /\ OnlyGone(z.log, tx)
    BY <1>2, IndexParts DEF Freed, Sound
  <1>4. z \in IndexType /\ z.locs[c] \in Locations /\ there \in Locations
    BY <1>1, <1>3, IndexParts, SetLocation DEF Sound
  <1>5. Listed(there) = Listed(z.locs[c]) \cup {k}
    BY <1>1, <1>4, NoneAssumption DEF Listed, Locations
  <1>6. ASSUME NEW m \in Listed(there) \ X  PROVE z.owner[m] \in {None, c}
    <2>1. m \in Locs
      BY DEF Listed
    <2>2. CASE m = k
      BY <1>2, <2>1, <2>2 DEF Freed
    <2>3. CASE m # k
      BY <1>1, <1>3, <1>5, <2>1, <2>3 DEF Listed, Sound, Agrees
    <2> QED  BY <2>2, <2>3
  <1>7. y = Put(z, tx, c, there, None)
    BY DEF Succeeded, With, z
  <1>8. Writes(y, z, X, tx, c, there)
    <2>1. None \in {None} \cup [from: Locs, to: Locs]
      OBVIOUS
    <2> HIDE DEF there, y
    <2> QED  BY <1>1, <1>3, <1>4, <1>6, <1>7, <2>1, PutSound
  <1> HIDE DEF y, there
  <1>9. ASSUME NEW m \in Locs \ X  PROVE y.owner[m] = IF m = k THEN c ELSE x.owner[m]
    <2>1. y.owner[m] = IF m \in Listed(there) THEN c ELSE IF m \in Listed(z.locs[c]) THEN None ELSE z.owner[m]
      BY <1>8 DEF Writes
    <2>2. m \in Listed(z.locs[c]) <=> z.owner[m] = c
      BY <1>1, <1>3 DEF Sound, Agrees, Listed
    <2>3. m # k => z.owner[m] = x.owner[m]
      BY <1>2 DEF Freed
    <2> QED  BY <1>5, <2>1, <2>2, <2>3
  <1> QED
    BY <1>8, <1>9 DEF Owned, Writes, y

LEMMA WritesOwner ==
  ASSUME NEW X, NEW x, Sound(x, X), NEW tx, NEW c \in Contents, NEW locations, NEW y,
         Writes(y, x, X, tx, c, locations)
  PROVE  \A m \in Locs \ X : y.owner[m] = IF m \in Listed(locations) THEN c
                                          ELSE IF x.owner[m] = c THEN None ELSE x.owner[m]
  BY DEF Writes, Sound, Agrees, Listed

LEMMA PrunedSound ==
  ASSUME NEW X, NEW x, Sound(x, X), NEW missing \in SUBSET Locs
  PROVE  /\ Sound(Pruned(x, missing), X)
         /\ \A m \in Locs \ X : Pruned(x, missing).owner[m] = IF m \in missing THEN None ELSE x.owner[m]
  <1> DEFINE Lists(c, k) == x.locs[c][k] # None
             changed == {c \in Contents : \E k \in missing : Lists(c, k)}
             claims(k) == {c \in changed : Lists(c, k)}
             all == {Gone(k, c) : k \in missing, c \in changed}
             G == {e \in all : Lists(e.c, e.key)}
             gone == SetToSeq(G)
             locs == [c \in Contents |-> [k \in Locs |-> IF k \in missing THEN None ELSE x.locs[c][k]]]
             owner == [k \in Locs |-> IF claims(k) = {} THEN x.owner[k]
                                     ELSE IF k \in missing THEN None ELSE CHOOSE c \in claims(k) : TRUE]
             log == x.log \o gone
             y == Pruned(x, missing)
  <1>1. /\ x \in IndexType /\ x.locs \in [Contents -> Locations] /\ x.owner \in [Locs -> Contents \cup {None}]
        /\ x.log \in Seq(Entry) /\ x.floor \in Nat /\ Len(x.log) \in Nat
    BY IndexParts DEF Sound
  <1>2. y = [x EXCEPT !.locs = locs, !.owner = owner, !.log = log]
    BY DEF Pruned
  <1>3. y = [locs |-> locs, owner |-> owner, log |-> log, floor |-> x.floor]
    <2> HIDE DEF y, locs, owner, log
    <2> QED  BY <1>1, <1>2 DEF IndexType
  <1>4. locs \in [Contents -> Locations]
    BY <1>1 DEF Locations
  <1>5. owner \in [Locs -> Contents \cup {None}]
    <2>1. ASSUME NEW k \in Locs  PROVE owner[k] \in Contents \cup {None}
      <3>1. claims(k) # {} => (CHOOSE c \in claims(k) : TRUE) \in Contents
        OBVIOUS
      <3> QED  BY <1>1, <3>1
    <2> HIDE DEF claims
    <2>2. owner = [k \in Locs |-> owner[k]]
      OBVIOUS
    <2> HIDE DEF owner
    <2> QED  BY <2>1, <2>2
  <1>6. IsFiniteSet(G)
    <2> DEFINE pairs == missing \X changed
               f == [p \in pairs |-> Gone(p[1], p[2])]
    <2>1. IsFiniteSet(missing) /\ IsFiniteSet(changed)
      BY FiniteAssumption, FS_Subset
    <2>2. IsFiniteSet(pairs)
      BY <2>1, FS_Product
    <2>3. f \in Surjection(pairs, all)
      <3>1. \A p \in pairs : f[p] \in all
        OBVIOUS
      <3>2. \A e \in all : \E p \in pairs : f[p] = e
        <4>1. ASSUME NEW k \in missing, NEW c \in changed  PROVE f[<<k, c>>] = Gone(k, c) /\ <<k, c>> \in pairs
          OBVIOUS
        <4>2. ASSUME NEW e \in all  PROVE \E p \in pairs : f[p] = e
          <5>1. PICK k \in missing, c \in changed : e = Gone(k, c)
            OBVIOUS
          <5> DEFINE p == <<k, c>>
          <5>2. p \in pairs /\ f[p] = e
            BY <4>1, <5>1
          <5> HIDE DEF f, pairs, p
          <5> QED  BY <5>2
        <4> HIDE DEF f, pairs, all
        <4> QED  BY <4>2
      <3> HIDE DEF pairs, all, changed
      <3> QED  BY <3>1, <3>2 DEF Surjection
    <2>4. IsFiniteSet(all)
      BY <2>2, <2>3, FS_Surjection
    <2> QED  BY <2>4, FS_Subset
  <1>7. \A e \in G : \E k \in missing, c \in Contents : e = Gone(k, c) /\ Lists(c, k)
    BY DEF Gone
  <1>8. \A k \in missing, c \in Contents : Lists(c, k) => Gone(k, c) \in G
    BY DEF Gone
  <1> HIDE DEF G
  <1>9. gone \in Seq(G) /\ \A e \in G : \E i \in 1 .. Len(gone) : gone[i] = e
    BY <1>6, Enumeration
  <1>10. G \subseteq Entry
    BY <1>7, GoneEntry
  <1>11. gone \in Seq(Entry) /\ Len(gone) \in Nat /\ \A i \in 1 .. Len(gone) : gone[i] \in G
    BY <1>9, <1>10, ElementOfSeq, LenProperties
  <1> HIDE DEF gone
  <1>12. /\ log \in Seq(Entry) /\ Len(log) = Len(x.log) + Len(gone)
         /\ \A i \in 1 .. Len(x.log) + Len(gone) : log[i] = IF i <= Len(x.log) THEN x.log[i] ELSE gone[i - Len(x.log)]
    BY <1>1, <1>11, ConcatProperties
  <1> HIDE DEF log
  <1>13. ASSUME NEW i \in 1 .. Len(log)
         PROVE  \/ i \in 1 .. Len(x.log) /\ log[i] = x.log[i]
                \/ i > Len(x.log) /\ log[i] \in G
    <2>1. CASE i <= Len(x.log)
      BY <1>1, <1>11, <1>12, <2>1
    <2>2. CASE i > Len(x.log)
      <3>1. i - Len(x.log) \in 1 .. Len(gone) /\ log[i] = gone[i - Len(x.log)]
        BY <1>1, <1>11, <1>12, <2>2
      <3> QED  BY <1>11, <2>2, <3>1
    <2> QED  BY <1>1, <2>1, <2>2
  <1>14. ASSUME NEW e \in G  PROVE \E i \in 1 .. Len(log) : i > Len(x.log) /\ log[i] = e
    <2>1. PICK i \in 1 .. Len(gone) : gone[i] = e
      BY <1>9
    <2>2. /\ Len(x.log) + i \in 1 .. Len(x.log) + Len(gone) /\ Len(x.log) + i > Len(x.log)
          /\ (Len(x.log) + i) - Len(x.log) = i /\ ~ (Len(x.log) + i <= Len(x.log))
      BY <1>1, <1>11
    <2>3. log[Len(x.log) + i] = gone[(Len(x.log) + i) - Len(x.log)]
      BY <1>12, <2>2
    <2>4. log[Len(x.log) + i] = e
      BY <2>1, <2>2, <2>3
    <2> QED  BY <1>12, <2>2, <2>4
  <1>15. ASSUME NEW k \in missing, NEW c \in Contents, Lists(c, k)  PROVE Told(log, k) = None
    <2>1. PICK p \in 1 .. Len(log) : p > Len(x.log) /\ log[p] = Gone(k, c)
      BY <1>8, <1>14, <1>15
    <2>2. p \in About(log, k) /\ Word(log[p], k) = None
      BY <2>1, GoneEntry DEF About
    <2>3. ASSUME NEW s \in About(log, k), s >= p  PROVE Word(log[s], k) = None
      <3>1. s \in 1 .. Len(log) /\ s > Len(x.log)
        BY <1>1, <1>12, <1>11, <2>1, <2>3 DEF About
      <3>2. log[s] \in G
        BY <1>1, <1>13, <3>1
      <3> QED  BY <1>7, <3>2 DEF Word, Gone
    <2>4. \A s \in About(log, k) : s >= p => Word(log[s], k) = Word(log[p], k)
      BY <2>2, <2>3
    <2> QED  BY <1>12, <2>2, <2>4, ToldLast
  <1>16. ASSUME NEW k \in Locs, \A c \in Contents : k \in missing => ~ Lists(c, k)
         PROVE Told(log, k) = Told(x.log, k)
    <2>1. \A e \in G : e.key # k /\ e.from # k
      BY <1>7, <1>16, GoneEntry, NoneAssumption
    <2>2. ASSUME NEW s \in About(log, k)  PROVE s \in 1 .. Len(x.log) /\ log[s] = x.log[s] /\ s \in About(x.log, k)
      BY <1>13, <2>1, <2>2 DEF About
    <2>3. ASSUME NEW s \in About(x.log, k)  PROVE s \in About(log, k)
      <3>1. s \in 1 .. Len(x.log) /\ s \in 1 .. Len(log)
        BY <1>1, <1>11, <1>12, <2>3 DEF About
      <3>2. log[s] = x.log[s]
        BY <1>1, <1>11, <1>12, <3>1
      <3> QED  BY <2>3, <3>1, <3>2 DEF About
    <2>4. About(log, k) = About(x.log, k)
      BY <2>2, <2>3
    <2>5. \A s \in About(x.log, k) : Word(log[s], k) = Word(x.log[s], k)
      BY <2>2, <2>4
    <2> QED  BY <1>1, <1>12, <2>4, <2>5, ToldSame
  <1>17. ASSUME NEW k \in Locs \ X  PROVE owner[k] = IF k \in missing THEN None ELSE x.owner[k]
    <2>1. \A c \in Contents : Lists(c, k) <=> x.owner[k] = c
      BY DEF Sound, Agrees
    <2>2. x.owner[k] \in Contents \cup {None}
      BY <1>1
    <2>3. CASE claims(k) = {}
      <3>1. k \in missing => x.owner[k] = None
        BY <2>1, <2>2, <2>3
      <3> QED  BY <2>3, <3>1
    <2>4. CASE claims(k) # {}
      <3>1. (CHOOSE c \in claims(k) : TRUE) \in claims(k)
        BY <2>4
      <3>2. (CHOOSE c \in claims(k) : TRUE) = x.owner[k]
        BY <2>1, <3>1
      <3> QED  BY <2>4, <3>2
    <2> QED  BY <2>3, <2>4
  <1> HIDE DEF owner, y
  <1>18. y \in IndexType
    <2> HIDE DEF locs
    <2> QED  BY <1>1, <1>3, <1>4, <1>5, <1>12 DEF IndexType
  <1>19. Agrees(y, X)
    <2>1. ASSUME NEW k \in Locs \ X, NEW c \in Contents  PROVE (y.locs[c][k] # None) <=> (y.owner[k] = c)
      <3>1. y.locs[c][k] = IF k \in missing THEN None ELSE x.locs[c][k]
        BY <1>3
      <3>2. y.owner[k] = IF k \in missing THEN None ELSE x.owner[k]
        BY <1>3, <1>17
      <3> QED  BY <3>1, <3>2, NoneAssumption DEF Sound, Agrees
    <2> QED  BY <2>1 DEF Agrees
  <1>20. Explains(y, X)
    <2>1. ASSUME NEW k \in Locs \ X  PROVE Told(y.log, k) = y.owner[k]
      <3>1. y.log = log /\ y.owner[k] = IF k \in missing THEN None ELSE x.owner[k]
        BY <1>3, <1>17
      <3>2. Told(x.log, k) = x.owner[k] /\ x.owner[k] \in Contents \cup {None}
        BY <1>1 DEF Sound, Explains
      <3>3. \A c \in Contents : Lists(c, k) <=> x.owner[k] = c
        BY DEF Sound, Agrees
      <3>4. CASE k \in missing /\ \E c \in Contents : Lists(c, k)
        BY <1>15, <3>1, <3>4
      <3>5. CASE k \notin missing \/ \A c \in Contents : ~ Lists(c, k)
        BY <1>16, <3>1, <3>2, <3>3, <3>5
      <3> QED  BY <3>4, <3>5
    <2> QED  BY <2>1 DEF Explains
  <1>21. \A m \in Locs \ X : y.owner[m] = IF m \in missing THEN None ELSE x.owner[m]
    BY <1>3, <1>17
  <1> QED
    BY <1>18, <1>19, <1>20, <1>21 DEF Sound, y

-----------------------------------------------------------------------------
(***************************************************************************)
(* Types, and an index that is sound outside "twice"                        *)
(***************************************************************************)
Core == TypeOK /\ Sound(ix, spent.twice)

LEMMA KeysAreLocs ==
  /\ Home \subseteq Locs /\ Nas \subseteq Locs /\ Cloud \subseteq Locs /\ Files \subseteq Locs
  /\ Files = Home \cup Nas
  BY LocsAssumption DEF Files

\* Parts of the type that most steps need.
LEMMA Parts ==
  ASSUME Core
  PROVE  /\ ix \in IndexType /\ Tx = LogHead(ix) /\ Sound(ix, spent.twice)
         /\ spent \in History /\ spent.twice \in SUBSET Locs /\ spent.doubt \in SUBSET Locs
         /\ spent.touched \in SUBSET Locs
         /\ \A k \in Locs : disk[k] # Absent => disk[k] \in File
         /\ \A c \in Contents : ix.locs[c] \in Locations
         /\ \A c \in Contents, k \in Locs : ix.locs[c][k] \in Location \cup {None}
  BY IndexParts DEF Core, TypeOK, Tx, History

LEMMA DoubtIs ==
  ASSUME spent \in History, NEW keys \in SUBSET Locs
  PROVE  /\ Doubt(keys) \in History
         /\ Doubt(keys).twice = spent.twice /\ Doubt(keys).doubt = spent.doubt \cup keys
         /\ Doubt(keys).touched = spent.touched
  BY DEF Doubt, History

LEMMA FileParts ==
  ASSUME NEW f \in File
  PROVE  f.c \in Contents /\ f.ino \in Inodes \cup {None} /\ There(f.ino) \in Location
  BY DEF File, There, Location

\* What the arrival of a file at k does to the index and to the held unlinks.
Lands(k, c, ino, late) ==
  \/ /\ Owned(ix', ix, spent.twice, k, c, {})
     /\ spent' = Doubt(late) /\ held' = held
  \/ \E h \in held :
       /\ h.ino = ino /\ held' = held \ HoldFor(ino)
       /\ Owned(ix', ix, spent.twice, k, c, {h.key})
       /\ spent' = Doubt(late \cup Present(h.key))

LEMMA ArrivedLands ==
  ASSUME Core, NEW kind, NEW k \in Locs, NEW file \in File, NEW late \in SUBSET Locs,
         Arrived([kind |-> kind, key |-> k, file |-> file], late)
  PROVE  Lands(k, file.c, file.ino, late)
  <1> DEFINE e == [kind |-> kind, key |-> k, file |-> file]
             c == file.c
             o == Owner(ix, k)
             twins == IF kind = "add" /\ o \in {None, c} THEN HoldFor(file.ino) ELSE {}
             X == spent.twice
  <1>1. /\ Sound(ix, X) /\ Tx = LogHead(ix) /\ ix \in IndexType /\ c \in Contents /\ There(file.ino) \in Location
    BY Parts, FileParts
  <1>2. LogHead(ix) \in Nat /\ LogHead(ix) <= Len(ix.log) /\ OnlyGone(ix.log, LogHead(ix))
    BY <1>1, IndexParts
  <1>3. CASE twins = {}
    <2>1. ix' = Succeeded(ix, Tx, k, file) /\ spent' = Doubt(late) /\ held' = held
      BY <1>3 DEF Arrived
    <2>2. Owned(ix', ix, X, k, c, {})
      BY <1>1, <2>1, SucceededOwns
    <2> QED  BY <2>1, <2>2 DEF Lands
  <1>4. CASE twins # {}
    <2> DEFINE h0 == CHOOSE h \in twins : TRUE
    <2>1. h0 \in twins
      BY <1>4
    <2>2. /\ twins = HoldFor(file.ino) /\ o \in {None, c} /\ kind = "add"
      BY <1>4
    <2>3. PICK h \in HoldFor(file.ino) : h = h0
      BY <2>1, <2>2
    <2>4. /\ held' = held \ twins
          /\ spent' = Doubt(late \cup Present(h0.key))
          /\ IF Owner(ix, h0.key) = c
             THEN ix' = Put(ix, Tx, c, [ix.locs[c] EXCEPT ![h0.key] = None, ![k] = There(file.ino)],
                            [from |-> h0.key, to |-> k])
             ELSE ix' = Succeeded(ProcessUnlink(ix, Tx, h0.key), LogHead(ProcessUnlink(ix, Tx, h0.key)), k, file)
      BY <1>4 DEF Arrived
    <2>5. h \in held /\ h.ino = file.ino /\ h.key \in Home /\ h.key \in Locs
      BY <2>3, KeysAreLocs DEF HoldFor, Core, TypeOK, Held
    <2> HIDE DEF h0, o
    <2>6. CASE Owner(ix, h.key) = c
      <3> DEFINE locations == [ix.locs[c] EXCEPT ![h.key] = None, ![k] = There(file.ino)]
                 rename == [from |-> h.key, to |-> k]
      <3>1. ix' = Put(ix, Tx, c, locations, rename)
        BY <2>3, <2>4, <2>6
      <3>2. rename \in {None} \cup [from: Locs, to: Locs]
        BY <2>5
      <3>3. k \notin X => ix.owner[k] \in {None, c}
        BY <1>1, <2>2, OwnerIs DEF o
      <3>4. ix.locs[c] \in Locations
        BY <1>1, Parts
      <3>5. Listed(locations) = (Listed(ix.locs[c]) \ {h.key}) \cup {k}
        BY <1>1, <2>5, <3>4, NoneAssumption DEF Listed, Locations
      <3> HIDE DEF rename
      <3>6. Writes(ix', ix, X, Tx, c, locations)
        <4>1. locations \in Locations
          BY <1>1, <2>5, <3>4, SetLocation
        <4>2. \A m \in Listed(locations) \ X : ix.owner[m] \in {None, c}
          BY <1>1, <3>3, <3>5 DEF Listed, Sound, Agrees
        <4> HIDE DEF locations
        <4> QED  BY <1>1, <1>2, <3>1, <3>2, <4>1, <4>2, PutSound
      <3> HIDE DEF locations
      <3>7. ASSUME NEW m \in Locs \ X
            PROVE ix'.owner[m] = IF m = k THEN c ELSE IF m \in {h.key} THEN None ELSE ix.owner[m]
        <4>1. ix'.owner[m] = IF m \in Listed(locations) THEN c ELSE IF ix.owner[m] = c THEN None ELSE ix.owner[m]
          BY <1>1, <3>6, WritesOwner
        <4>2. m \in Listed(ix.locs[c]) <=> ix.owner[m] = c
          BY <1>1 DEF Sound, Agrees, Listed
        <4>3. m = h.key => ix.owner[m] = c
          BY <1>1, <2>5, <2>6, OwnerIs
        <4> QED  BY <3>5, <4>1, <4>2, <4>3
      <3>8. Owned(ix', ix, X, k, c, {h.key})
        BY <3>6, <3>7 DEF Owned, Writes
      <3> QED  BY <2>2, <2>3, <2>4, <2>5, <3>8 DEF Lands
    <2>7. CASE Owner(ix, h.key) # c
      <3> DEFINE gone == ProcessUnlink(ix, Tx, h.key)
      <3>1. ix' = Succeeded(gone, LogHead(gone), k, file)
        BY <2>3, <2>4, <2>7
      <3>2. Freed(gone, ix, X, Tx, {h.key})
        BY <1>1, <2>5, ProcessUnlinkFrees
      <3> HIDE DEF gone
      <3>3. Sound(gone, X)
        BY <3>2 DEF Freed
      <3>4. Owned(ix', gone, X, k, c, {})
        BY <3>1, <3>3, SucceededOwns
      <3>5. Owned(ix', ix, X, k, c, {h.key})
        BY <3>2, <3>4 DEF Owned, Freed
      <3> QED  BY <2>2, <2>3, <2>4, <2>5, <3>5 DEF Lands
    <2> QED  BY <2>6, <2>7
  <1> QED
    BY <1>3, <1>4

\* What an unlink at k does to them.
Leaves(k) ==
  \/ Freed(ix', ix, spent.twice, Tx, {k}) /\ held' = held /\ spent' = Doubt(Present(k))
  \/ \E ino \in Inodes :
       /\ held' = (held \ HoldFor(ino)) \cup {[key |-> k, ino |-> ino]}
       /\ \/ HoldFor(ino) = {} /\ ix' = ix /\ spent' = spent
          \/ \E h \in HoldFor(ino) : /\ Freed(ix', ix, spent.twice, Tx, {h.key})
                                     /\ spent' = Doubt(Present(h.key))

LEMMA LeftLeaves ==
  ASSUME Core, NEW k \in Home, Left(k)
  PROVE  Leaves(k)
  <1> DEFINE o == Owner(ix, k)
             ino == IF o = None THEN None ELSE IF ix.locs[o][k] = None THEN None ELSE ix.locs[o][k].ino
             prior == HoldFor(ino)
             X == spent.twice
  <1>1. Sound(ix, X) /\ Tx = LogHead(ix) /\ ix \in IndexType /\ k \in Locs
    BY Parts, KeysAreLocs
  <1>2. ino \in Inodes \cup {None}
    <2>1. o \in Contents \cup {None}
      BY <1>1, OwnerIs
    <2> HIDE DEF o
    <2>2. CASE o = None
      BY <2>2
    <2>3. CASE o # None
      <3>1. ix.locs[o][k] \in Location \cup {None}
        BY <1>1, <2>1, <2>3, Parts
      <3> QED  BY <2>3, <3>1 DEF Location
    <2> QED  BY <2>2, <2>3
  <1>3. IF ino = None THEN ix' = ProcessUnlink(ix, Tx, k) /\ held' = held /\ spent' = Doubt(Present(k))
        ELSE /\ held' = (held \ prior) \cup {[key |-> k, ino |-> ino]}
             /\ IF prior = {} THEN ix' = ix /\ spent' = spent
                ELSE LET h == CHOOSE h \in prior : TRUE IN
                     ix' = ProcessUnlink(ix, Tx, h.key) /\ spent' = Doubt(Present(h.key))
    BY DEF Left
  <1> HIDE DEF ino
  <1>4. CASE ino = None
    <2>1. Freed(ix', ix, X, Tx, {k})
      BY <1>1, <1>3, <1>4, ProcessUnlinkFrees
    <2> QED  BY <1>3, <1>4, <2>1 DEF Leaves
  <1>5. CASE ino # None
    <2>1. PICK i \in Inodes : i = ino
      BY <1>2, <1>5
    <2>2. CASE prior = {}
      BY <1>3, <1>5, <2>1, <2>2 DEF Leaves
    <2>3. CASE prior # {}
      <3>1. PICK h \in prior : h = CHOOSE g \in prior : TRUE
        BY <2>3
      <3>2. ix' = ProcessUnlink(ix, Tx, h.key) /\ spent' = Doubt(Present(h.key))
        BY <1>3, <1>5, <2>3, <3>1
      <3>3. h.key \in Locs
        BY <3>1, KeysAreLocs DEF HoldFor, Core, TypeOK, Held
      <3>4. Freed(ix', ix, X, Tx, {h.key})
        BY <1>1, <3>2, <3>3, ProcessUnlinkFrees
      <3>5. held' = (held \ HoldFor(i)) \cup {[key |-> k, ino |-> i]} /\ h \in HoldFor(i)
        BY <1>3, <1>5, <2>1, <3>1
      <3> QED  BY <3>2, <3>4, <3>5 DEF Leaves
    <2> QED  BY <2>2, <2>3
  <1> QED
    BY <1>2, <1>4, <1>5

\* What that means for the types.
LEMMA LandsTypes ==
  ASSUME Core, NEW k, NEW c, NEW ino, NEW late \in SUBSET Locs, Lands(k, c, ino, late)
  PROVE  Sound(ix', spent'.twice) /\ spent' \in History /\ spent'.twice = spent.twice /\ held' \subseteq held
  <1>1. spent \in History /\ held \subseteq Held
    BY DEF Core, TypeOK
  <1>2. CASE Owned(ix', ix, spent.twice, k, c, {}) /\ spent' = Doubt(late) /\ held' = held
    BY <1>1, <1>2, DoubtIs DEF Owned
  <1>3. CASE \E h \in held : /\ h.ino = ino /\ held' = held \ HoldFor(ino)
                             /\ Owned(ix', ix, spent.twice, k, c, {h.key})
                             /\ spent' = Doubt(late \cup Present(h.key))
    <2>1. PICK h \in held : /\ held' = held \ HoldFor(ino)
                            /\ Owned(ix', ix, spent.twice, k, c, {h.key})
                            /\ spent' = Doubt(late \cup Present(h.key))
      BY <1>3
    <2>2. late \cup Present(h.key) \in SUBSET Locs
      BY <1>1, <2>1, KeysAreLocs DEF Held, Present
    <2> QED  BY <1>1, <2>1, <2>2, DoubtIs DEF Owned
  <1> QED
    BY <1>2, <1>3 DEF Lands

LEMMA LeavesTypes ==
  ASSUME Core, NEW k \in Home, Leaves(k)
  PROVE  Sound(ix', spent'.twice) /\ spent' \in History /\ spent'.twice = spent.twice /\ held' \subseteq Held
  <1>1. spent \in History /\ held \subseteq Held /\ Sound(ix, spent.twice)
    BY DEF Core, TypeOK
  <1>2. CASE Freed(ix', ix, spent.twice, Tx, {k}) /\ held' = held /\ spent' = Doubt(Present(k))
    <2>1. Present(k) \in SUBSET Locs
      BY KeysAreLocs DEF Present
    <2> QED  BY <1>1, <1>2, <2>1, DoubtIs DEF Freed
  <1>3. CASE \E ino \in Inodes :
               /\ held' = (held \ HoldFor(ino)) \cup {[key |-> k, ino |-> ino]}
               /\ \/ HoldFor(ino) = {} /\ ix' = ix /\ spent' = spent
                  \/ \E h \in HoldFor(ino) : /\ Freed(ix', ix, spent.twice, Tx, {h.key})
                                             /\ spent' = Doubt(Present(h.key))
    <2>1. PICK ino \in Inodes :
               /\ held' = (held \ HoldFor(ino)) \cup {[key |-> k, ino |-> ino]}
               /\ \/ HoldFor(ino) = {} /\ ix' = ix /\ spent' = spent
                  \/ \E h \in HoldFor(ino) : /\ Freed(ix', ix, spent.twice, Tx, {h.key})
                                             /\ spent' = Doubt(Present(h.key))
      BY <1>3
    <2>2. held' \subseteq Held
      BY <1>1, <2>1 DEF Held
    <2>3. CASE ix' = ix /\ spent' = spent
      BY <1>1, <2>2, <2>3
    <2>4. CASE \E h \in HoldFor(ino) : /\ Freed(ix', ix, spent.twice, Tx, {h.key})
                                       /\ spent' = Doubt(Present(h.key))
      <3>1. PICK h \in HoldFor(ino) : /\ Freed(ix', ix, spent.twice, Tx, {h.key})
                                      /\ spent' = Doubt(Present(h.key))
        BY <2>4
      <3>2. Present(h.key) \in SUBSET Locs
        BY <1>1, <3>1, KeysAreLocs DEF Held, Present, HoldFor
      <3> QED  BY <1>1, <2>2, <3>1, <3>2, DoubtIs DEF Freed
    <2> QED  BY <2>1, <2>3, <2>4
  <1> QED
    BY <1>2, <1>3 DEF Leaves

-----------------------------------------------------------------------------
(***************************************************************************)
(* Every step keeps them                                                    *)
(***************************************************************************)
LEMMA SoundWidens ==
  ASSUME NEW x, NEW X, NEW Y, Sound(x, X), X \subseteq Y
  PROVE  Sound(x, Y)
  BY DEF Sound, Agrees, Explains

LEMMA RecordedIs ==
  ASSUME spent \in History, NEW k \in Locs, NEW back \in SUBSET Locs
  PROVE  /\ Recorded(k, back) \in History
         /\ Recorded(k, back).twice
              = spent.twice \cup {m \in {k} \cup back : /\ ix.owner[m] \notin {None, call.c}
                                                       /\ ~ (m = k /\ call.over)}
         /\ Recorded(k, back).doubt
              = spent.doubt \cup {m \in ({k} \cup back) \cap Files : Content(m) # call.c}
         /\ Recorded(k, back).touched = spent.touched
  BY DEF Recorded, History

LEMMA CallParts ==
  ASSUME Core, call # None
  PROVE  /\ call \in Call /\ call.c \in Contents /\ call.from \in Locs /\ call.to \in Locs
         /\ call.ino \in Inodes \cup {None} /\ call.locs \in Locations /\ There(call.ino) \in Location
         /\ call.over \in BOOLEAN
  <1>1. call \in Call
    BY DEF Core, TypeOK
  <1>2. call.c \in Contents /\ call.from \in Locs /\ call.to \in Locs /\ call.ino \in Inodes \cup {None}
        /\ call.locs \in Locations /\ call.over \in BOOLEAN
    BY <1>1 DEF Call
  <1> QED
    BY <1>1, <1>2 DEF There, Location

LEMMA InitCore ==
  ASSUME Init
  PROVE  Core
  <1>1. TypeOK
    BY DiskAssumption, KeysAreLocs DEF Init, TypeOK, History
  <1>2. ix.log = <<>> /\ ix = Indexed /\ spent.twice = {}
    BY StartAssumption DEF Init
  <1>3. \A k \in Locs : About(ix.log, k) = {}
    BY <1>2 DEF About
  <1>4. Explains(ix, {})
    BY <1>2, <1>3 DEF Explains, Told
  <1>5. Agrees(ix, {})
    BY <1>2, StartAssumption DEF Agrees
  <1> QED
    BY <1>1, <1>2, <1>4, <1>5, DiskAssumption DEF Core, Sound

\* What an unlink does, whatever the rechecks that are left.
LEMMA UnlinkedCore ==
  ASSUME Core, NEW k \in Home, NEW checks \in SUBSET Check, Unlinked(k, checks)
  PROVE  Sound(ix', spent'.twice) /\ spent' \in History /\ held' \subseteq Held /\ rechecks' \subseteq Check
  <1>1. TypeOK /\ Sound(ix, spent.twice)
    BY DEF Core
  <1>2. CASE Left(k) /\ rechecks' = checks
    BY <1>2, LeftLeaves, LeavesTypes
  <1>3. CASE rechecks' = checks \cup {[key |-> k, gone |-> FALSE]} /\ UNCHANGED <<ix, held, spent>>
    <2>1. [key |-> k, gone |-> FALSE] \in Check
      BY DEF Check
    <2> QED  BY <1>1, <1>3, <2>1 DEF TypeOK
  <1> QED
    BY <1>2, <1>3 DEF Unlinked

LEMMA NoticeGoneCore ==
  ASSUME Core, NEW k \in Home, NoticeGone(k)
  PROVE  Core'
  <1>1. TypeOK
    BY DEF Core
  <1>2. rechecks \in SUBSET Check /\ Unlinked(k, rechecks)
    BY <1>1 DEF TypeOK, NoticeGone
  <1>3. Sound(ix', spent'.twice) /\ spent' \in History /\ held' \subseteq Held /\ rechecks' \subseteq Check
    BY <1>2, UnlinkedCore
  <1>4. ix' \in IndexType
    BY <1>3 DEF Sound
  <1> QED
    BY <1>1, <1>3, <1>4 DEF Core, TypeOK, NoticeGone

LEMMA RecheckCore ==
  ASSUME Core, NEW k \in Home, Recheck(k)
  PROVE  Core'
  <1>1. TypeOK /\ Sound(ix, spent.twice)
    BY DEF Core
  <1>3. rechecks' \subseteq Check
    <2>1. rechecks' \subseteq rechecks \cup {[[key |-> k, gone |-> FALSE] EXCEPT !.gone = TRUE]}
      BY DEF Recheck
    <2>2. [key |-> k, gone |-> FALSE] \in Check
      BY DEF Check
    <2>3. \A r \in Check : [r EXCEPT !.gone = TRUE] \in Check
      BY DEF Check
    <2> QED  BY <1>1, <2>1, <2>2, <2>3 DEF TypeOK
  <1> QED
    BY <1>1, <1>3 DEF Core, TypeOK, Recheck

LEMMA ConfirmCore ==
  ASSUME Core, NEW k \in Home, Confirm(k)
  PROVE  Core'
  <1>1. TypeOK
    BY DEF Core
  <1>2. PICK checks \in SUBSET Check : Unlinked(k, checks)
    BY <1>1 DEF TypeOK, Confirm
  <1>3. Sound(ix', spent'.twice) /\ spent' \in History /\ held' \subseteq Held /\ rechecks' \subseteq Check
    BY <1>2, UnlinkedCore
  <1>4. ix' \in IndexType
    BY <1>3 DEF Sound
  <1> QED
    BY <1>1, <1>3, <1>4 DEF Core, TypeOK, Confirm

LEMMA DeliverLands ==
  ASSUME Core, NEW e \in hashing, Deliver(e), ~ Echo(e)
  PROVE  Lands(e.key, e.file.c, e.file.ino, IF seen[e.key] = e.file THEN {} ELSE {e.key})
  <1>1. e \in Event /\ e.key \in Locs /\ e.file \in File
    BY KeysAreLocs DEF Core, TypeOK, Event
  <1>2. PICK late \in SUBSET Locs : late = IF seen[e.key] = e.file THEN {} ELSE {e.key}
    BY <1>1
  <1>3. Arrived(e, late)
    BY <1>2 DEF Deliver
  <1>4. e = [kind |-> e.kind, key |-> e.key, file |-> e.file]
    BY <1>1 DEF Event
  <1>5. PICK kind \in {"add", "change"}, k \in Locs, file \in File : kind = e.kind /\ k = e.key /\ file = e.file
    BY <1>1 DEF Event
  <1>6. Arrived([kind |-> kind, key |-> k, file |-> file], late)
    BY <1>3, <1>4, <1>5
  <1>7. Lands(k, file.c, file.ino, late)
    BY <1>6, ArrivedLands
  <1> QED
    BY <1>2, <1>5, <1>7

LEMMA DeliverCore ==
  ASSUME Core, NEW e \in hashing, Deliver(e)
  PROVE  Core'
  <1>1. TypeOK /\ Sound(ix, spent.twice) /\ e.key \in Locs
    BY KeysAreLocs DEF Core, TypeOK, Event
  <1>2. CASE Echo(e)
    BY <1>1, <1>2 DEF Core, TypeOK, Deliver
  <1>3. CASE ~ Echo(e)
    <2>1. PICK late \in SUBSET Locs : Lands(e.key, e.file.c, e.file.ino, late)
      <3>1. PICK late \in SUBSET Locs : late = IF seen[e.key] = e.file THEN {} ELSE {e.key}
        BY <1>1
      <3> QED  BY <1>3, <3>1, DeliverLands
    <2>2. Sound(ix', spent'.twice) /\ spent' \in History /\ held' \subseteq held
      BY <2>1, LandsTypes
    <2>3. ix' \in IndexType
      BY <2>2 DEF Sound
    <2> QED  BY <1>1, <2>2, <2>3 DEF Core, TypeOK, Deliver
  <1> QED
    BY <1>2, <1>3

LEMMA WindowFrees ==
  ASSUME Core, NEW h \in held, WindowCloses(h)
  PROVE  /\ h.key \in Home /\ h.key \in Locs
         /\ Freed(ix', ix, spent.twice, Tx, {h.key})
         /\ spent' = Doubt(Present(h.key)) /\ Present(h.key) \in SUBSET Locs
  <1>1. h.key \in Home /\ h.key \in Locs
    BY KeysAreLocs DEF Core, TypeOK, Held
  <1>2. Sound(ix, spent.twice) /\ Tx = LogHead(ix)
    BY Parts
  <1> QED
    BY <1>1, <1>2, ProcessUnlinkFrees DEF WindowCloses, Present

LEMMA WindowClosesCore ==
  ASSUME Core, NEW h \in held, WindowCloses(h)
  PROVE  Core'
  <1>1. TypeOK /\ spent \in History
    BY DEF Core, TypeOK
  <1>2. Freed(ix', ix, spent.twice, Tx, {h.key}) /\ spent' \in History /\ spent'.twice = spent.twice
    BY <1>1, WindowFrees, DoubtIs
  <1>3. Sound(ix', spent'.twice) /\ ix' \in IndexType
    BY <1>2 DEF Freed, Sound
  <1> QED
    BY <1>1, <1>2, <1>3 DEF Core, TypeOK, WindowCloses

LEMMA ScanIngestOwns ==
  ASSUME Core, ScanIngest
  PROVE  /\ scan \in Scan /\ scan.row.key \in Home /\ scan.row.key \in Locs /\ scan.row.file \in File
         /\ Owned(ix', ix, spent.twice, scan.row.key, scan.row.file.c, {})
  <1>1. scan \in Scan /\ scan.row # None
    BY DEF ScanIngest, Scanning, Core, TypeOK
  <1>2. scan.row \in [key: Home, file: File]
    BY <1>1 DEF Scan
  <1>3. scan.row.key \in Home /\ scan.row.key \in Locs /\ scan.row.file \in File
    BY <1>2, KeysAreLocs
  <1>4. Sound(ix, spent.twice) /\ Tx = LogHead(ix)
    BY Parts
  <1>5. ix' = Succeeded(ix, Tx, scan.row.key, scan.row.file)
    BY DEF ScanIngest
  <1> QED
    BY <1>1, <1>3, <1>4, <1>5, SucceededOwns

LEMMA ScanIngestCore ==
  ASSUME Core, ScanIngest
  PROVE  Core'
  <1>1. TypeOK /\ spent \in History
    BY DEF Core, TypeOK
  <1>2. scan \in Scan /\ scan.row.key \in Locs /\ Sound(ix', spent.twice)
    BY ScanIngestOwns DEF Owned
  <1>3. PICK keys \in SUBSET Locs : spent' = Doubt(keys)
    BY <1>2 DEF ScanIngest
  <1>4. spent' \in History /\ spent'.twice = spent.twice
    BY <1>1, <1>3, DoubtIs
  <1>5. scan' \in Scan
    BY <1>2 DEF ScanIngest, Scan
  <1>6. Sound(ix', spent'.twice) /\ ix' \in IndexType
    BY <1>2, <1>4 DEF Sound
  <1> QED
    BY <1>1, <1>4, <1>5, <1>6 DEF Core, TypeOK, ScanIngest

LEMMA EndScanPrunes ==
  ASSUME Core, EndScan
  PROVE  /\ scan \in Scan /\ Sound(ix', spent.twice)
         /\ \A m \in Locs \ spent.twice :
              ix'.owner[m] = IF m \in Home \ scan.present THEN None ELSE ix.owner[m]
  <1>1. scan \in Scan
    BY DEF EndScan, Scanning, Core, TypeOK
  <1>2. Home \ scan.present \in SUBSET Locs
    BY KeysAreLocs
  <1>3. Sound(ix, spent.twice)
    BY Parts
  <1>4. ix' = Pruned(ix, Home \ scan.present)
    BY DEF EndScan
  <1> QED
    BY <1>1, <1>2, <1>3, <1>4, PrunedSound

LEMMA EndScanCore ==
  ASSUME Core, EndScan
  PROVE  Core'
  <1>1. TypeOK /\ spent \in History /\ Sound(ix', spent.twice)
    BY EndScanPrunes DEF Core, TypeOK
  <1>2. spent' \in History /\ spent'.twice = spent.twice
    <2>1. CASE scan.calm
      BY <1>1, <2>1 DEF EndScan, History
    <2>2. CASE ~ scan.calm
      <3>1. PICK keys \in SUBSET Locs : spent' = Doubt(keys)
        BY <2>2, KeysAreLocs DEF EndScan
      <3> QED  BY <1>1, <3>1, DoubtIs
    <2> QED  BY <2>1, <2>2
  <1>3. Sound(ix', spent'.twice) /\ ix' \in IndexType
    BY <1>1, <1>2 DEF Sound
  <1> QED
    BY <1>1, <1>2, <1>3 DEF Core, TypeOK, EndScan

\* What a call that displaces first has cleared: with "over", the row of its
\* target belongs to nobody else any more.
LEMMA OverwrittenFrees ==
  ASSUME Core, call # None
  PROVE  /\ Freed(Overwritten(ix, Tx), ix, spent.twice, Tx,
                  {m \in {call.to} : call.over /\ ix.owner[m] # call.c})
         /\ Overwritten(ix, Tx) \in IndexType
  <1> DEFINE X == spent.twice
             keys == {m \in {call.to} : call.over /\ ix.owner[m] # call.c}
  <1>1. Sound(ix, X) /\ ix \in IndexType /\ Tx = LogHead(ix)
    BY Parts
  <1>2. call.c \in Contents /\ call.to \in Locs
    BY CallParts
  <1>3. CASE call.over
    <2>1. Overwritten(ix, Tx) = Displaced(ix, Tx, call.to, call.c)
      BY <1>3 DEF Overwritten
    <2>2. Freed(Displaced(ix, Tx, call.to, call.c), ix, X, Tx, {m \in {call.to} : ix.owner[m] # call.c})
      BY <1>1, <1>2, DisplacedFrees
    <2>3. keys = {m \in {call.to} : ix.owner[m] # call.c}
      BY <1>3
    <2> QED  BY <2>1, <2>2, <2>3 DEF Freed, Sound
  <1>4. CASE ~ call.over
    <2>1. Overwritten(ix, Tx) = ix /\ keys = {}
      BY <1>4 DEF Overwritten
    <2>2. Tx <= Len(ix.log) /\ OnlyGone(ix.log, Tx)
      BY <1>1, IndexParts
    <2> QED  BY <1>1, <2>1, <2>2 DEF Freed
  <1> QED
    BY <1>3, <1>4

\* The record of a call: its content owns its target, and what it had put
\* back, and nothing else changed hands.
LEMMA RecordOwns ==
  ASSUME Core, Record
  PROVE  /\ call # None /\ Sound(ix', spent'.twice) /\ spent' \in History
         /\ \E back \in SUBSET Locs :
              /\ spent' = Recorded(call.to, back)
              /\ \A m \in Locs \ spent'.twice :
                   ix'.owner[m] = IF m \in {call.to} \cup back THEN call.c ELSE ix.owner[m]
  <1> DEFINE c == call.c
             X == spent.twice
             remote == call.to \in Cloud
             current == IF Listed(ix.locs[c]) = {} THEN call.locs ELSE ix.locs[c]
             back == {k \in Listed(current) : ix.locs[c][k] = None}
             location == [ino |-> call.ino, synced |-> ~ remote]
             locations == [current EXCEPT ![call.to] = location]
             z == Overwritten(ix, Tx)
             Y == spent'.twice
  <1>1. call # None /\ ix' = Put(z, Tx, c, locations, None) /\ spent' = Recorded(call.to, back)
    BY DEF Record, At
  <1>2. c \in Contents /\ call.to \in Locs /\ call.ino \in Inodes \cup {None} /\ call.locs \in Locations
    BY <1>1, CallParts
  <1>3. /\ Sound(ix, X) /\ ix \in IndexType /\ spent \in History /\ X \in SUBSET Locs
        /\ ix.locs[c] \in Locations /\ Tx = LogHead(ix)
    BY <1>2, Parts
  <1>4. current \in Locations /\ back \in SUBSET Locs /\ location \in Location
    BY <1>2, <1>3 DEF Listed, Location
  <1>5. locations \in Locations
    <2> HIDE DEF current, location
    <2> QED  BY <1>2, <1>4, SetLocation
  <1>6. Listed(locations) = Listed(current) \cup {call.to}
    <2> HIDE DEF current
    <2> QED  BY <1>2, <1>4, NoneAssumption DEF Listed, Locations
  <1>7. Freed(z, ix, X, Tx, {m \in {call.to} : call.over /\ ix.owner[m] # c})
    BY <1>1, OverwrittenFrees
  <1> HIDE DEF current, location, z
  <1>8. /\ Y = X \cup {m \in {call.to} \cup back : ix.owner[m] \notin {None, c} /\ ~ (m = call.to /\ call.over)}
        /\ spent' \in History
    <2> HIDE DEF back
    <2>1. PICK b \in SUBSET Locs : b = back
      BY <1>4
    <2>2. spent' = Recorded(call.to, b)
      BY <1>1, <2>1
    <2> QED  BY <1>2, <1>3, <2>1, <2>2, RecordedIs
  <1>9. Y \in SUBSET Locs /\ X \subseteq Y
    BY <1>8 DEF History
  <1>10. PICK W \in SUBSET Locs : W = Y
    BY <1>9
  <1> HIDE DEF Y
  <1>11. Sound(z, W) /\ Tx <= Len(z.log) /\ OnlyGone(z.log, Tx) /\ z \in IndexType /\ Tx \in Nat
    BY <1>3, <1>7, <1>9, <1>10, SoundWidens, IndexParts DEF Freed, Sound
  <1>12. ASSUME NEW m \in Locs \ Y
         PROVE z.owner[m] = IF m = call.to /\ call.over /\ ix.owner[m] # c THEN None ELSE ix.owner[m]
    BY <1>7, <1>9 DEF Freed
  <1>13. \A m \in Listed(ix.locs[c]) \ Y : ix.owner[m] = c
    BY <1>2, <1>3, <1>9 DEF Sound, Agrees, Listed
  <1>14. Listed(current) = Listed(ix.locs[c]) \cup back
    BY <1>2, <1>3 DEF current, Listed
  <1>15. \A m \in ({call.to} \cup back) \ Y : ix.owner[m] \in {None, c} \/ (m = call.to /\ call.over)
    BY <1>8
  <1>16. ASSUME NEW m \in Listed(locations) \ Y  PROVE z.owner[m] \in {None, c}
    <2>1. m \in Locs \ Y
      BY DEF Listed
    <2>2. CASE m \in {call.to} \cup back
      BY <1>12, <1>15, <2>1, <2>2
    <2>3. CASE m \notin {call.to} \cup back
      <3>1. m \in Listed(ix.locs[c])
        BY <1>6, <1>14, <2>3
      <3> QED  BY <1>12, <1>13, <2>1, <3>1
    <2> QED  BY <2>2, <2>3
  <1>17. Writes(ix', z, W, Tx, c, locations)
    <2>1. PICK l \in Locations : l = locations
      BY <1>5
    <2>2. \A m \in Listed(l) \ W : z.owner[m] \in {None, c}
      BY <1>10, <1>16, <2>1
    <2>3. PICK d \in Contents : d = c
      BY <1>2
    <2>4. None \in {None} \cup [from: Locs, to: Locs]
      OBVIOUS
    <2>5. Writes(Put(z, Tx, d, l, None), z, W, Tx, d, l)
      BY <1>11, <2>2, <2>3, <2>4, PutSound
    <2> QED  BY <1>1, <2>1, <2>3, <2>5
  <1>18. ASSUME NEW m \in Locs \ Y
         PROVE ix'.owner[m] = IF m \in {call.to} \cup back THEN c ELSE ix.owner[m]
    <2>1. ix'.owner[m] = IF m \in Listed(locations) THEN c ELSE IF z.owner[m] = c THEN None ELSE z.owner[m]
      BY <1>2, <1>10, <1>11, <1>17, WritesOwner
    <2>2. CASE m \in {call.to} \cup back
      <3>1. m \in Listed(locations)
        BY <1>6, <1>14, <2>2
      <3> QED  BY <2>1, <2>2, <3>1
    <2>3. CASE m \notin {call.to} \cup back
      <3>1. m \in Listed(locations) <=> m \in Listed(ix.locs[c])
        BY <1>6, <1>14, <2>3
      <3>2. m \in Listed(ix.locs[c]) <=> ix.owner[m] = c
        BY <1>2, <1>3, <1>9 DEF Sound, Agrees, Listed
      <3>3. z.owner[m] = ix.owner[m]
        BY <1>12, <2>3
      <3> QED  BY <2>1, <2>3, <3>1, <3>2, <3>3
    <2> QED  BY <2>2, <2>3
  <1>19. Sound(ix', Y)
    BY <1>10, <1>17 DEF Writes
  <1>20. PICK b \in SUBSET Locs : b = back
    BY <1>4
  <1> HIDE DEF back
  <1>21. /\ spent' = Recorded(call.to, b)
         /\ \A m \in Locs \ spent'.twice : ix'.owner[m] = IF m \in {call.to} \cup b THEN call.c ELSE ix.owner[m]
    BY <1>1, <1>18, <1>20 DEF Y
  <1> QED
    BY <1>1, <1>8, <1>19, <1>21 DEF Y

LEMMA RecordCore ==
  ASSUME Core, Record
  PROVE  Core'
  <1>1. TypeOK
    BY DEF Core
  <1>2. call # None /\ Sound(ix', spent'.twice) /\ spent' \in History
    BY RecordOwns
  <1>3. call \in Call /\ call.c \in Contents /\ call.from \in Locs /\ call.to \in Locs
    BY <1>2, CallParts
  <1>4. ix' \in IndexType
    BY <1>2 DEF Sound
  <1>5. call' \in Call \cup {None}
    BY <1>3 DEF Record, Return, Call
  <1>6. uploads' \subseteq [c: Contents, to: Cloud]
    BY <1>1, <1>3 DEF Record, TypeOK
  <1>7. moves' \subseteq Pending
    BY <1>1, <1>3 DEF Record, TypeOK, Pending
  <1> QED
    BY <1>1, <1>2, <1>4, <1>5, <1>6, <1>7 DEF Core, TypeOK, Record

\* finalizeMove hands the target over and takes the source from the entry; an
\* entry that is gone by then stays gone.
LEMMA ReleaseOwns ==
  ASSUME Core, Release
  PROVE  /\ call # None /\ Sound(ix', spent'.twice) /\ spent' \in History
         /\ spent.doubt \subseteq spent'.doubt /\ spent.twice \subseteq spent'.twice
         /\ spent'.touched = spent.touched
         /\ \/ /\ Listed(ix.locs[call.c]) = {} /\ call' = None
               /\ spent' = Doubt({call.to} \cap Files)
               /\ \A m \in Locs \ spent'.twice : m # call.to => ix'.owner[m] = ix.owner[m]
            \/ /\ {m \in {call.to} \cap Files : Content(m) # call.c} \subseteq spent'.doubt
               /\ {m \in {call.from} : Content(m) = call.c} \subseteq spent'.doubt
               /\ call.from # call.to => ix'.locs[call.c][call.to] # None
               /\ \A m \in Locs \ spent'.twice :
                    IF m = call.from
                    THEN m # call.to => ix'.owner[m] = IF ix.owner[m] = call.c THEN None ELSE ix.owner[m]
                    ELSE ix'.owner[m] = IF m = call.to THEN call.c ELSE ix.owner[m]
  <1> DEFINE c == call.c
             X == spent.twice
             z == Overwritten(ix, Tx)
             locations == [z.locs[c] EXCEPT ![call.to] = There(call.ino), ![call.from] = None]
             rename == IF SameBackend(call.from, call.to) THEN [from |-> call.from, to |-> call.to] ELSE None
             doubtful == IF Content(call.from) = c THEN {call.from} ELSE {}
             Y == spent'.twice
  <1>1. call # None
    BY DEF Release, At
  <1>2. /\ c \in Contents /\ call.to \in Locs /\ call.from \in Locs /\ There(call.ino) \in Location
    BY <1>1, CallParts
  <1>3. /\ Sound(ix, X) /\ ix \in IndexType /\ spent \in History /\ X \in SUBSET Locs /\ spent.doubt \in SUBSET Locs
        /\ ix.locs[c] \in Locations /\ Tx = LogHead(ix)
    BY <1>2, Parts
  <1>4. CASE Listed(ix.locs[c]) = {}
    <2>1. ix' = z /\ call' = None /\ spent' = Doubt({call.to} \cap Files)
      BY <1>4 DEF Release, Return
    <2>2. {call.to} \cap Files \in SUBSET Locs
      BY <1>2
    <2>3. spent' \in History /\ spent'.twice = X /\ spent.doubt \subseteq spent'.doubt /\ spent'.touched = spent.touched
      BY <1>3, <2>1, <2>2, DoubtIs
    <2>4. Freed(z, ix, X, Tx, {m \in {call.to} : call.over /\ ix.owner[m] # c})
      BY <1>1, OverwrittenFrees
    <2> HIDE DEF z
    <2>5. Sound(z, X) /\ \A m \in Locs \ X : m # call.to => z.owner[m] = ix.owner[m]
      BY <2>4 DEF Freed
    <2> QED  BY <1>1, <1>4, <2>1, <2>3, <2>5
  <1>5. CASE Listed(ix.locs[c]) # {}
    <2>1. /\ ix' = Put(z, Tx, c, locations, rename)
          /\ spent' = [Recorded(call.to, {}) EXCEPT !.doubt = @ \cup doubtful]
      BY <1>5 DEF Release, Moved
    <2>2. /\ Recorded(call.to, {}) \in History /\ Recorded(call.to, {}).touched = spent.touched
          /\ Recorded(call.to, {}).twice
               = spent.twice \cup {m \in {call.to} : ix.owner[m] \notin {None, c} /\ ~ (m = call.to /\ call.over)}
          /\ Recorded(call.to, {}).doubt = spent.doubt \cup {m \in {call.to} \cap Files : Content(m) # c}
      <3>1. PICK back \in SUBSET Locs : back = {}
        OBVIOUS
      <3> QED  BY <1>2, <1>3, <3>1, RecordedIs
    <2>3. doubtful \in SUBSET Locs
      BY <1>2
    <2> HIDE DEF doubtful
    <2>4. /\ spent' \in History /\ spent'.touched = spent.touched
          /\ Y = X \cup {m \in {call.to} : ix.owner[m] \notin {None, c} /\ ~ call.over}
          /\ spent'.doubt = spent.doubt \cup {m \in {call.to} \cap Files : Content(m) # c} \cup doubtful
      <3>1. spent' \in History /\ spent'.touched = Recorded(call.to, {}).touched
            /\ Y = Recorded(call.to, {}).twice /\ spent'.doubt = Recorded(call.to, {}).doubt \cup doubtful
        BY <2>1, <2>2, <2>3 DEF History
      <3> QED  BY <2>2, <3>1
    <2>5. Freed(z, ix, X, Tx, {m \in {call.to} : call.over /\ ix.owner[m] # c}) /\ z \in IndexType
      BY <1>1, OverwrittenFrees
    <2> HIDE DEF z, rename
    <2>6. rename \in {None} \cup [from: Locs, to: Locs]
      BY <1>2 DEF rename
    <2>7. z.locs[c] \in Locations
      BY <1>2, <2>5, IndexParts
    <2>8. locations \in Locations
      <3>1. [z.locs[c] EXCEPT ![call.to] = There(call.ino)] \in Locations
        BY <1>2, <2>7, SetLocation
      <3>2. [[z.locs[c] EXCEPT ![call.to] = There(call.ino)] EXCEPT ![call.from] = None] \in Locations
        BY <1>2, <3>1, SetLocation
      <3> QED  BY <3>2
    <2>9. Listed(locations) = (Listed(z.locs[c]) \cup {call.to}) \ {call.from}
      BY <1>2, <2>7, NoneAssumption DEF Listed, Locations
    <2> HIDE DEF locations
    <2>10. Y \in SUBSET Locs /\ X \subseteq Y
      BY <2>4 DEF History
    <2>11. PICK W \in SUBSET Locs : W = Y
      BY <2>10
    <2>12. Sound(z, W) /\ Tx <= Len(z.log) /\ OnlyGone(z.log, Tx) /\ Tx \in Nat
      BY <1>3, <2>5, <2>10, <2>11, SoundWidens, IndexParts DEF Freed, Sound
    <2>13. ASSUME NEW m \in Locs \ Y
           PROVE z.owner[m] = IF m = call.to /\ call.over /\ ix.owner[m] # c THEN None ELSE ix.owner[m]
      BY <2>5, <2>10 DEF Freed
    <2>14. \A m \in Locs \ Y : m \in Listed(z.locs[c]) <=> z.owner[m] = c
      BY <1>2, <2>11, <2>12 DEF Sound, Agrees, Listed
    <2>15. call.to \notin Y => ix.owner[call.to] \in {None, c} \/ call.over
      BY <1>2, <2>4
    <2>16. ASSUME NEW m \in Listed(locations) \ Y  PROVE z.owner[m] \in {None, c}
      <3>1. m \in Locs \ Y
        BY DEF Listed
      <3> QED  BY <2>9, <2>13, <2>14, <2>15, <3>1
    <2>17. Writes(ix', z, W, Tx, c, locations)
      <3>1. PICK l \in Locations : l = locations
        BY <2>8
      <3>2. \A m \in Listed(l) \ W : z.owner[m] \in {None, c}
        BY <2>11, <2>16, <3>1
      <3>3. PICK d \in Contents : d = c
        BY <1>2
      <3>4. PICK r \in {None} \cup [from: Locs, to: Locs] : r = rename
        BY <2>6
      <3>5. Writes(Put(z, Tx, d, l, r), z, W, Tx, d, l)
        BY <2>12, <3>2, <3>3, <3>4, PutSound
      <3> QED  BY <2>1, <3>1, <3>3, <3>4, <3>5
    <2>18. ASSUME NEW m \in Locs \ Y
           PROVE IF m = call.from
                 THEN m # call.to => ix'.owner[m] = IF ix.owner[m] = c THEN None ELSE ix.owner[m]
                 ELSE ix'.owner[m] = IF m = call.to THEN c ELSE ix.owner[m]
      <3>1. ix'.owner[m] = IF m \in Listed(locations) THEN c ELSE IF z.owner[m] = c THEN None ELSE z.owner[m]
        BY <1>2, <2>11, <2>12, <2>17, WritesOwner
      <3>2. CASE m = call.from
        <4>1. m \notin Listed(locations)
          BY <2>9, <3>2
        <4> QED  BY <1>2, <2>13, <3>1, <3>2, <4>1, NoneAssumption
      <3>3. CASE m # call.from
        BY <2>9, <2>13, <2>14, <3>1, <3>3
      <3> QED  BY <3>2, <3>3
    <2>19. Sound(ix', Y)
      BY <2>11, <2>17 DEF Writes
    <2>20. ASSUME call.from # call.to  PROVE ix'.locs[c][call.to] # None
      <3>1. ix'.locs = [z.locs EXCEPT ![c] = locations] /\ z.locs \in [Contents -> Locations]
        BY <2>5, <2>17, IndexParts DEF Writes
      <3>2. call.to \in Listed(locations)
        BY <2>9, <2>20
      <3> QED  BY <1>2, <3>1, <3>2 DEF Listed
    <2>21. {m \in {call.from} : Content(m) = c} \subseteq doubtful
      BY DEF doubtful
    <2> QED
      BY <1>1, <2>4, <2>10, <2>18, <2>19, <2>20, <2>21
  <1> QED
    BY <1>4, <1>5

LEMMA ReleaseCore ==
  ASSUME Core, Release
  PROVE  Core'
  <1>1. TypeOK
    BY DEF Core
  <1>2. Sound(ix', spent'.twice) /\ spent' \in History
    BY ReleaseOwns
  <1>3. ix' \in IndexType
    BY <1>2 DEF Sound
  <1>4. call' \in Call \cup {None}
    <2>1. call # None
      BY ReleaseOwns
    <2> QED  BY <2>1, CallParts DEF Release, Goto, Return, Call
  <1> QED
    BY <1>1, <1>2, <1>3, <1>4 DEF Core, TypeOK, Release

\* Which calls reach which step: only uploads write acknowledgements, renames
\* stay among files, and only moves get beyond the record.
Shape ==
  call # None =>
    /\ call.at = "write" => call.kind = "ack" /\ ~ call.over /\ call.to \in Cloud
    /\ call.at = "rename" => call.kind = "move" /\ call.from \in Files /\ call.to \in Files
    /\ call.at = "stream" => call.kind \in {"copy", "move"}
    /\ call.at \in {"commit", "record"} => call.kind \in {"copy", "move", "put"}
    /\ call.at \in {"verify", "source", "remove", "release"} => call.kind \in {"move", "resume"}
    /\ call.at = "forget" => call.kind = "resume"

\* An acknowledgement writes the entry as it was read: what changed since is
\* lost, and nothing else changed hands.
LEMMA AcknowledgeOwns ==
  ASSUME Core, Shape, Acknowledge
  PROVE  /\ call # None /\ Sound(ix', spent'.twice) /\ spent' \in History
         /\ spent.doubt \subseteq spent'.doubt /\ spent.twice \subseteq spent'.twice
         /\ spent'.touched = spent.touched
         /\ \A m \in Locs \ spent'.twice : ix'.owner[m] = IF m = call.to THEN call.c ELSE ix.owner[m]
  <1> DEFINE c == call.c
             X == spent.twice
             lost == {k \in Locs : ix.locs[c][k] # call.locs[k]}
             locations == [call.locs EXCEPT ![call.to] = There(None)]
             Y == spent'.twice
  <1>1. /\ call # None /\ ix' = Put(ix, Tx, c, locations, None)
        /\ spent' = [Recorded(call.to, {}) EXCEPT !.doubt = @ \cup lost, !.twice = @ \cup lost]
    BY DEF Acknowledge, At
  <1>2. /\ c \in Contents /\ call.to \in Locs /\ call.locs \in Locations
    BY <1>1, CallParts
  <1>3. /\ Sound(ix, X) /\ ix \in IndexType /\ spent \in History /\ X \in SUBSET Locs /\ spent.doubt \in SUBSET Locs
        /\ ix.locs[c] \in Locations /\ Tx = LogHead(ix)
    BY <1>2, Parts
  <1>4. There(None) \in Location
    BY DEF There, Location
  <1>5. locations \in Locations
    BY <1>2, <1>4, SetLocation
  <1>6. Listed(locations) = Listed(call.locs) \cup {call.to}
    BY <1>2, <1>4, NoneAssumption DEF Listed, Locations
  <1>7. /\ Recorded(call.to, {}) \in History /\ Recorded(call.to, {}).touched = spent.touched
        /\ Recorded(call.to, {}).twice
             = spent.twice \cup {m \in {call.to} : ix.owner[m] \notin {None, c} /\ ~ (m = call.to /\ call.over)}
        /\ Recorded(call.to, {}).doubt = spent.doubt \cup {m \in {call.to} \cap Files : Content(m) # c}
    <2>1. PICK back \in SUBSET Locs : back = {}
      OBVIOUS
    <2> QED  BY <1>2, <1>3, <2>1, RecordedIs
  <1>8. lost \in SUBSET Locs
    OBVIOUS
  <1> HIDE DEF lost, locations
  <1>9. /\ spent' \in History /\ spent'.touched = spent.touched
        /\ Y = X \cup {m \in {call.to} : ix.owner[m] \notin {None, c} /\ ~ call.over} \cup lost
        /\ spent'.doubt = spent.doubt \cup {m \in {call.to} \cap Files : Content(m) # c} \cup lost
    <2>1. /\ spent' \in History /\ spent'.touched = Recorded(call.to, {}).touched
          /\ Y = Recorded(call.to, {}).twice \cup lost
          /\ spent'.doubt = Recorded(call.to, {}).doubt \cup lost
      BY <1>1, <1>7, <1>8 DEF History
    <2> QED  BY <1>7, <2>1
  <1>10. Y \in SUBSET Locs /\ X \subseteq Y
    BY <1>9 DEF History
  <1>11. PICK W \in SUBSET Locs : W = Y
    BY <1>10
  <1>12. Sound(ix, W) /\ Tx <= Len(ix.log) /\ OnlyGone(ix.log, Tx) /\ Tx \in Nat
    BY <1>3, <1>10, <1>11, SoundWidens, IndexParts
  <1>13. ~ call.over
    BY <1>1 DEF Acknowledge, At, Shape
  <1>14. \A m \in Locs \ Y : (m \in Listed(ix.locs[c]) <=> ix.owner[m] = c) /\ (m \in Listed(call.locs) <=> ix.owner[m] = c)
    <2>1. ASSUME NEW m \in Locs \ Y  PROVE ix.locs[c][m] = call.locs[m]
      BY <1>9, <2>1 DEF lost
    <2>2. \A m \in Locs \ Y : m \in Listed(ix.locs[c]) <=> ix.owner[m] = c
      BY <1>2, <1>3, <1>10 DEF Sound, Agrees, Listed
    <2> QED  BY <2>1, <2>2 DEF Listed
  <1> HIDE DEF Y
  <1>15. \A m \in Listed(locations) \ Y : ix.owner[m] \in {None, c}
    <2>1. ASSUME NEW m \in Listed(locations) \ Y  PROVE ix.owner[m] \in {None, c}
      <3>1. m \in Locs \ Y
        BY DEF Listed
      <3>2. m = call.to => ix.owner[m] \in {None, c}
        BY <1>9, <1>13, <3>1
      <3> QED  BY <1>6, <1>14, <3>1, <3>2
    <2> QED  BY <2>1
  <1>16. Writes(ix', ix, W, Tx, c, locations)
    <2>1. PICK l \in Locations : l = locations
      BY <1>5
    <2>2. \A m \in Listed(l) \ W : ix.owner[m] \in {None, c}
      BY <1>11, <1>15, <2>1
    <2>3. PICK d \in Contents : d = c
      BY <1>2
    <2>4. None \in {None} \cup [from: Locs, to: Locs]
      OBVIOUS
    <2>5. Writes(Put(ix, Tx, d, l, None), ix, W, Tx, d, l)
      BY <1>12, <2>2, <2>3, <2>4, PutSound
    <2> QED  BY <1>1, <2>1, <2>3, <2>5
  <1>17. ASSUME NEW m \in Locs \ Y  PROVE ix'.owner[m] = IF m = call.to THEN c ELSE ix.owner[m]
    <2>1. ix'.owner[m] = IF m \in Listed(locations) THEN c ELSE IF ix.owner[m] = c THEN None ELSE ix.owner[m]
      BY <1>2, <1>11, <1>12, <1>16, WritesOwner
    <2> QED  BY <1>6, <1>14, <2>1
  <1>18. Sound(ix', Y)
    BY <1>11, <1>16 DEF Writes
  <1> QED
    BY <1>1, <1>9, <1>10, <1>17, <1>18 DEF Y

LEMMA AcknowledgeCore ==
  ASSUME Core, Shape, Acknowledge
  PROVE  Core'
  <1>1. TypeOK
    BY DEF Core
  <1>2. Sound(ix', spent'.twice) /\ spent' \in History
    BY AcknowledgeOwns
  <1>3. ix' \in IndexType
    BY <1>2 DEF Sound
  <1>4. uploads' \subseteq [c: Contents, to: Cloud]
    BY <1>1 DEF Acknowledge, TypeOK
  <1> QED
    BY <1>1, <1>2, <1>3, <1>4 DEF Core, TypeOK, Acknowledge, Return

LEMMA RemoveSourceLands ==
  ASSUME Core, RemoveSource
  PROVE  /\ call # None
         /\ \/ /\ UNCHANGED <<ix, held, spent>>
               /\ \/ UNCHANGED disk
                  \/ disk[call.from] # Absent /\ disk[call.from].c = call.c /\ disk' = [disk EXCEPT ![call.from] = Absent]
            \/ /\ disk[call.from] \in File /\ call.from \in Files /\ UNCHANGED disk
               /\ Lands(call.from, disk[call.from].c, disk[call.from].ino, {})
  <1>1. call # None
    BY DEF RemoveSource, At
  <1>2. PICK k \in Locs : k = call.from
    BY <1>1, CallParts
  <1>3. CASE UNCHANGED <<ix, held, spent>> /\ UNCHANGED disk
    BY <1>1, <1>3
  <1>4. CASE /\ UNCHANGED <<ix, held, spent>> /\ disk[k] # Absent /\ disk[k].c = call.c
             /\ disk' = [disk EXCEPT ![k] = Absent]
    BY <1>1, <1>2, <1>4
  <1>5. CASE /\ Arrived([kind |-> "add", key |-> k, file |-> disk[k]], {}) /\ UNCHANGED disk
             /\ disk[k] # Absent /\ k \in Files
    <2>1. PICK f \in File : f = disk[k]
      BY <1>2, <1>5, Parts
    <2>2. Arrived([kind |-> "add", key |-> k, file |-> f], {})
      BY <1>5, <2>1
    <2>3. {} \in SUBSET Locs
      OBVIOUS
    <2>4. Lands(k, f.c, f.ino, {})
      BY <2>2, <2>3, ArrivedLands
    <2> QED  BY <1>1, <1>2, <1>5, <2>1, <2>4
  <1> QED
    BY <1>2, <1>3, <1>4, <1>5 DEF RemoveSource

LEMMA RemoveSourceCore ==
  ASSUME Core, RemoveSource
  PROVE  Core'
  <1>1. TypeOK /\ Sound(ix, spent.twice)
    BY DEF Core
  <1>2. call # None /\ call \in Call /\ call.from \in Locs
    BY RemoveSourceLands, CallParts
  <1>3. call' \in Call \cup {None}
    BY <1>2 DEF RemoveSource, Goto, Return, Call
  <1>4. CASE UNCHANGED <<ix, held, spent>>
    <2>1. disk' \in [Locs -> File \cup {Absent}]
      BY <1>1, <1>2 DEF RemoveSource, TypeOK
    <2> QED  BY <1>1, <1>3, <1>4, <2>1 DEF Core, TypeOK, RemoveSource
  <1>5. CASE UNCHANGED disk /\ disk[call.from] \in File /\ Lands(call.from, disk[call.from].c, disk[call.from].ino, {})
    <2>1. PICK k \in Locs, f \in File : k = call.from /\ f = disk[call.from]
      BY <1>2, <1>5
    <2>2. Lands(k, f.c, f.ino, {}) /\ {} \in SUBSET Locs
      BY <1>5, <2>1
    <2>3. Sound(ix', spent'.twice) /\ spent' \in History /\ held' \subseteq held
      BY <2>2, LandsTypes
    <2>4. ix' \in IndexType
      BY <2>3 DEF Sound
    <2> QED  BY <1>1, <1>3, <1>5, <2>3, <2>4 DEF Core, TypeOK, RemoveSource
  <1> QED
    BY <1>4, <1>5, RemoveSourceLands

\* The steps that leave the index and the keys claimed twice as they are.
LEMMA CallsCore ==
  ASSUME Core, Calls
  PROVE  Core'
  <1>1. TypeOK /\ Sound(ix, spent.twice) /\ spent \in History /\ scan \in Scan \cup {None}
    BY DEF Core, TypeOK
  <1>2. ASSUME Disturb  PROVE scan' \in Scan \cup {None}
    BY <1>1, <1>2 DEF Disturb, Scanning, Scan
  <1>3. ASSUME NEW kind, Accept(kind)
        PROVE scan' \in Scan \cup {None} /\ spent' \in History /\ spent'.twice = spent.twice
    <2>1. spent' = [spent EXCEPT !.calls = spent.calls + 1, !.touched = {}] /\ Disturb
      BY <1>3 DEF Accept
    <2>2. spent' \in History /\ spent'.twice = spent.twice
      <3>1. spent.calls + 1 \in Nat /\ {} \in SUBSET Locs
        BY <1>1 DEF History
      <3> QED  BY <1>1, <2>1, <3>1 DEF History
    <2> QED  BY <1>2, <2>1, <2>2
  <1>4. ASSUME NEW kind \in {"copy", "move"}, NEW c \in Contents, NEW from \in Locs, NEW to \in Locs,
               Transfer(kind, c, from, to)
        PROVE Core'
    <2>1. scan' \in Scan \cup {None} /\ spent' \in History /\ spent'.twice = spent.twice
      BY <1>3, <1>4 DEF Transfer
    <2>2. ix.locs[c] \in Locations
      BY Parts
    <2>3. PICK key \in Locs, over \in BOOLEAN :
            /\ call' = [Ask(kind, IF kind = "move" /\ SameBackend(from, key) /\ from \in Files THEN "rename" ELSE "stream",
                            c, from, key) EXCEPT !.over = over, !.locs = ix.locs[c]]
            /\ suppressed' = suppressed \cup (({key} \cup IF kind = "move" THEN {from} ELSE {}) \cap Home)
      BY <1>4 DEF Transfer
    <2>4. Nowhere \in Locations
      BY DEF Nowhere, Locations
    <2>5. call' \in Call
      BY <2>2, <2>3, <2>4 DEF Ask, Call
    <2>6. suppressed' \subseteq Home
      BY <1>1, <2>3 DEF TypeOK
    <2> QED  BY <1>1, <1>4, <2>1, <2>5, <2>6 DEF Core, TypeOK, Transfer
  <1>5. ASSUME NEW c \in Contents, NEW to \in Files, PutObject(c, to)  PROVE Core'
    <2>1. scan' \in Scan \cup {None} /\ spent' \in History /\ spent'.twice = spent.twice
      BY <1>3, <1>5 DEF PutObject
    <2>2. Nowhere \in Locations /\ to \in Locs
      BY KeysAreLocs DEF Nowhere, Locations
    <2>3. call' \in Call
      BY <1>5, <2>2 DEF PutObject, Ask, Call
    <2> QED  BY <1>1, <1>5, <2>1, <2>3 DEF Core, TypeOK, PutObject
  <1>6. ASSUME NEW m \in moves, Resume(m)  PROVE Core'
    <2>1. m.c \in Contents /\ m.from \in Locs /\ m.to \in Locs
      BY <1>1 DEF TypeOK, Pending
    <2>2. ix.locs[m.c][m.to] \in Location
      <3>1. ix.locs[m.c][m.to] \in Location \cup {None}
        BY <2>1, Parts
      <3> QED  BY <1>6, <3>1 DEF Resume, Ready
    <2>3. ix.locs[m.c][m.to].ino \in Inodes \cup {None} /\ Nowhere \in Locations
      BY <2>2 DEF Location, Nowhere, Locations
    <2>4. call' \in Call
      BY <1>6, <2>1, <2>3 DEF Resume, Ask, Call
    <2>5. spent' \in History /\ spent'.twice = spent.twice
      BY <1>1, <1>6 DEF Resume, History
    <2>6. suppressed' \subseteq Home /\ scan' \in Scan \cup {None}
      BY <1>1, <1>2, <1>6 DEF Resume, TypeOK
    <2> QED  BY <1>1, <1>6, <2>4, <2>5, <2>6 DEF Core, TypeOK, Resume
  <1>7. ASSUME NEW u \in uploads, Upload(u)  PROVE Core'
    <2>1. u.c \in Contents /\ u.to \in Locs
      BY <1>1, KeysAreLocs DEF TypeOK
    <2>2. ix.locs[u.c] \in Locations
      BY <2>1, Parts
    <2>3. call' \in Call
      BY <1>7, <2>1, <2>2 DEF Upload, Ask, Call
    <2>4. disk' \in [Locs -> File \cup {Absent}]
      BY <1>1, <1>7, <2>1 DEF Upload, TypeOK, File
    <2>5. scan' \in Scan \cup {None}
      BY <1>2, <1>7 DEF Upload
    <2> QED  BY <1>1, <1>7, <2>3, <2>4, <2>5 DEF Core, TypeOK, Upload
  <1> QED
    BY <1>4, <1>5, <1>6, <1>7 DEF Calls

LEMMA StepCore ==
  ASSUME Core, Shape, Step
  PROVE  Core'
  <1>1. TypeOK /\ Sound(ix, spent.twice) /\ spent \in History
    BY DEF Core, TypeOK
  <1>2. CASE Rename
    <2>1. call # None
      BY <1>2 DEF Rename, At
    <2>2. call \in Call /\ call.from \in Locs /\ call.to \in Locs
      BY <2>1, CallParts
    <2>3. CASE disk[call.from] = Absent /\ Goto("stream") /\ UNCHANGED <<disk, ix, spent>>
      <3>1. call' \in Call
        BY <2>2, <2>3 DEF Goto, Call
      <3> QED  BY <1>1, <1>2, <2>3, <3>1 DEF Core, TypeOK, Rename
    <2>4. CASE /\ disk[call.from] # Absent
               /\ disk' = [disk EXCEPT ![call.from] = Absent, ![call.to] = disk[call.from]]
               /\ call' = [call EXCEPT !.at = "release", !.ino = disk[call.from].ino]
               /\ spent' = Doubt(IF Unseen(call.from) THEN {call.from} ELSE {})
               /\ UNCHANGED ix
      <3>1. disk[call.from] \in File
        BY <2>2, <2>4, Parts
      <3>2. call' \in Call
        BY <2>2, <2>4, <3>1 DEF Call, File
      <3>3. PICK keys \in SUBSET Locs : spent' = Doubt(keys)
        BY <2>2, <2>4
      <3>4. spent' \in History /\ spent'.twice = spent.twice
        BY <1>1, <3>3, DoubtIs
      <3>5. disk' \in [Locs -> File \cup {Absent}]
        BY <1>1, <2>2, <2>4, <3>1 DEF TypeOK
      <3> QED  BY <1>1, <1>2, <2>4, <3>2, <3>4, <3>5 DEF Core, TypeOK, Rename
    <2> QED  BY <1>2, <2>3, <2>4 DEF Rename
  <1>3. CASE Stream
    <2>1. call # None
      BY <1>3 DEF Stream, At
    <2>2. call' \in Call \cup {None}
      BY <1>3, <2>1, CallParts DEF Stream, Goto, Return, Call
    <2> QED  BY <1>1, <1>3, <2>2 DEF Core, TypeOK, Stream
  <1>4. CASE Commit
    <2>1. call # None
      BY <1>4 DEF Commit, At
    <2>2. call \in Call /\ call.to \in Locs /\ call.c \in Contents
      BY <2>1, CallParts
    <2>3. CASE call' = [call EXCEPT !.at = "record"] /\ UNCHANGED disk
      <3>1. call' \in Call
        BY <2>2, <2>3 DEF Call
      <3> QED  BY <1>1, <1>4, <2>3, <3>1 DEF Core, TypeOK, Commit
    <2>4. CASE \E ino \in Free : /\ disk' = [disk EXCEPT ![call.to] = [c |-> call.c, ino |-> ino]]
                                 /\ call' = [call EXCEPT !.at = "record", !.ino = ino]
      <3>1. PICK ino \in Inodes : /\ disk' = [disk EXCEPT ![call.to] = [c |-> call.c, ino |-> ino]]
                                  /\ call' = [call EXCEPT !.at = "record", !.ino = ino]
        BY <2>4 DEF Free
      <3>2. call' \in Call
        BY <2>2, <3>1 DEF Call
      <3>3. disk' \in [Locs -> File \cup {Absent}]
        BY <1>1, <2>2, <3>1 DEF TypeOK, File
      <3> QED  BY <1>1, <1>4, <3>2, <3>3 DEF Core, TypeOK, Commit
    <2> QED  BY <1>4, <2>3, <2>4 DEF Commit
  <1>5. CASE Verify
    <2>1. call # None
      BY <1>5 DEF Verify, At
    <2>2. call' \in Call \cup {None}
      BY <1>5, <2>1, CallParts DEF Verify, Goto, Return, Call
    <2> QED  BY <1>1, <1>5, <2>2 DEF Core, TypeOK, Verify
  <1>6. CASE VerifySource
    <2>1. call # None
      BY <1>6 DEF VerifySource, At
    <2>2. call' \in Call \cup {None}
      BY <1>6, <2>1, CallParts DEF VerifySource, Goto, Return, Call
    <2> QED  BY <1>1, <1>6, <2>2 DEF Core, TypeOK, VerifySource
  <1>7. CASE Forget
    BY <1>1, <1>7 DEF Core, TypeOK, Forget, Return
  <1> QED
    BY <1>2, <1>3, <1>4, <1>5, <1>6, <1>7, RecordCore, RemoveSourceCore, ReleaseCore, AcknowledgeCore DEF Step

LEMMA WatchingCore ==
  ASSUME Core, Watching
  PROVE  Core'
  <1>1. TypeOK /\ Sound(ix, spent.twice)
    BY DEF Core
  <1>2. ASSUME NEW k \in Home, Notice(k)  PROVE Core'
    <2>1. k \in Locs /\ disk[k] \in File
      BY <1>2, KeysAreLocs, Parts DEF Notice
    <2>2. seen' \in [Home -> File \cup {Absent}]
      BY <1>1, <1>2, <2>1 DEF Notice, TypeOK
    <2>3. hashing' \subseteq Event
      BY <1>1, <1>2, <2>1 DEF Notice, TypeOK, Event
    <2> QED  BY <1>1, <1>2, <2>2, <2>3 DEF Core, TypeOK, Notice
  <1>3. ASSUME NEW k \in Home, HoldExpires(k)  PROVE Core'
    BY <1>1, <1>3 DEF Core, TypeOK, HoldExpires
  <1> QED
    BY <1>2, <1>3, NoticeGoneCore, RecheckCore, ConfirmCore, DeliverCore, WindowClosesCore DEF Watching

LEMMA ScansCore ==
  ASSUME Core, Scans
  PROVE  Core'
  <1>1. TypeOK /\ Sound(ix, spent.twice) /\ spent \in History
    BY DEF Core, TypeOK
  <1>2. CASE StartScan
    <2>1. spent' \in History /\ spent'.twice = spent.twice
      BY <1>1, <1>2 DEF StartScan, History
    <2>2. Resting \in BOOLEAN
      BY DEF Resting
    <2>3. scan' \in Scan
      BY <1>2, <2>2 DEF StartScan, Scan
    <2> QED  BY <1>1, <1>2, <2>1, <2>3 DEF Core, TypeOK, StartScan
  <1>3. ASSUME NEW k \in Home, ScanRead(k)  PROVE Core'
    <2>1. scan \in Scan
      BY <1>1, <1>3 DEF ScanRead, Scanning, TypeOK
    <2>2. disk[k] # Absent => disk[k] \in File
      BY KeysAreLocs, Parts
    <2>3. scan' \in Scan
      BY <1>3, <2>1, <2>2 DEF ScanRead, Scan
    <2> QED  BY <1>1, <1>3, <2>3 DEF Core, TypeOK, ScanRead
  <1> QED
    BY <1>2, <1>3, ScanIngestCore, EndScanCore DEF Scans

\* What the other programs do to the disk and to the record of it.
LEMMA OutsideCore ==
  ASSUME Core, Disturbance, NEW keys \in SUBSET Locs, Touched(keys), disk' \in [Locs -> File \cup {Absent}]
  PROVE  /\ Core'
         /\ spent'.doubt = spent.doubt \cup {k \in keys \cap Home : disk'[k] = seen[k] /\ disk[k] # seen[k]}
         /\ spent'.touched = spent.touched \cup keys /\ spent'.twice = spent.twice
  <1>1. TypeOK /\ Sound(ix, spent.twice) /\ spent \in History /\ scan \in Scan \cup {None}
    BY DEF Core, TypeOK
  <1>2. scan' \in Scan \cup {None}
    BY <1>1 DEF Disturbance, Disturb, Scanning, Scan
  <1>3. PICK doubtful \in SUBSET Locs : doubtful = {k \in keys \cap Home : disk'[k] = seen[k] /\ disk[k] # seen[k]}
    OBVIOUS
  <1>4. spent' = [spent EXCEPT !.events = @ + 1, !.touched = @ \cup keys, !.doubt = @ \cup doubtful]
    BY <1>3 DEF Touched
  <1>5. /\ spent' \in History /\ spent'.twice = spent.twice /\ spent'.touched = spent.touched \cup keys
        /\ spent'.doubt = spent.doubt \cup doubtful
    <2>1. /\ spent.events + 1 \in Nat /\ spent.touched \cup keys \in SUBSET Locs
          /\ spent.doubt \cup doubtful \in SUBSET Locs
      BY <1>1 DEF History
    <2>2. spent' = [spent EXCEPT !.events = spent.events + 1, !.touched = spent.touched \cup keys,
                                 !.doubt = spent.doubt \cup doubtful]
      BY <1>4
    <2> QED  BY <1>1, <2>1, <2>2 DEF History
  <1> QED
    BY <1>1, <1>2, <1>3, <1>5 DEF Core, TypeOK, Disturbance

LEMMA SavedDisk ==
  ASSUME Core, NEW k \in Locs, NEW c \in Contents, Save(k, c)
  PROVE  \E ino \in Inodes \cup {None} : disk' = [disk EXCEPT ![k] = [c |-> c, ino |-> ino]]
  <1>1. PICK ino \in IF disk[k] = Absent THEN Free ELSE {disk[k].ino} : disk' = [disk EXCEPT ![k] = [c |-> c, ino |-> ino]]
    BY DEF Save
  <1>2. ino \in Inodes \cup {None}
    BY <1>1, Parts, FileParts DEF Free
  <1> QED
    BY <1>1, <1>2

LEMMA EnvironmentCore ==
  ASSUME Core, Environment
  PROVE  Core'
  <1>1. TypeOK /\ Sound(ix, spent.twice) /\ spent \in History /\ disk \in [Locs -> File \cup {Absent}]
    BY DEF Core, TypeOK
  <1>2. ASSUME NEW k \in Locs, Erase(k)  PROVE Core'
    <2>1. disk' \in [Locs -> File \cup {Absent}] /\ {k} \in SUBSET Locs
      BY <1>1, <1>2 DEF Erase
    <2> QED  BY <1>2, <2>1, OutsideCore DEF Erase
  <1>3. ASSUME NEW k \in Locs, NEW c \in Contents, Save(k, c)  PROVE Core'
    <2>1. PICK ino \in Inodes \cup {None} : disk' = [disk EXCEPT ![k] = [c |-> c, ino |-> ino]]
      BY <1>3, SavedDisk
    <2>2. disk' \in [Locs -> File \cup {Absent}] /\ {k} \in SUBSET Locs
      BY <1>1, <2>1 DEF File
    <2> QED  BY <1>3, <2>2, OutsideCore DEF Save
  <1>4. ASSUME NEW k \in Locs, NEW m \in Locs, MoveFile(k, m)  PROVE Core'
    <2>1. disk[k] \in File
      BY <1>4, Parts DEF MoveFile
    <2>2. disk' \in [Locs -> File \cup {Absent}] /\ {k, m} \in SUBSET Locs
      BY <1>1, <1>4, <2>1 DEF MoveFile
    <2> QED  BY <1>4, <2>2, OutsideCore DEF MoveFile
  <1>5. ASSUME NEW floor \in 1 .. LogHead(ix) + 1, Trim(floor)  PROVE Core'
    <2>1. ix \in IndexType /\ floor \in Nat
      BY <1>1 DEF Sound
    <2>2. spent' \in History /\ spent'.twice = spent.twice
      BY <1>1, <1>5 DEF Trim, History
    <2>3. ix' = [ix EXCEPT !.floor = floor]
      BY <1>5 DEF Trim, Trimmed
    <2>4. ix' \in IndexType /\ ix'.log = ix.log /\ ix'.owner = ix.owner /\ ix'.locs = ix.locs
      BY <2>1, <2>3 DEF IndexType
    <2>5. Sound(ix', spent'.twice)
      BY <1>1, <2>2, <2>4 DEF Sound, Agrees, Explains
    <2> QED  BY <1>1, <1>5, <2>2, <2>4, <2>5 DEF Core, TypeOK, Trim, memory
  <1>6. CASE Crash
    <2>1. {k \in Files : Owner(ix, k) # Content(k)} \in SUBSET Locs
      BY KeysAreLocs
    <2>2. spent' \in History /\ spent'.twice = spent.twice
      <3>1. PICK off \in SUBSET Locs : off = {k \in Files : Owner(ix, k) # Content(k)}
        BY <2>1
      <3>2. spent' = [spent EXCEPT !.events = spent.events + 1, !.doubt = spent.doubt \cup off]
        BY <1>6, <3>1 DEF Crash
      <3>3. spent.events + 1 \in Nat /\ spent.doubt \cup off \in SUBSET Locs
        BY <1>1 DEF History
      <3> QED  BY <1>1, <3>2, <3>3 DEF History
    <2>3. seen' \in [Home -> File \cup {Absent}]
      BY <1>1, <1>6, KeysAreLocs DEF Crash
    <2> QED  BY <1>1, <1>6, <2>2, <2>3 DEF Core, TypeOK, Crash
  <1> QED
    BY <1>2, <1>3, <1>4, <1>5, <1>6, KeysAreLocs DEF Environment

LEMMA CoreKept ==
  ASSUME Core, Shape, [Next]_vars
  PROVE  Core'
  <1>1. CASE UNCHANGED vars
    BY <1>1 DEF vars, memory, Core, TypeOK
  <1> QED
    BY <1>1, CallsCore, StepCore, WatchingCore, ScansCore, EnvironmentCore DEF Next

LEMMA SidesApart ==
  ASSUME NEW k \in Files, NEW m \in Locs, SameBackend(k, m)
  PROVE  m \in Files
  BY DisjointAssumption DEF SameBackend, Files

LEMMA ShapeKept ==
  ASSUME Core, Shape, [Next]_vars
  PROVE  Shape'
  <1>1. CASE UNCHANGED call \/ call' = None
    BY <1>1 DEF Shape
  <1>2. CASE Calls
    <2>1. ASSUME NEW kind \in {"copy", "move"}, NEW c \in Contents, NEW from \in Locs, NEW to \in Locs,
                 Transfer(kind, c, from, to)
          PROVE Shape'
      <3>1. PICK key \in Locs, over \in BOOLEAN :
              call' = [Ask(kind, IF kind = "move" /\ SameBackend(from, key) /\ from \in Files THEN "rename" ELSE "stream",
                           c, from, key) EXCEPT !.over = over, !.locs = ix.locs[c]]
        BY <2>1 DEF Transfer
      <3>2. from \in Files /\ SameBackend(from, key) => key \in Files
        BY SidesApart
      <3> QED  BY <3>1, <3>2 DEF Shape, Ask
    <2>2. ASSUME NEW c \in Contents, NEW to \in Files, PutObject(c, to)  PROVE Shape'
      BY <2>2 DEF PutObject, Shape, Ask
    <2>3. ASSUME NEW m \in moves, Resume(m)  PROVE Shape'
      BY <2>3 DEF Resume, Shape, Ask
    <2>4. ASSUME NEW u \in uploads, Upload(u)  PROVE Shape'
      <3>1. u.to \in Cloud
        BY DEF Core, TypeOK
      <3> QED  BY <2>4, <3>1 DEF Upload, Shape, Ask
    <2> QED  BY <1>2, <2>1, <2>2, <2>3, <2>4 DEF Calls
  <1>3. CASE Step
    <2>1. call # None
      BY <1>3 DEF Step, Rename, Stream, Commit, Record, Verify, VerifySource, RemoveSource, Release, Forget, Acknowledge, At
    <2>2. call \in Call
      BY <2>1, CallParts
    <2>3. CASE Rename
      BY <2>1, <2>2, <2>3 DEF Rename, At, Goto, Shape, Call
    <2>4. CASE Stream
      BY <2>1, <2>2, <2>4 DEF Stream, At, Goto, Return, Shape, Call
    <2>5. CASE Commit
      BY <2>1, <2>2, <2>5 DEF Commit, At, Shape, Call
    <2>6. CASE Record
      BY <2>1, <2>2, <2>6 DEF Record, At, Return, Shape, Call
    <2>7. CASE Verify
      BY <2>1, <2>2, <2>7 DEF Verify, At, Goto, Return, Shape, Call
    <2>8. CASE RemoveSource
      BY <2>1, <2>2, <2>8 DEF RemoveSource, At, Goto, Return, Shape, Call
    <2>9. CASE Forget \/ Acknowledge
      BY <1>1, <2>9 DEF Forget, Acknowledge, Return
    <2>10. CASE VerifySource
      BY <2>1, <2>2, <2>10 DEF VerifySource, At, Goto, Return, Shape, Call
    <2>11. CASE Release
      BY <2>1, <2>2, <2>11 DEF Release, At, Goto, Return, Shape, Call
    <2> QED  BY <1>3, <2>3, <2>4, <2>5, <2>6, <2>7, <2>8, <2>9, <2>10, <2>11 DEF Step
  <1>4. CASE Watching
    BY <1>1, <1>4 DEF Watching, NoticeGone, Notice, HoldExpires, Recheck, Confirm, Deliver, WindowCloses
  <1>5. CASE Scans
    BY <1>1, <1>5 DEF Scans, StartScan, ScanIngest, EndScan, ScanRead
  <1>6. CASE Environment
    BY <1>1, <1>6 DEF Environment, Erase, Save, MoveFile, Disturbance, Trim, Crash, memory
  <1> QED
    BY <1>1, <1>2, <1>3, <1>4, <1>5, <1>6 DEF Next, vars, memory

\* A reader who is not told that s is too old gets every entry after s, and
\* what it knew at s with those makes what the whole log says.
LEMMA ReplayTells ==
  ASSUME ix \in IndexType, NEW s \in 0 .. LogHead(ix), ~ TooOld(ix, s), NEW k \in Locs
  PROVE  Replay(ix, Known(s), Changes(ix, s))[k] = Told(ix.log, k)
  <1> DEFINE n == Len(ix.log)
             all == About(ix.log, k)
             early == {t \in 1 .. s : ix.log[t].key = k \/ ix.log[t].from = k}
             late == {t \in Changes(ix, s) : ix.log[t].key = k \/ ix.log[t].from = k}
  <1>1. n \in Nat /\ LogHead(ix) = n /\ ix.floor \in Nat /\ s \in Nat /\ s <= n
    BY IndexParts
  <1>2. Changes(ix, s) = s + 1 .. n
    BY <1>1 DEF Changes, TooOld
  <1>3. all \in SUBSET (1 .. n) /\ early \in SUBSET (1 .. n) /\ late \in SUBSET (1 .. n)
    BY <1>1, <1>2 DEF About
  <1>4. all = early \cup late
    BY <1>1, <1>2 DEF About
  <1>5. \A t \in early : t <= s
    BY <1>1
  <1>6. \A t \in late : t > s
    BY <1>1, <1>2
  <1>7. Known(s)[k] = IF early = {} THEN Indexed.owner[k] ELSE Word(ix.log[Max(early)], k)
    BY DEF Known, Replay, Word
  <1>8. Replay(ix, Known(s), Changes(ix, s))[k] = IF late = {} THEN Known(s)[k] ELSE Word(ix.log[Max(late)], k)
    BY DEF Replay, Word
  <1>9. Told(ix.log, k) = IF all = {} THEN Indexed.owner[k] ELSE Word(ix.log[Max(all)], k)
    BY DEF Told
  <1> HIDE DEF all, early, late
  <1>10. CASE late = {}
    BY <1>4, <1>7, <1>8, <1>9, <1>10
  <1>11. CASE late # {}
    <2>1. all # {}
      BY <1>4, <1>11
    <2>2. Max(late) \in late /\ \A t \in late : t <= Max(late)
      BY <1>1, <1>3, <1>11, Greatest
    <2>3. Max(all) \in all /\ \A t \in all : t <= Max(all)
      BY <1>1, <1>3, <2>1, Greatest
    <2>4. Max(late) \in 1 .. n /\ Max(all) \in 1 .. n /\ Max(late) > s
      BY <1>3, <1>6, <2>2, <2>3
    <2>5. Max(late) <= Max(all)
      BY <1>4, <2>2, <2>3
    <2>6. Max(all) \in late
      <3>1. ~ (Max(all) <= s)
        BY <1>1, <2>4, <2>5
      <3> QED  BY <1>4, <1>5, <2>3, <3>1
    <2>7. Max(all) <= Max(late)
      BY <2>2, <2>6
    <2>8. Max(all) = Max(late)
      BY <2>4, <2>5, <2>7
    <2> QED  BY <1>8, <1>9, <1>11, <2>1, <2>8
  <1> QED
    BY <1>10, <1>11

\* The types hold: what a transfer plans, streams, records and acknowledges,
\* what the watcher holds and what a scan reads stay in their ranges, and the
\* index stays an index.
THEOREM TypeCorrect == Spec => []TypeOK
  <1>1. Init => Core /\ Shape
    BY InitCore DEF Init, Shape
  <1>2. Core /\ Shape /\ [Next]_vars => (Core /\ Shape)'
    BY CoreKept, ShapeKept
  <1>3. Core => TypeOK
    BY DEF Core
  <1> QED
    BY <1>1, <1>2, <1>3, PTL DEF Spec

THEOREM CoreCorrect == Spec => [](Core /\ Shape)
  <1>1. Init => Core /\ Shape
    BY InitCore DEF Init, Shape
  <1>2. Core /\ Shape /\ [Next]_vars => (Core /\ Shape)'
    BY CoreKept, ShapeKept
  <1> QED
    BY <1>1, <1>2, PTL DEF Spec

\* A path row of the index and the locations of its entries agree on who owns
\* a key (index/index.js put, delete and the callers in index.js), whatever
\* transfers, events, scans and crashes come in whatever order.
THEOREM OneOwnerCorrect == Spec => []OneOwner
  <1>1. Core => OneOwner
    BY DEF Core, Sound, Agrees, OneOwner
  <1> QED
    BY <1>1, CoreCorrect, PTL

\* The change log explains the index to every reader who is not told that its
\* position is too old (index/index.js #append, changes, trimChanges).
THEOREM LogExplainsCorrect == Spec => []LogExplains
  <1>1. ASSUME Core  PROVE LogExplains
    <2>1. ix \in IndexType
      BY <1>1 DEF Core, Sound
    <2>2. ASSUME NEW s \in 0 .. LogHead(ix), ~ TooOld(ix, s), NEW k \in Locs \ spent.twice
          PROVE  Replay(ix, Known(s), Changes(ix, s))[k] = ix.owner[k]
      <3>1. Told(ix.log, k) = ix.owner[k]
        BY <1>1 DEF Core, Sound, Explains
      <3> QED  BY <2>1, <2>2, <3>1, ReplayTells
    <2> QED  BY <2>2 DEF LogExplains
  <1> QED
    BY <1>1, CoreCorrect, PTL

-----------------------------------------------------------------------------
(***************************************************************************)
(* A move takes its source last, and keeps its record until then            *)
(***************************************************************************)

\* Before a source is looked at and removed its bytes are at the destination.
TargetHeld == call # None =>
  (call.at \in {"source", "remove"} => Content(call.to) = call.c \/ call.to \in spent.touched)

\* When a resumed move is finished its source is gone, and once the index has
\* been written the destination is in it.
SourceGone == call # None =>
  (call.at \in {"release", "forget"} /\ call.to \in Cloud => Content(call.from) # call.c \/ call.from \in spent.touched)

TargetIndexed == call # None => (call.at = "forget" => ix.locs[call.c][call.to] # None)

\* No move goes from a key to itself; a call planned so finds nothing to read.
MovesApart ==
  /\ \A m \in moves : m.from # m.to /\ m.to \in Cloud
  /\ call # None =>
       (call.to \in Cloud /\ call.kind \in {"copy", "move", "resume"} =>
          \/ call.from # call.to
          \/ call.at = "stream" /\ disk[call.from] = Absent)
  /\ call # None => (call.kind = "resume" => call.to \in Cloud)

Ends == TargetHeld /\ SourceGone /\ TargetIndexed /\ MovesApart

LEMMA InitEnds ==
  ASSUME Init
  PROVE  Ends
  BY DEF Init, Ends, TargetHeld, SourceGone, TargetIndexed, MovesApart

\* What the environment does to a key: nothing that is not in "touched", and
\* to a watched file nothing that the watcher will not see, or that is in doubt.
Outside ==
  /\ UNCHANGED <<call, moves, held, rechecks, seen, hashing>> /\ ix'.owner = ix.owner /\ ix'.locs = ix.locs
  /\ spent.touched \subseteq spent'.touched /\ spent.doubt \subseteq spent'.doubt /\ spent'.twice = spent.twice
  /\ \A k \in Locs : disk'[k] = disk[k] \/ k \in spent'.touched
  /\ \A k \in Cloud : disk[k] = Absent => disk'[k] = Absent
  /\ \A k \in Nas : disk'[k] = disk[k]
  /\ \A k \in Home : disk'[k] = disk[k] \/ disk'[k] # seen[k] \/ k \in spent'.doubt
  /\ scan' # None => /\ scan # None /\ scan'.present = scan.present /\ scan'.todo = scan.todo
                     /\ scan'.calm => UNCHANGED <<scan, disk>>

LEMMA TouchedOutside ==
  ASSUME Core, Disturbance, NEW keys \in SUBSET Locs, Touched(keys), disk' \in [Locs -> File \cup {Absent}],
         keys \cap Nas = {}, \A k \in Locs \ keys : disk'[k] = disk[k],
         \A k \in keys \cap Cloud : disk'[k] = Absent
  PROVE  Outside
  <1>1. /\ spent'.doubt = spent.doubt \cup {k \in keys \cap Home : disk'[k] = seen[k] /\ disk[k] # seen[k]}
        /\ spent'.touched = spent.touched \cup keys /\ spent'.twice = spent.twice
    BY OutsideCore
  <1>2. scan' # None => scan # None /\ ~ scan'.calm /\ scan'.present = scan.present /\ scan'.todo = scan.todo
    <2>1. CASE scan = None
      BY <2>1 DEF Disturbance, Disturb, Scanning
    <2>2. CASE scan # None
      <3>1. scan \in Scan
        BY <2>2 DEF Core, TypeOK
      <3>2. scan' = [scan EXCEPT !.calm = FALSE]
        BY <2>2 DEF Disturbance, Disturb, Scanning
      <3> QED  BY <2>2, <3>1, <3>2 DEF Scan
    <2> QED  BY <2>1, <2>2
  <1>3. ASSUME NEW k \in Locs  PROVE disk'[k] = disk[k] \/ k \in spent'.touched
    BY <1>1
  <1>4. ASSUME NEW k \in Cloud, disk[k] = Absent  PROVE disk'[k] = Absent
    BY <1>4, KeysAreLocs
  <1>5. ASSUME NEW k \in Nas  PROVE disk'[k] = disk[k]
    BY KeysAreLocs
  <1>6. ASSUME NEW k \in Home  PROVE disk'[k] = disk[k] \/ disk'[k] # seen[k] \/ k \in spent'.doubt
    BY <1>1, KeysAreLocs
  <1> QED
    BY <1>1, <1>2, <1>3, <1>4, <1>5, <1>6 DEF Outside, Disturbance

LEMMA EnvironmentOutside ==
  ASSUME Core, Environment
  PROVE  Outside \/ Crash
  <1>1. disk \in [Locs -> File \cup {Absent}] /\ spent \in History
    BY DEF Core, TypeOK
  <1>2. Home \cap Nas = {} /\ Cloud \cap Nas = {} /\ Home \cap Cloud = {}
    BY DisjointAssumption DEF Files
  <1>3. ASSUME NEW k \in Home \cup Cloud, Erase(k)  PROVE Outside
    <2>1. disk' \in [Locs -> File \cup {Absent}] /\ {k} \in SUBSET Locs /\ {k} \cap Nas = {}
      BY <1>1, <1>2, <1>3, KeysAreLocs DEF Erase
    <2>2. (\A m \in Locs \ {k} : disk'[m] = disk[m]) /\ disk'[k] = Absent
      BY <1>1, <1>3, KeysAreLocs DEF Erase
    <2> QED  BY <1>3, <2>1, <2>2, TouchedOutside DEF Erase
  <1>4. ASSUME NEW k \in Home, NEW c \in Contents, Save(k, c)  PROVE Outside
    <2>1. PICK ino \in Inodes \cup {None} : disk' = [disk EXCEPT ![k] = [c |-> c, ino |-> ino]]
      BY <1>4, SavedDisk, KeysAreLocs
    <2>2. disk' \in [Locs -> File \cup {Absent}] /\ {k} \in SUBSET Locs /\ {k} \cap Nas = {} /\ {k} \cap Cloud = {}
      BY <1>1, <1>2, <2>1, KeysAreLocs DEF File
    <2>3. \A m \in Locs \ {k} : disk'[m] = disk[m]
      BY <1>1, <2>1
    <2> QED  BY <1>4, <2>2, <2>3, TouchedOutside DEF Save
  <1>5. ASSUME NEW k \in Home, NEW m \in Home, MoveFile(k, m)  PROVE Outside
    <2>1. disk[k] \in File /\ k \in Locs /\ m \in Locs
      BY <1>5, Parts, KeysAreLocs DEF MoveFile
    <2>2. disk' \in [Locs -> File \cup {Absent}] /\ {k, m} \in SUBSET Locs /\ {k, m} \cap Nas = {} /\ {k, m} \cap Cloud = {}
      BY <1>1, <1>2, <1>5, <2>1 DEF MoveFile
    <2>3. \A n \in Locs \ {k, m} : disk'[n] = disk[n]
      BY <1>1, <1>5 DEF MoveFile
    <2> QED  BY <1>5, <2>2, <2>3, TouchedOutside DEF MoveFile
  <1>6. ASSUME NEW floor \in 1 .. LogHead(ix) + 1, Trim(floor)  PROVE Outside
    <2>1. spent'.twice = spent.twice /\ spent'.doubt = spent.doubt /\ spent'.touched = spent.touched
      BY <1>1, <1>6 DEF Trim, History
    <2>2. ix \in IndexType
      BY Parts
    <2>3. ix'.owner = ix.owner /\ ix'.locs = ix.locs
      BY <1>6, <2>2 DEF Trim, Trimmed, IndexType
    <2> QED  BY <1>6, <2>1, <2>3 DEF Trim, memory, Outside
  <1> QED
    BY <1>3, <1>4, <1>5, <1>6 DEF Environment

\* What happens to watched files, and a scan, leave the remote locations of
\* every entry as they are.
CloudSame(y, x) == \A c \in Contents, k \in Cloud : y.locs[c][k] = x.locs[c][k]

LEMMA PutCloud ==
  ASSUME NEW x \in IndexType, NEW tx, NEW c \in Contents, NEW locations, NEW rename,
         \A k \in Cloud : locations[k] = x.locs[c][k]
  PROVE  CloudSame(Put(x, tx, c, locations, rename), x)
  <1>1. Put(x, tx, c, locations, rename).locs = [x.locs EXCEPT ![c] = locations]
    BY DEF Put, LogDiff, IndexType
  <1>2. x.locs \in [Contents -> Locations]
    BY IndexParts
  <1> HIDE DEF Put
  <1> QED
    BY <1>1, <1>2 DEF CloudSame

LEMMA ProcessUnlinkCloud ==
  ASSUME NEW X, NEW x, Sound(x, X), NEW k \in Home, NEW c, NEW tx, tx = LogHead(x)
  PROVE  CloudSame(ProcessUnlink(x, tx, k), x) /\ CloudSame(Displaced(x, tx, k, c), x)
  <1>1. x \in IndexType /\ k \in Locs /\ k \notin Cloud /\ tx \in Nat /\ tx <= Len(x.log) /\ OnlyGone(x.log, tx)
    BY KeysAreLocs, IndexParts, DisjointAssumption DEF Sound, Files
  <1>2. x.locs \in [Contents -> Locations]
    BY <1>1, IndexParts
  <1>3. CASE Owner(x, k) = None
    BY <1>3 DEF ProcessUnlink, Displaced, CloudSame
  <1>4. CASE Owner(x, k) # None
    <2>1. PICK o \in Contents : o = Owner(x, k)
      BY <1>1, <1>4, OwnerIs
    <2>2. Writes(Without(x, tx, o, k), x, X, tx, o, [x.locs[o] EXCEPT ![k] = None])
      BY <1>1, WithoutSound
    <2>3. CloudSame(Without(x, tx, o, k), x)
      BY <1>1, <1>2, <2>2, KeysAreLocs DEF Writes, CloudSame, Locations
    <2> QED  BY <1>4, <2>1, <2>3 DEF ProcessUnlink, Displaced, CloudSame
  <1> QED
    BY <1>3, <1>4

LEMMA SucceededCloud ==
  ASSUME NEW X, NEW x, Sound(x, X), NEW k \in Home, NEW file \in File, NEW tx, tx = LogHead(x)
  PROVE  CloudSame(Succeeded(x, tx, k, file), x)
  <1> DEFINE z == Displaced(x, tx, k, file.c)
  <1>1. k \in Locs /\ k \notin Cloud /\ file.c \in Contents
    BY KeysAreLocs, DisjointAssumption DEF File, Files
  <1>2. CloudSame(z, x)
    BY ProcessUnlinkCloud
  <1>3. z \in IndexType
    BY <1>1, DisplacedFrees DEF Freed, Sound
  <1>4. Succeeded(x, tx, k, file) = Put(z, tx, file.c, [z.locs[file.c] EXCEPT ![k] = There(file.ino)], None)
    BY DEF Succeeded, With
  <1> HIDE DEF z
  <1>5. z.locs[file.c] \in Locations
    BY <1>1, <1>3, IndexParts
  <1>6. \A m \in Cloud : [z.locs[file.c] EXCEPT ![k] = There(file.ino)][m] = z.locs[file.c][m]
    BY <1>1, <1>5 DEF Locations
  <1>7. CloudSame(Put(z, tx, file.c, [z.locs[file.c] EXCEPT ![k] = There(file.ino)], None), z)
    BY <1>1, <1>3, <1>6, PutCloud
  <1> QED
    BY <1>2, <1>4, <1>7 DEF CloudSame

LEMMA ArrivedCloud ==
  ASSUME Core, NEW e \in Event, NEW late, Arrived(e, late)
  PROVE  CloudSame(ix', ix)
  <1> DEFINE k == e.key
             c == e.file.c
             twins == IF e.kind = "add" /\ Owner(ix, k) \in {None, c} THEN HoldFor(e.file.ino) ELSE {}
             h0 == CHOOSE h \in twins : TRUE
  <1>1. /\ Sound(ix, spent.twice) /\ Tx = LogHead(ix) /\ ix \in IndexType /\ k \in Home /\ k \in Locs /\ k \notin Cloud
        /\ e.file \in File /\ c \in Contents
    BY Parts, KeysAreLocs, DisjointAssumption DEF Event, File, Files
  <1>2. IF twins = {} THEN ix' = Succeeded(ix, Tx, k, e.file)
        ELSE IF Owner(ix, h0.key) = c
             THEN ix' = Put(ix, Tx, c, [ix.locs[c] EXCEPT ![h0.key] = None, ![k] = There(e.file.ino)],
                            [from |-> h0.key, to |-> k])
             ELSE ix' = Succeeded(ProcessUnlink(ix, Tx, h0.key), LogHead(ProcessUnlink(ix, Tx, h0.key)), k, e.file)
    BY DEF Arrived
  <1>3. twins # {} => h0.key \in Home
    <2>1. twins # {} => h0 \in twins /\ twins \subseteq held
      BY DEF HoldFor
    <2> QED  BY <2>1 DEF Core, TypeOK, Held
  <1> HIDE DEF twins, h0, k, c
  <1>4. CASE twins = {}
    BY <1>1, <1>2, <1>4, SucceededCloud DEF c
  <1>5. CASE twins # {} /\ Owner(ix, h0.key) = c
    <2>1. h0.key \in Locs /\ h0.key \notin Cloud /\ ix.locs[c] \in Locations
      BY <1>1, <1>3, <1>5, KeysAreLocs, IndexParts, DisjointAssumption DEF Files
    <2>2. PICK locations : locations = [ix.locs[c] EXCEPT ![h0.key] = None, ![k] = There(e.file.ino)]
      OBVIOUS
    <2>3. \A m \in Cloud : locations[m] = ix.locs[c][m]
      BY <1>1, <2>1, <2>2, KeysAreLocs DEF Locations
    <2>4. PICK rename : ix' = Put(ix, Tx, c, locations, rename)
      BY <1>2, <1>5, <2>2
    <2> QED  BY <1>1, <2>3, <2>4, PutCloud
  <1>6. CASE twins # {} /\ Owner(ix, h0.key) # c
    <2>1. PICK gone : gone = ProcessUnlink(ix, Tx, h0.key)
      OBVIOUS
    <2>2. CloudSame(gone, ix)
      BY <1>1, <1>3, <1>6, <2>1, ProcessUnlinkCloud
    <2>3. Sound(gone, spent.twice)
      BY <1>1, <1>3, <1>6, <2>1, ProcessUnlinkFrees, KeysAreLocs DEF Freed
    <2>4. CloudSame(Succeeded(gone, LogHead(gone), k, e.file), gone)
      BY <1>1, <2>3, SucceededCloud
    <2> QED  BY <1>2, <1>6, <2>1, <2>2, <2>4 DEF CloudSame
  <1> QED
    BY <1>4, <1>5, <1>6

LEMMA LeftCloud ==
  ASSUME Core, NEW k \in Home, Left(k)
  PROVE  CloudSame(ix', ix)
  <1>1. Sound(ix, spent.twice) /\ Tx = LogHead(ix)
    BY Parts
  <1>2. ix' = ix \/ ix' = ProcessUnlink(ix, Tx, k) \/ \E h \in held : ix' = ProcessUnlink(ix, Tx, h.key)
    BY DEF Left, HoldFor
  <1>3. \A h \in held : h.key \in Home
    BY DEF Core, TypeOK, Held
  <1>4. ix' = ix => CloudSame(ix', ix)
    BY DEF CloudSame
  <1> QED
    BY <1>1, <1>2, <1>3, <1>4, ProcessUnlinkCloud

LEMMA WatchingCloud ==
  ASSUME Core, Watching
  PROVE  CloudSame(ix', ix)
  <1>1. Sound(ix, spent.twice) /\ Tx = LogHead(ix)
    BY Parts
  <1>2. ix' = ix => CloudSame(ix', ix)
    BY DEF CloudSame
  <1>3. ASSUME NEW k \in Home, NoticeGone(k) \/ Notice(k) \/ HoldExpires(k) \/ Recheck(k) \/ Confirm(k)
        PROVE  CloudSame(ix', ix)
    <2>1. ix' = ix \/ Left(k)
      BY <1>3 DEF NoticeGone, Notice, HoldExpires, Recheck, Confirm, Unlinked
    <2> QED  BY <1>2, <2>1, LeftCloud
  <1>4. ASSUME NEW e \in hashing, Deliver(e)  PROVE CloudSame(ix', ix)
    <2>1. e \in Event
      BY DEF Core, TypeOK
    <2>2. ix' = ix \/ \E late \in {{}, {e.key}} : Arrived(e, late)
      BY <1>4 DEF Deliver
    <2> QED  BY <1>2, <2>1, <2>2, ArrivedCloud
  <1>5. ASSUME NEW h \in held, WindowCloses(h)  PROVE CloudSame(ix', ix)
    BY <1>1, <1>5, WindowFrees, ProcessUnlinkCloud DEF WindowCloses
  <1> QED
    BY <1>3, <1>4, <1>5 DEF Watching

LEMMA ScansCloud ==
  ASSUME Core, Scans
  PROVE  CloudSame(ix', ix)
  <1>1. ix \in IndexType /\ Sound(ix, spent.twice) /\ Tx = LogHead(ix)
    BY Parts
  <1>2. ix' = ix => CloudSame(ix', ix)
    BY DEF CloudSame
  <1>3. CASE ScanIngest
    BY <1>1, <1>3, ScanIngestOwns, SucceededCloud DEF ScanIngest
  <1>4. CASE EndScan
    <2>1. \A k \in Cloud : k \notin Home /\ k \in Locs
      BY KeysAreLocs, DisjointAssumption DEF Files
    <2>2. PICK missing \in SUBSET Home : ix' = Pruned(ix, missing)
      BY <1>4 DEF EndScan
    <2>3. ix'.locs = [c \in Contents |-> [k \in Locs |-> IF k \in missing THEN None ELSE ix.locs[c][k]]]
      BY <1>1, <2>2 DEF Pruned, IndexType
    <2> QED  BY <2>1, <2>2, <2>3 DEF CloudSame
  <1> QED
    BY <1>2, <1>3, <1>4 DEF Scans, StartScan, ScanRead

\* Steps that leave the disk, the call and the moves alone.
LEMMA EndsStill ==
  ASSUME Core, Shape, Ends, UNCHANGED <<disk, call, moves>>, spent.touched \subseteq spent'.touched, CloudSame(ix', ix)
  PROVE  Ends'
  <1>1. TargetHeld' /\ SourceGone' /\ MovesApart'
    BY DEF Ends, TargetHeld, SourceGone, MovesApart, Content
  <1>2. TargetIndexed'
    <2>1. call # None /\ call.at = "forget" => call.to \in Cloud /\ call.c \in Contents
      BY CallParts DEF Ends, MovesApart, Shape
    <2> QED  BY <2>1 DEF Ends, TargetIndexed, CloudSame
  <1> QED
    BY <1>1, <1>2 DEF Ends

LEMMA WatchingStill ==
  ASSUME Core, Watching
  PROVE  UNCHANGED <<disk, moves, call, uploads, scan>> /\ spent'.touched = spent.touched
         /\ spent.doubt \subseteq spent'.doubt /\ spent'.twice = spent.twice
  <1>1. spent \in History
    BY DEF Core, TypeOK
  <1>2. UNCHANGED <<disk, moves, call, uploads, scan>>
    BY DEF Watching, NoticeGone, Notice, HoldExpires, Recheck, Confirm, Deliver, WindowCloses
  <1>3. spent' = spent \/ \E keys \in SUBSET Locs : spent' = Doubt(keys)
    <2>1. ASSUME NEW k \in Home, Leaves(k)  PROVE spent' = spent \/ \E keys \in SUBSET Locs : spent' = Doubt(keys)
      <3>1. \A h \in held : Present(h.key) \in SUBSET Locs
        BY KeysAreLocs DEF Core, TypeOK, Held, Present
      <3>2. Present(k) \in SUBSET Locs
        BY KeysAreLocs DEF Present
      <3> QED  BY <2>1, <3>1, <3>2 DEF Leaves, HoldFor
    <2>2. ASSUME NEW k \in Home, NoticeGone(k) \/ Confirm(k) \/ Recheck(k) \/ Notice(k) \/ HoldExpires(k)
          PROVE spent' = spent \/ \E keys \in SUBSET Locs : spent' = Doubt(keys)
      <3>1. spent' = spent \/ Left(k)
        BY <2>2 DEF NoticeGone, Confirm, Unlinked, Recheck, Notice, HoldExpires
      <3> QED  BY <2>1, <3>1, LeftLeaves
    <2>3. ASSUME NEW e \in hashing, Deliver(e)  PROVE spent' = spent \/ \E keys \in SUBSET Locs : spent' = Doubt(keys)
      <3>1. CASE Echo(e)
        BY <2>3, <3>1 DEF Deliver
      <3>2. CASE ~ Echo(e)
        <4>1. e.key \in Locs
          BY KeysAreLocs DEF Core, TypeOK, Event
        <4>2. PICK late \in SUBSET Locs : late = IF seen[e.key] = e.file THEN {} ELSE {e.key}
          BY <4>1
        <4>3. Lands(e.key, e.file.c, e.file.ino, late)
          BY <2>3, <3>2, <4>2, DeliverLands
        <4>4. \A h \in held : late \cup Present(h.key) \in SUBSET Locs
          BY KeysAreLocs DEF Core, TypeOK, Held, Present
        <4> QED  BY <4>3, <4>4 DEF Lands
      <3> QED  BY <3>1, <3>2
    <2>4. ASSUME NEW h \in held, WindowCloses(h)  PROVE \E keys \in SUBSET Locs : spent' = Doubt(keys)
      BY <2>4, WindowFrees
    <2> QED  BY <2>2, <2>3, <2>4 DEF Watching
  <1> QED
    BY <1>1, <1>2, <1>3, DoubtIs

LEMMA ScansStill ==
  ASSUME Core, Scans
  PROVE  UNCHANGED <<disk, moves, call, uploads, held, rechecks, seen, hashing>> /\ spent'.touched = spent.touched
         /\ spent'.twice = spent.twice
  <1>1. spent \in History
    BY DEF Core, TypeOK
  <1>2. UNCHANGED <<disk, moves, call, uploads, held, rechecks, seen, hashing>>
    BY DEF Scans, StartScan, ScanRead, ScanIngest, EndScan
  <1>3. CASE StartScan
    BY <1>1, <1>3 DEF StartScan, History
  <1>4. ASSUME NEW k \in Home, ScanRead(k)  PROVE spent' = spent
    BY <1>4 DEF ScanRead
  <1>5. CASE ScanIngest
    <2>1. PICK keys \in SUBSET Locs : spent' = Doubt(keys)
      BY <1>5, ScanIngestOwns DEF ScanIngest
    <2> QED  BY <1>1, <1>2, <2>1, DoubtIs
  <1>6. CASE EndScan
    <2>1. CASE scan.calm
      BY <1>1, <1>6, <2>1 DEF EndScan, History
    <2>2. CASE ~ scan.calm
      <3>1. PICK keys \in SUBSET Locs : spent' = Doubt(keys)
        BY <1>6, <2>2, KeysAreLocs DEF EndScan
      <3> QED  BY <1>1, <1>2, <3>1, DoubtIs
    <2> QED  BY <2>1, <2>2
  <1> QED
    BY <1>2, <1>3, <1>4, <1>5, <1>6 DEF Scans

LEMMA CallsEnds ==
  ASSUME Core, Shape, Ends, Calls
  PROVE  Ends'
  <1>1. moves' = moves
    BY DEF Calls, Transfer, PutObject, Resume, Upload
  <1>2. \A m \in moves : m.from # m.to /\ m.to \in Cloud
    BY DEF Ends, MovesApart
  <1>3. ASSUME NEW kind \in {"copy", "move"}, NEW c \in Contents, NEW from \in Locs, NEW to \in Locs,
               Transfer(kind, c, from, to)
        PROVE Ends'
    <2>1. PICK key \in Locs, over \in BOOLEAN :
            /\ key = to \/ disk[key] = Absent
            /\ call' = [Ask(kind, IF kind = "move" /\ SameBackend(from, key) /\ from \in Files THEN "rename" ELSE "stream",
                            c, from, key) EXCEPT !.over = over, !.locs = ix.locs[c]]
      BY <1>3 DEF Transfer
    <2>2. from # to /\ disk' = disk
      BY <1>3 DEF Transfer
    <2>3. call'.kind = kind /\ call'.from = from /\ call'.to = key /\ call'.at \in {"rename", "stream"}
          /\ (call'.at = "rename" => from \in Files /\ SameBackend(from, key))
      BY <2>1 DEF Ask
    <2>4. key \in Cloud /\ from = key => call'.at = "stream" /\ disk'[from] = Absent
      BY <2>1, <2>2, <2>3, DisjointAssumption
    <2> QED  BY <1>1, <1>2, <2>3, <2>4 DEF Ends, TargetHeld, SourceGone, TargetIndexed, MovesApart
  <1>4. ASSUME NEW c \in Contents, NEW to \in Files, PutObject(c, to)  PROVE Ends'
    <2>1. call'.kind = "put" /\ call'.at = "commit"
      BY <1>4 DEF PutObject, Ask
    <2> QED  BY <1>1, <1>2, <2>1 DEF Ends, TargetHeld, SourceGone, TargetIndexed, MovesApart
  <1>5. ASSUME NEW m \in moves, Resume(m)  PROVE Ends'
    <2>1. call'.kind = "resume" /\ call'.at = "verify" /\ call'.from = m.from /\ call'.to = m.to
      BY <1>5 DEF Resume, Ask
    <2> QED  BY <1>1, <1>2, <2>1 DEF Ends, TargetHeld, SourceGone, TargetIndexed, MovesApart
  <1>6. ASSUME NEW u \in uploads, Upload(u)  PROVE Ends'
    <2>1. call'.kind = "ack" /\ call'.at = "write"
      BY <1>6 DEF Upload, Ask
    <2> QED  BY <1>1, <1>2, <2>1 DEF Ends, TargetHeld, SourceGone, TargetIndexed, MovesApart
  <1> QED
    BY <1>3, <1>4, <1>5, <1>6 DEF Calls

LEMMA StepEnds ==
  ASSUME Core, Shape, Ends, Step
  PROVE  Ends'
  <1>1. call # None
    BY DEF Step, Rename, Stream, Commit, Record, Verify, VerifySource, RemoveSource, Release, Forget, Acknowledge, At
  <1>2. /\ call \in Call /\ call.c \in Contents /\ call.to \in Locs /\ call.from \in Locs
        /\ \A k \in Locs : disk[k] # Absent => disk[k] \in File
        /\ disk \in [Locs -> File \cup {Absent}] /\ spent \in History
    BY <1>1, CallParts, Parts DEF Core, TypeOK
  <1>3. \A m \in moves : m.from # m.to /\ m.to \in Cloud
    BY DEF Ends, MovesApart
  <1>4. ASSUME call' = None, moves' \subseteq moves  PROVE Ends'
    BY <1>3, <1>4 DEF Ends, TargetHeld, SourceGone, TargetIndexed, MovesApart
  <1>5. CASE Rename
    <2>1. call.to \in Files /\ call.from \in Files /\ call.to \notin Cloud /\ moves' = moves
      BY <1>1, <1>5, DisjointAssumption DEF Rename, At, Shape
    <2>2. call'.to = call.to /\ call'.kind = call.kind /\ call'.at \in {"stream", "release"}
      BY <1>2, <1>5 DEF Rename, Goto, Call
    <2> QED  BY <1>1, <1>3, <2>1, <2>2 DEF Ends, TargetHeld, SourceGone, TargetIndexed, MovesApart
  <1>6. CASE Stream
    <2>1. CASE Content(call.from) = call.c /\ call' = [call EXCEPT !.at = "commit"]
      <3>1. disk' = disk /\ moves' = moves /\ call.at = "stream"
        BY <1>6 DEF Stream, At
      <3>2. disk[call.from] # Absent
        BY <1>2, <2>1, NoneAssumption DEF Content
      <3>3. call'.at = "commit" /\ call'.from = call.from /\ call'.to = call.to /\ call'.kind = call.kind
        BY <1>2, <2>1 DEF Call
      <3> QED  BY <1>1, <3>1, <3>2, <3>3 DEF Ends, TargetHeld, SourceGone, TargetIndexed, MovesApart
    <2>2. CASE call' = None
      BY <1>4, <1>6, <2>2 DEF Stream
    <2> QED  BY <1>6, <2>1, <2>2 DEF Stream, Goto, Return
  <1>7. CASE Commit
    <2>1. call.at = "commit" /\ moves' = moves
      BY <1>7 DEF Commit, At
    <2>2. call'.at = "record" /\ call'.from = call.from /\ call'.to = call.to /\ call'.kind = call.kind
      BY <1>2, <1>7 DEF Commit, Call
    <2> QED  BY <1>1, <2>1, <2>2 DEF Ends, TargetHeld, SourceGone, TargetIndexed, MovesApart
  <1>8. CASE Record
    <2>1. call.at = "record" /\ disk' = disk
      BY <1>8 DEF Record, At
    <2>2. \/ moves' = moves
          \/ /\ call.to \in Cloud /\ call.kind = "move"
             /\ moves' = moves \cup {[c |-> call.c, from |-> call.from, to |-> call.to]}
      BY <1>8 DEF Record
    <2>3. \A m \in moves' : m.from # m.to /\ m.to \in Cloud
      <3>1. call.to \in Cloud /\ call.kind = "move" => call.from # call.to
        BY <1>1, <2>1 DEF Ends, MovesApart
      <3> QED  BY <1>3, <2>2, <3>1
    <2>4. call' = None \/ (call.to \notin Cloud /\ call'.at = "verify" /\ call'.to = call.to /\ call'.kind = call.kind)
      BY <1>2, <1>8 DEF Record, Return, Call
    <2> QED  BY <1>1, <2>3, <2>4 DEF Ends, TargetHeld, SourceGone, TargetIndexed, MovesApart
  <1>9. CASE Verify
    <2>1. call.at = "verify" /\ disk' = disk /\ moves' = moves
      BY <1>9 DEF Verify, At
    <2>2. call' = None \/ (Content(call.to) = call.c /\ call' = [call EXCEPT !.at = "source"])
      BY <1>9 DEF Verify, Goto, Return
    <2>3. CASE call' = None
      BY <1>4, <2>1, <2>3
    <2>4. CASE call' # None
      <3>1. /\ call'.c = call.c /\ call'.from = call.from /\ call'.to = call.to /\ call'.kind = call.kind
            /\ Content(call.to) = call.c /\ call'.at = "source"
        BY <1>2, <2>2, <2>4 DEF Call
      <3> QED  BY <1>1, <2>1, <3>1 DEF Ends, TargetHeld, SourceGone, TargetIndexed, MovesApart, Content
    <2> QED  BY <2>3, <2>4
  <1>13. CASE VerifySource
    <2>1. call.at = "source" /\ disk' = disk /\ moves' = moves /\ spent' = spent
      BY <1>13 DEF VerifySource, At
    <2>2. call' = None \/ (\E at \in {"release", "remove"} :
                             call' = [call EXCEPT !.at = at] /\ (at = "release" => disk[call.from] = Absent))
      BY <1>13 DEF VerifySource, Goto, Return
    <2>3. CASE call' = None
      BY <1>4, <2>1, <2>3
    <2>4. CASE call' # None
      <3>1. /\ call'.c = call.c /\ call'.from = call.from /\ call'.to = call.to /\ call'.kind = call.kind
            /\ call'.at \in {"release", "remove"} /\ (call'.at = "release" => disk[call.from] = Absent)
        BY <1>2, <2>2, <2>4 DEF Call
      <3>2. TargetHeld'
        BY <1>1, <2>1, <3>1 DEF Ends, TargetHeld, Content
      <3>3. SourceGone' /\ TargetIndexed'
        BY <1>2, <2>1, <3>1, NoneAssumption DEF SourceGone, TargetIndexed, Content
      <3>4. MovesApart'
        BY <1>1, <2>1, <3>1 DEF Ends, MovesApart
      <3> QED  BY <3>2, <3>3, <3>4 DEF Ends
    <2> QED  BY <2>3, <2>4
  <1>10. CASE RemoveSource
    <2>1. call.at = "remove" /\ moves' = moves
      BY <1>10 DEF RemoveSource, At
    <2>2. call' = None \/ (/\ call'.c = call.c /\ call'.from = call.from /\ call'.to = call.to /\ call'.kind = call.kind
                           /\ call'.at = "release" /\ disk'[call.from] = Absent)
      BY <1>2, <1>10 DEF RemoveSource, Goto, Return, Call
    <2>3. CASE call' = None
      BY <1>4, <2>1, <2>3
    <2>4. CASE call' # None
      <3>1. TargetHeld'
        BY <2>1, <2>2, <2>4 DEF TargetHeld
      <3>2. SourceGone' /\ TargetIndexed'
        BY <1>2, <2>1, <2>2, <2>4, NoneAssumption DEF SourceGone, TargetIndexed, Content
      <3>3. MovesApart'
        BY <1>1, <2>1, <2>2, <2>4 DEF Ends, MovesApart
      <3> QED  BY <3>1, <3>2, <3>3 DEF Ends
    <2> QED  BY <2>3, <2>4
  <1>11. CASE Release
    <2>1. call.at = "release" /\ disk' = disk /\ moves' = moves
      BY <1>11 DEF Release, At
    <2>2. CASE call' = None
      BY <1>4, <2>1, <2>2
    <2>3. CASE call' # None
      <3>1. call.kind = "resume" /\ call' = [call EXCEPT !.at = "forget"]
        BY <1>11, <2>3 DEF Release, Goto, Return
      <3>2. /\ call'.c = call.c /\ call'.from = call.from /\ call'.to = call.to /\ call'.kind = call.kind
            /\ call'.at = "forget"
        BY <1>2, <3>1 DEF Call
      <3>3. call.to \in Cloud /\ call.from # call.to
        BY <1>1, <2>1, <3>1 DEF Ends, MovesApart
      <3>4. spent'.touched = spent.touched /\ ix'.locs[call.c][call.to] # None
        BY <1>11, <2>3, <3>3, ReleaseOwns
      <3>5. TargetHeld' /\ TargetIndexed'
        BY <3>2, <3>4 DEF TargetHeld, TargetIndexed
      <3>6. SourceGone'
        BY <1>1, <2>1, <3>2, <3>4 DEF Ends, SourceGone, Content
      <3>7. MovesApart'
        BY <1>1, <2>1, <3>2, <3>3 DEF Ends, MovesApart
      <3> QED  BY <3>5, <3>6, <3>7 DEF Ends
    <2> QED  BY <2>2, <2>3
  <1>14. CASE Forget
    BY <1>4, <1>14 DEF Forget, Return
  <1>12. CASE Acknowledge
    BY <1>4, <1>12 DEF Acknowledge, Return
  <1> QED
    BY <1>5, <1>6, <1>7, <1>8, <1>9, <1>10, <1>11, <1>12, <1>13, <1>14 DEF Step

LEMMA EndsKept ==
  ASSUME Core, Shape, Ends, [Next]_vars
  PROVE  Ends'
  <1>1. CASE UNCHANGED vars
    BY <1>1, EndsStill DEF vars, memory, CloudSame
  <1>2. CASE Watching \/ Scans
    BY <1>2, EndsStill, WatchingStill, ScansStill, WatchingCloud, ScansCloud
  <1>3. CASE Outside
    <2>1. UNCHANGED <<call, moves>> /\ spent.touched \subseteq spent'.touched
      BY <1>3 DEF Outside
    <2>2. \A k \in Locs : Content(k)' = Content(k) \/ k \in spent'.touched
      BY <1>3 DEF Outside, Content
    <2>3. call # None => call.from \in Locs /\ call.to \in Locs
      BY CallParts
    <2>4. TargetHeld' /\ SourceGone'
      BY <2>1, <2>2, <2>3 DEF Ends, TargetHeld, SourceGone, Content
    <2>5. MovesApart' /\ TargetIndexed'
      BY <1>3, <2>1 DEF Ends, MovesApart, TargetIndexed, Outside
    <2> QED  BY <2>4, <2>5 DEF Ends
  <1>4. CASE Crash
    <2>1. call' = None /\ moves' = moves
      BY <1>4 DEF Crash
    <2> QED  BY <2>1 DEF Ends, TargetHeld, SourceGone, TargetIndexed, MovesApart
  <1> QED
    BY <1>1, <1>2, <1>3, <1>4, CallsEnds, StepEnds, EnvironmentOutside DEF Next

THEOREM EndsCorrect == Spec => [](Core /\ Shape /\ Ends)
  <1>1. Init => Ends
    BY InitEnds
  <1>2. Core /\ Shape /\ Ends /\ [Next]_vars => Ends'
    BY EndsKept
  <1> QED
    BY <1>1, <1>2, CoreCorrect, PTL DEF Spec

\* A move removes its source last: when it does, its destination has the
\* bytes, or somebody else changed it since the move began (#finalizeMove and
\* resumePendingMoves in index.js).
THEOREM SourceLastCorrect == Spec => SourceLast
  <1>1. Core /\ Shape /\ Ends /\ [Next]_vars
        => [At("remove") /\ disk' # disk => Content(call.to) = call.c \/ call.to \in spent.touched]_vars
    BY DEF Ends, TargetHeld, At
  <1> QED
    BY <1>1, EndsCorrect, PTL DEF Spec, SourceLast

\* A pending move is forgotten only when its source is gone, or somebody
\* changed it since, and its destination is in the index (#finalizeMove).
THEOREM MovesKeptCorrect == Spec => MovesKept
  <1>1. ASSUME Core, Shape, Ends, [Next]_vars, NEW m \in moves \ moves'
        PROVE  (Content(m.from) # m.c \/ m.from \in spent.touched) /\ ix'.locs[m.c][m.to] # None
    <2>1. CASE UNCHANGED moves
      BY <1>1, <2>1
    <2>2. CASE Record
      BY <1>1, <2>2 DEF Record
    <2>3. CASE Forget
      <3>1. m = [c |-> call.c, from |-> call.from, to |-> call.to] /\ ix' = ix /\ call # None /\ call.at = "forget"
        BY <1>1, <2>3 DEF Forget, At
      <3>2. call.to \in Cloud /\ ix.locs[call.c][call.to] # None
        BY <1>1, <3>1 DEF Ends, MovesApart, TargetIndexed, Shape
      <3>3. Content(call.from) # call.c \/ call.from \in spent.touched
        BY <1>1, <3>1, <3>2 DEF Ends, SourceGone
      <3> QED  BY <3>1, <3>2, <3>3
    <2> QED
      BY <1>1, <2>1, <2>2, <2>3, WatchingStill, ScansStill, EnvironmentOutside
      DEF Next, Calls, Transfer, PutObject, Resume, Upload, Step, Rename, Stream, Commit, Verify, VerifySource,
          RemoveSource, Release, Acknowledge, Outside, Crash, vars
  <1>2. Core /\ Shape /\ Ends /\ [Next]_vars
        => [\A m \in moves \ moves' : /\ Content(m.from) # m.c \/ m.from \in spent.touched
                                      /\ ix'.locs[m.c][m.to] # None]_vars
    BY <1>1
  <1> QED
    BY <1>2, EndsCorrect, PTL DEF Spec, MovesKept

-----------------------------------------------------------------------------
(***************************************************************************)
(* Whatever the index says of a file that the disk does not, is on its way  *)
(***************************************************************************)

\* One unlink is held per inode.
HeldOnce == \A g \in held, h \in held : g.ino = h.ino => g = h

\* The transfer under way will say so in the index.
Moving(k) ==
  /\ call # None
  /\ \/ call.at = "record" /\ k = call.to
     \/ call.at = "release" /\ k = call.to
     \/ call.at = "release" /\ k = call.from /\ ix.owner[k] = call.c /\ disk[k] = Absent

\* The watcher will say so: it has not looked yet, or is hashing the file, or
\* holds its unlink, or looks at it again after a suppression.
Rechecked(k) == \E r \in rechecks : r.key = k

Noticed(k) ==
  \/ seen[k] # disk[k]
  \/ \E e \in hashing : e.key = k /\ e.file = disk[k]
  \/ \E h \in held : h.key = k
  \/ disk[k] = Absent /\ Rechecked(k)

Settled(k) ==
  \/ k \in spent.doubt \cup spent.twice
  \/ ix.owner[k] = Content(k)
  \/ Moving(k)
  \/ k \in Home /\ Noticed(k)

Followed == \A k \in Files : Settled(k)

\* What a scan that nothing disturbed has read is on the disk, and what it has
\* finished is in the index.
CalmScan ==
  scan # None =>
    /\ scan.present \cap scan.todo = {}
    /\ scan.calm =>
         /\ call = None /\ held = {} /\ rechecks = {} /\ hashing = {}
         /\ \A k \in Home : seen[k] = disk[k]
         /\ scan.row # None => scan.row.file = disk[scan.row.key]
         /\ \A k \in Home \ (scan.todo \cup spent.twice) :
              /\ k \in scan.present <=> disk[k] # Absent
              /\ k \in scan.present => \/ ix.owner[k] = Content(k)
                                       \/ scan.row # None /\ scan.row.key = k

Settling == HeldOnce /\ Followed /\ CalmScan

LEMMA InitSettling ==
  ASSUME Init
  PROVE  Settling
  <1>1. \A k \in Files : ix.owner[k] = Content(k)
    BY StartAssumption DEF Init, Content
  <1> QED
    BY <1>1 DEF Init, Settling, HeldOnce, Followed, CalmScan, Settled

\* A key that a step does not concern.
Aside(k) ==
  /\ disk'[k] = disk[k]
  /\ k \in spent.doubt => k \in spent'.doubt
  /\ k \in spent.twice => k \in spent'.twice
  /\ k \notin spent'.twice => ix'.owner[k] = ix.owner[k]
  /\ Moving(k) => call' = call
  /\ k \in Home => seen'[k] = seen[k]
  /\ \A e \in hashing : e.key = k => e \in hashing'
  /\ \A h \in held : h.key = k => h \in held'
  /\ Rechecked(k) => Rechecked(k)'

LEMMA AsideSettled ==
  ASSUME NEW k \in Files, Settled(k), Aside(k)
  PROVE  Settled(k)'
  <1>1. CASE k \in spent'.twice
    BY <1>1 DEF Settled
  <1>2. CASE k \notin spent'.twice
    <2>1. ix'.owner[k] = ix.owner[k] /\ disk'[k] = disk[k] /\ k \notin spent.twice
      BY <1>2 DEF Aside, Rechecked
    <2>2. CASE k \in spent.doubt
      BY <2>2 DEF Aside, Settled
    <2>3. CASE ix.owner[k] = Content(k)
      BY <2>1, <2>3 DEF Settled, Content
    <2>4. CASE Moving(k)
      BY <2>1, <2>4 DEF Aside, Settled, Moving
    <2>5. CASE k \in Home /\ Noticed(k)
      BY <2>1, <2>5 DEF Aside, Settled, Noticed
    <2> QED  BY <2>1, <2>2, <2>3, <2>4, <2>5 DEF Settled
  <1> QED
    BY <1>1, <1>2

\* An arrival at another key frees at most one key, and only when it takes
\* back the one unlink that was held for its inode.
LEMMA LandsSettles ==
  ASSUME Core, HeldOnce, NEW k0, NEW c, NEW ino, NEW late \in SUBSET Locs, Lands(k0, c, ino, late),
         UNCHANGED <<disk, rechecks, seen>>, NEW k \in Files, k # k0, Settled(k), Moving(k) => call' = call,
         \A e \in hashing : e.key = k => e \in hashing'
  PROVE  Settled(k)'
  <1>1. spent \in History /\ k \in Locs
    BY KeysAreLocs DEF Core, TypeOK
  <1>2. CASE Owned(ix', ix, spent.twice, k0, c, {}) /\ spent' = Doubt(late) /\ held' = held
    <2>1. spent'.twice = spent.twice /\ spent.doubt \subseteq spent'.doubt
      BY <1>1, <1>2, DoubtIs
    <2>2. Aside(k)
      BY <1>1, <1>2, <2>1 DEF Aside, Rechecked, Owned
    <2> QED  BY <2>2, AsideSettled
  <1>3. CASE \E h \in held : /\ h.ino = ino /\ held' = held \ HoldFor(ino)
                             /\ Owned(ix', ix, spent.twice, k0, c, {h.key})
                             /\ spent' = Doubt(late \cup Present(h.key))
    <2>1. PICK h \in held : /\ h.ino = ino /\ held' = held \ HoldFor(ino)
                            /\ Owned(ix', ix, spent.twice, k0, c, {h.key})
                            /\ spent' = Doubt(late \cup Present(h.key))
      BY <1>3
    <2>2. late \cup Present(h.key) \in SUBSET Locs
      BY KeysAreLocs DEF Core, TypeOK, Held, Present
    <2>3. spent'.twice = spent.twice /\ spent'.doubt = spent.doubt \cup late \cup Present(h.key)
      BY <1>1, <2>1, <2>2, DoubtIs
    <2>4. CASE k = h.key
      <3>1. k \notin spent.twice => ix'.owner[k] = None
        BY <1>1, <2>1, <2>4 DEF Owned
      <3>2. k \in spent'.doubt \/ disk[k] = Absent
        BY <2>3, <2>4 DEF Present
      <3> QED  BY <2>3, <3>1, <3>2 DEF Settled, Content
    <2>5. CASE k # h.key
      <3>1. \A g \in held : g.key = k => g \in held'
        BY <2>1, <2>5 DEF HeldOnce, HoldFor
      <3>2. k \notin spent'.twice => ix'.owner[k] = ix.owner[k]
        BY <1>1, <2>1, <2>3, <2>5 DEF Owned
      <3>3. Aside(k)
        BY <2>3, <3>1, <3>2 DEF Aside, Rechecked
      <3> QED  BY <3>3, AsideSettled
    <2> QED  BY <2>4, <2>5
  <1> QED
    BY <1>2, <1>3 DEF Lands

LEMMA LeavesSettles ==
  ASSUME Core, HeldOnce, NEW k0 \in Home, Leaves(k0),
         UNCHANGED <<disk, call, hashing>>, NEW k \in Files, Settled(k),
         k # k0 => (k \in Home => seen'[k] = seen[k]) /\ (Rechecked(k) => Rechecked(k)')
  PROVE  Settled(k)'
  <1>1. spent \in History /\ k \in Locs
    BY KeysAreLocs DEF Core, TypeOK
  <1>2. CASE Freed(ix', ix, spent.twice, Tx, {k0}) /\ held' = held /\ spent' = Doubt(Present(k0))
    <2>3. spent'.twice = spent.twice /\ spent'.doubt = spent.doubt \cup Present(k0)
      <3>1. Present(k0) \in SUBSET Locs
        BY KeysAreLocs DEF Present
      <3> QED  BY <1>1, <1>2, <3>1, DoubtIs
    <2>1. CASE k = k0
      <3>1. k \in spent'.doubt \/ disk[k] = Absent
        BY <2>1, <2>3 DEF Present
      <3> QED  BY <1>1, <1>2, <2>1, <2>3, <3>1 DEF Freed, Settled, Content
    <2>2. CASE k # k0
      <3>1. k \notin spent'.twice => ix'.owner[k] = ix.owner[k]
        BY <1>1, <1>2, <2>2, <2>3 DEF Freed
      <3>2. Aside(k)
        BY <1>2, <2>2, <2>3, <3>1 DEF Aside
      <3> QED  BY <3>2, AsideSettled
    <2> QED  BY <2>1, <2>2
  <1>3. CASE \E ino \in Inodes :
               /\ held' = (held \ HoldFor(ino)) \cup {[key |-> k0, ino |-> ino]}
               /\ \/ HoldFor(ino) = {} /\ ix' = ix /\ spent' = spent
                  \/ \E h \in HoldFor(ino) : /\ Freed(ix', ix, spent.twice, Tx, {h.key})
                                             /\ spent' = Doubt(Present(h.key))
    <2>1. PICK ino \in Inodes :
               /\ held' = (held \ HoldFor(ino)) \cup {[key |-> k0, ino |-> ino]}
               /\ \/ HoldFor(ino) = {} /\ ix' = ix /\ spent' = spent
                  \/ \E h \in HoldFor(ino) : /\ Freed(ix', ix, spent.twice, Tx, {h.key})
                                             /\ spent' = Doubt(Present(h.key))
      BY <1>3
    <2>2. CASE k = k0
      <3>1. \E h \in held' : h.key = k
        <4>1. [key |-> k0, ino |-> ino] \in held' /\ [key |-> k0, ino |-> ino].key = k
          BY <2>1, <2>2
        <4> QED  BY <4>1
      <3> QED  BY <2>2, <3>1 DEF Settled, Noticed, Rechecked
    <2>3. CASE k # k0 /\ HoldFor(ino) = {} /\ ix' = ix /\ spent' = spent
      <3>1. Aside(k)
        BY <2>1, <2>3 DEF Aside
      <3> QED  BY <3>1, AsideSettled
    <2>4. CASE k # k0 /\ \E h \in HoldFor(ino) : /\ Freed(ix', ix, spent.twice, Tx, {h.key})
                                                 /\ spent' = Doubt(Present(h.key))
      <3>1. PICK h \in HoldFor(ino) : /\ Freed(ix', ix, spent.twice, Tx, {h.key})
                                      /\ spent' = Doubt(Present(h.key))
        BY <2>4
      <3>2. Present(h.key) \in SUBSET Locs
        BY <3>1, KeysAreLocs DEF Core, TypeOK, Held, Present, HoldFor
      <3>3. spent'.twice = spent.twice /\ spent'.doubt = spent.doubt \cup Present(h.key)
        BY <1>1, <3>1, <3>2, DoubtIs
      <3>4. CASE k = h.key
        <4>1. k \notin spent.twice => ix'.owner[k] = None
          BY <1>1, <3>1, <3>4 DEF Freed
        <4>2. k \in spent'.doubt \/ disk[k] = Absent
          BY <3>3, <3>4 DEF Present
        <4> QED  BY <3>3, <4>1, <4>2 DEF Settled, Content
      <3>5. CASE k # h.key
        <4>1. \A g \in held : g.key = k => g \in held'
          BY <2>1, <3>1, <3>5 DEF HeldOnce, HoldFor
        <4>2. k \notin spent'.twice => ix'.owner[k] = ix.owner[k]
          BY <1>1, <3>1, <3>3, <3>5 DEF Freed
        <4>3. Aside(k)
          BY <2>4, <3>3, <4>1, <4>2 DEF Aside
        <4> QED  BY <4>3, AsideSettled
      <3> QED  BY <3>4, <3>5
    <2> QED  BY <2>1, <2>2, <2>3, <2>4
  <1> QED
    BY <1>2, <1>3 DEF Leaves

\* An unlink, whether the watcher announces it or a recheck found it.
LEMMA UnlinkedSettles ==
  ASSUME Core, HeldOnce, NEW k0 \in Home, NEW checks, Unlinked(k0, checks), UNCHANGED <<disk, call, hashing>>,
         \A r \in rechecks : r.key # k0 => r \in checks, \A m \in Home : m # k0 => seen'[m] = seen[m],
         NEW k \in Files, Settled(k), k = k0 => seen' = seen \/ disk[k] = Absent
  PROVE  Settled(k)'
  <1>1. CASE Left(k0) /\ rechecks' = checks
    <2>1. k # k0 => (k \in Home => seen'[k] = seen[k]) /\ (Rechecked(k) => Rechecked(k)')
      BY <1>1 DEF Rechecked
    <2>2. Leaves(k0)
      BY <1>1, LeftLeaves
    <2> QED  BY <2>1, <2>2, LeavesSettles
  <1>2. CASE rechecks' = checks \cup {[key |-> k0, gone |-> FALSE]} /\ UNCHANGED <<ix, held, spent>>
    <2>1. CASE k # k0
      <3>1. Rechecked(k) => Rechecked(k)'
        BY <1>2, <2>1 DEF Rechecked
      <3>2. Aside(k)
        BY <1>2, <2>1, <3>1 DEF Aside
      <3> QED  BY <3>2, AsideSettled
    <2>2. CASE k = k0
      <3>1. Rechecked(k)'
        <4>1. [key |-> k0, gone |-> FALSE] \in rechecks' /\ [key |-> k0, gone |-> FALSE].key = k
          BY <1>2, <2>2
        <4> QED  BY <4>1 DEF Rechecked
      <3>2. CASE disk[k] = Absent
        BY <2>2, <3>1, <3>2 DEF Settled, Noticed
      <3>3. CASE disk[k] # Absent
        BY <1>2, <2>2, <3>1, <3>3 DEF Settled, Noticed, Moving, Content
      <3> QED  BY <3>2, <3>3
    <2> QED  BY <2>1, <2>2
  <1> QED
    BY <1>1, <1>2 DEF Unlinked

LEMMA WatchingFollowed ==
  ASSUME Core, HeldOnce, Followed, Watching
  PROVE  Followed'
  <1>1. /\ UNCHANGED <<disk, moves, call, uploads, scan>>
        /\ spent.doubt \subseteq spent'.doubt /\ spent'.twice = spent.twice
    BY WatchingStill
  <1>2. SUFFICES ASSUME NEW k \in Files  PROVE Settled(k)'
    BY DEF Followed
  <1>3. Settled(k) /\ k \in Locs
    BY KeysAreLocs DEF Followed
  <1>4. ASSUME NEW k0 \in Home, NoticeGone(k0)  PROVE Settled(k)'
    <2>1. disk[k0] = Absent /\ hashing' = hashing /\ \A m \in Home : m # k0 => seen'[m] = seen[m]
      BY <1>4 DEF NoticeGone, Core, TypeOK
    <2>2. Unlinked(k0, rechecks)
      BY <1>4 DEF NoticeGone
    <2> QED  BY <1>1, <1>3, <2>1, <2>2, UnlinkedSettles
  <1>5. ASSUME NEW k0 \in Home, Notice(k0)  PROVE Settled(k)'
    <2>1. /\ hashing \subseteq hashing' /\ \E e \in hashing' : e.key = k0 /\ e.file = disk[k0]
          /\ \A m \in Home : m # k0 => seen'[m] = seen[m]
          /\ UNCHANGED <<ix, held, rechecks, spent>>
      <3> DEFINE e == [kind |-> IF seen[k0] = Absent THEN "add" ELSE "change", key |-> k0, file |-> disk[k0]]
      <3>1. hashing' = hashing \cup {e} /\ seen' = [seen EXCEPT ![k0] = disk[k0]]
            /\ UNCHANGED <<ix, held, rechecks, spent>>
        BY <1>5 DEF Notice
      <3>2. e \in hashing' /\ e.key = k0 /\ e.file = disk[k0]
        BY <3>1
      <3>3. \A m \in Home : m # k0 => seen'[m] = seen[m]
        BY <3>1 DEF Core, TypeOK
      <3> HIDE DEF e
      <3> QED  BY <3>1, <3>2, <3>3
    <2>2. CASE k = k0
      BY <1>1, <2>1, <2>2 DEF Settled, Noticed, Rechecked
    <2>3. CASE k # k0
      <3>1. Aside(k)
        BY <1>1, <2>1, <2>3 DEF Aside, Rechecked
      <3> QED  BY <1>3, <3>1, AsideSettled
    <2> QED  BY <2>2, <2>3
  <1>6. ASSUME NEW k0 \in Home, HoldExpires(k0)  PROVE Settled(k)'
    <2>1. Aside(k)
      BY <1>6 DEF HoldExpires, Aside, Rechecked
    <2> QED  BY <1>3, <2>1, AsideSettled
  <1>7. ASSUME NEW k0 \in Home, Recheck(k0)  PROVE Settled(k)'
    <2>1. /\ UNCHANGED <<seen, hashing, ix, held, spent>> /\ \A r \in rechecks : r.key # k0 => r \in rechecks'
          /\ (\A r \in rechecks' : r.key # k0) => Owner(ix, k0) = None \/ disk[k0] # Absent \/ ~ Rechecked(k0)
      <3> DEFINE due == [key |-> k0, gone |-> FALSE]
      <3>1. UNCHANGED <<seen, hashing, ix, held, spent>>
        BY <1>7 DEF Recheck
      <3>2. rechecks' = (rechecks \ {due}) \cup (IF Owner(ix, k0) # None /\ disk[k0] = Absent
                                               THEN {[due EXCEPT !.gone = TRUE]} ELSE {})
        BY <1>7 DEF Recheck
      <3>3. due.key = k0 /\ [due EXCEPT !.gone = TRUE].key = k0
        OBVIOUS
      <3> HIDE DEF due
      <3> QED  BY <3>1, <3>2, <3>3
    <2>2. CASE k # k0
      <3>1. Rechecked(k) => Rechecked(k)'
        BY <2>1, <2>2 DEF Rechecked
      <3>2. Aside(k)
        BY <1>1, <2>1, <2>2, <3>1 DEF Aside
      <3> QED  BY <1>3, <3>2, AsideSettled
    <2>3. CASE k = k0 /\ (disk[k0] # Absent \/ Rechecked(k0)')
      BY <1>1, <1>3, <2>1, <2>3 DEF Settled, Noticed, Moving, Content
    <2>4. CASE k = k0 /\ disk[k0] = Absent /\ ~ Rechecked(k0)'
      <3>1. Owner(ix, k0) = None \/ ~ Rechecked(k0)
        BY <2>1, <2>4 DEF Rechecked
      <3>2. CASE ~ Rechecked(k0)
        BY <1>1, <1>3, <2>1, <2>4, <3>2 DEF Settled, Noticed, Moving, Content
      <3>3. CASE Owner(ix, k0) = None
        <4>1. k \notin spent.twice => ix.owner[k] = None
          BY <1>3, <2>4, <3>3, Parts, OwnerIs
        <4> QED  BY <1>1, <2>1, <2>4, <4>1 DEF Settled, Content
      <3> QED  BY <3>1, <3>2, <3>3
    <2> QED  BY <2>2, <2>3, <2>4
  <1>10. ASSUME NEW k0 \in Home, Confirm(k0)  PROVE Settled(k)'
    <2>1. PICK checks : checks = rechecks \ {[key |-> k0, gone |-> TRUE]}
      OBVIOUS
    <2>2. Unlinked(k0, checks) /\ UNCHANGED <<seen, hashing>>
      BY <1>10, <2>1 DEF Confirm
    <2>3. \A r \in rechecks : r.key # k0 => r \in checks
      BY <2>1
    <2> QED  BY <1>1, <1>3, <2>2, <2>3, UnlinkedSettles
  <1>8. ASSUME NEW e \in hashing, Deliver(e)  PROVE Settled(k)'
    <2>1. hashing' = hashing \ {e} /\ UNCHANGED <<rechecks, seen>> /\ e.key \in Locs /\ e.file \in File
      BY <1>8, KeysAreLocs DEF Deliver, Core, TypeOK, Event
    <2>2. CASE Echo(e)
      <3>1. UNCHANGED <<ix, held, spent>>
        BY <1>8, <2>2 DEF Deliver
      <3>2. CASE k # e.key
        <4>1. Aside(k)
          BY <1>1, <2>1, <3>1, <3>2 DEF Aside, Rechecked
        <4> QED  BY <1>3, <4>1, AsideSettled
      <3>3. CASE k = e.key
        <4>1. Owner(ix, k) = e.file.c /\ e.file.c # None /\ Sound(ix, spent.twice)
          BY <2>1, <2>2, <3>3, FileParts, NoneAssumption, Parts DEF Echo
        <4>2. ix.owner[k] = e.file.c
          BY <1>3, <4>1, OwnerIs
        <4>3. CASE e.file = disk[k]
          <5>1. disk[k] # Absent
            BY <2>1, <4>3, RecordsAssumption
          <5> QED  BY <1>1, <3>1, <4>2, <4>3, <5>1 DEF Settled, Content
        <4>4. CASE e.file # disk[k]
          BY <1>1, <1>3, <2>1, <3>1, <4>4 DEF Settled, Noticed, Rechecked, Moving, Content
        <4> QED  BY <4>3, <4>4
      <3> QED  BY <3>2, <3>3
    <2>3. CASE ~ Echo(e)
      <3>1. PICK late \in SUBSET Locs : late = IF seen[e.key] = e.file THEN {} ELSE {e.key}
        BY <2>1
      <3>2. Lands(e.key, e.file.c, e.file.ino, late)
        BY <1>8, <2>3, <3>1, DeliverLands
      <3>3. CASE k # e.key
        <4>1. \A f \in hashing : f.key = k => f \in hashing'
          BY <2>1, <3>3
        <4> QED  BY <1>1, <1>3, <2>1, <3>2, <3>3, <4>1, LandsSettles
      <3>4. CASE k = e.key
        <4>1. k \notin spent.twice => ix'.owner[k] = e.file.c
          BY <1>3, <3>2, <3>4 DEF Lands, Owned
        <4>2. late \subseteq spent'.doubt
          <5>1. spent \in History /\ \A h \in held : late \cup Present(h.key) \in SUBSET Locs
            BY KeysAreLocs DEF Core, TypeOK, Held, Present
          <5>2. CASE spent' = Doubt(late)
            BY <5>1, <5>2, DoubtIs
          <5>3. CASE \E h \in held : spent' = Doubt(late \cup Present(h.key))
            BY <5>1, <5>3, DoubtIs
          <5> QED  BY <3>2, <5>2, <5>3 DEF Lands
        <4>3. CASE e.file = disk[k]
          <5>1. disk[k] # Absent
            BY <2>1, <4>3, RecordsAssumption
          <5> QED  BY <1>1, <4>1, <4>3, <5>1 DEF Settled, Content
        <4>4. CASE e.file # disk[k]
          <5>1. CASE seen[k] = e.file
            <6>1. k \in Home
              BY <3>4 DEF Core, TypeOK, Event
            <6> QED  BY <1>1, <2>1, <4>4, <5>1, <6>1 DEF Settled, Noticed, Rechecked
          <5>2. CASE seen[k] # e.file
            BY <3>1, <3>4, <4>2, <5>2 DEF Settled
          <5> QED  BY <5>1, <5>2
        <4> QED  BY <4>3, <4>4
      <3> QED  BY <3>3, <3>4
    <2> QED  BY <2>2, <2>3
  <1>9. ASSUME NEW h \in held, WindowCloses(h)  PROVE Settled(k)'
    <2>1. /\ Freed(ix', ix, spent.twice, Tx, {h.key}) /\ spent' = Doubt(Present(h.key))
          /\ Present(h.key) \in SUBSET Locs /\ spent \in History
      BY <1>9, WindowFrees, Parts
    <2>2. spent'.doubt = spent.doubt \cup Present(h.key)
      BY <2>1, DoubtIs
    <2>3. UNCHANGED <<rechecks, seen, hashing>> /\ held' = held \ {h}
      BY <1>9 DEF WindowCloses
    <2>4. CASE k = h.key
      <3>1. k \notin spent.twice => ix'.owner[k] = None
        BY <1>3, <2>1, <2>4 DEF Freed
      <3>2. k \in spent'.doubt \/ disk[k] = Absent
        BY <2>2, <2>4 DEF Present
      <3> QED  BY <1>1, <3>1, <3>2 DEF Settled, Content
    <2>5. CASE k # h.key
      <3>1. k \notin spent'.twice => ix'.owner[k] = ix.owner[k]
        BY <1>1, <1>3, <2>1, <2>5 DEF Freed
      <3>2. Aside(k)
        BY <1>1, <2>3, <2>5, <3>1 DEF Aside, Rechecked
      <3> QED  BY <1>3, <3>2, AsideSettled
    <2> QED  BY <2>4, <2>5
  <1> QED
    BY <1>4, <1>5, <1>6, <1>7, <1>8, <1>9, <1>10 DEF Watching

LEMMA CallsFollowed ==
  ASSUME Core, Followed, Calls
  PROVE  Followed'
  <1>1. SUFFICES ASSUME NEW k \in Files  PROVE Settled(k)'
    BY DEF Followed
  <1>2. Settled(k) /\ k \in Locs
    BY KeysAreLocs DEF Followed
  <1>3. spent \in History /\ disk \in [Locs -> File \cup {Absent}]
    BY DEF Core, TypeOK
  <1>4. /\ call = None /\ UNCHANGED <<ix, held, rechecks, seen, hashing>>
        /\ disk' = disk \/ \E u \in uploads : disk' = [disk EXCEPT ![u.to] = [c |-> u.c, ino |-> None]]
        /\ \/ spent' = spent
           \/ spent' = [spent EXCEPT !.calls = @ + 1, !.touched = {}]
           \/ spent' = [spent EXCEPT !.touched = {}]
    BY DEF Calls, Transfer, Accept, PutObject, Resume, Upload
  <1>5. spent'.doubt = spent.doubt /\ spent'.twice = spent.twice
    BY <1>3, <1>4 DEF History
  <1>6. disk'[k] = disk[k]
    <2>1. \A u \in uploads : u.to \in Cloud /\ k # u.to
      BY DisjointAssumption DEF Core, TypeOK
    <2>2. ASSUME NEW u \in uploads, disk' = [disk EXCEPT ![u.to] = [c |-> u.c, ino |-> None]]
          PROVE disk'[k] = disk[k]
      BY <1>2, <1>3, <2>1, <2>2
    <2> QED  BY <1>4, <2>2
  <1>7. Aside(k)
    BY <1>4, <1>5, <1>6 DEF Aside, Rechecked, Moving
  <1> QED
    BY <1>2, <1>7, AsideSettled

LEMMA StepFollowed ==
  ASSUME Core, Shape, HeldOnce, Followed, Step
  PROVE  Followed'
  <1>1. SUFFICES ASSUME NEW k \in Files  PROVE Settled(k)'
    BY DEF Followed
  <1>2. Settled(k) /\ k \in Locs
    BY KeysAreLocs DEF Followed
  <1>3. call # None
    BY DEF Step, Rename, Stream, Commit, Record, Verify, VerifySource, RemoveSource, Release, Forget, Acknowledge, At
  <1>4. /\ call \in Call /\ call.c \in Contents /\ call.to \in Locs /\ call.from \in Locs /\ call.c # None
        /\ spent \in History /\ disk \in [Locs -> File \cup {Absent}] /\ ix.owner[k] \in Contents \cup {None}
        /\ Sound(ix, spent.twice) /\ None \notin Call
    BY <1>2, <1>3, CallParts, NoneAssumption, RecordsAssumption, Parts, IndexParts DEF Core, TypeOK
  <1>5. /\ UNCHANGED <<rechecks, seen, hashing>>
    BY DEF Step, Rename, Stream, Commit, Record, Verify, VerifySource, RemoveSource, Release, Forget, Acknowledge
  <1>6. CASE Rename
    <2>1. call.at = "rename" /\ held' = held
      BY <1>6 DEF Rename, At
    <2>2. ~ Moving(k)
      BY <2>1 DEF Moving
    <2>3. CASE disk[call.from] = Absent /\ Goto("stream") /\ UNCHANGED <<disk, ix, spent>>
      <3>1. Aside(k)
        BY <1>5, <2>1, <2>2, <2>3 DEF Aside, Rechecked
      <3> QED  BY <1>2, <3>1, AsideSettled
    <2>4. CASE /\ disk[call.from] # Absent
               /\ disk' = [disk EXCEPT ![call.from] = Absent, ![call.to] = disk[call.from]]
               /\ call' = [call EXCEPT !.at = "release", !.ino = disk[call.from].ino]
               /\ spent' = Doubt(IF Unseen(call.from) THEN {call.from} ELSE {})
               /\ UNCHANGED ix
      <3>1. /\ call'.at = "release" /\ call'.from = call.from /\ call'.to = call.to /\ call'.c = call.c
            /\ call' \in Call /\ call' # None
        <4>1. disk[call.from].ino \in Inodes \cup {None}
          BY <1>4, <2>4, Parts, FileParts
        <4> QED  BY <1>4, <2>4, <4>1 DEF Call
      <3>2. PICK off \in SUBSET Locs : off = IF Unseen(call.from) THEN {call.from} ELSE {}
        BY <1>4
      <3>3. spent'.doubt = spent.doubt \cup off /\ spent'.twice = spent.twice
        <4>1. spent' = Doubt(off)
          BY <2>4, <3>2
        <4> QED  BY <1>4, <4>1, DoubtIs
      <3>4. CASE k = call.to
        BY <3>1, <3>4 DEF Settled, Moving
      <3>5. CASE k # call.to /\ k = call.from
        <4>1. disk'[k] = Absent
          BY <1>4, <2>4, <3>5
        <4>2. CASE ix.owner[k] = None
          BY <2>4, <4>1, <4>2 DEF Settled, Content
        <4>3. CASE ix.owner[k] = call.c
          BY <2>4, <3>1, <3>5, <4>1, <4>3 DEF Settled, Moving
        <4>4. CASE k \in Home /\ seen[k] # Absent
          BY <1>5, <4>1, <4>4 DEF Settled, Noticed, Rechecked
        <4>5. CASE ix.owner[k] \notin {None, call.c} /\ (k \in Home => seen[k] = Absent)
          BY <3>2, <3>3, <3>5, <4>5 DEF Settled, Unseen
        <4> QED  BY <4>2, <4>3, <4>4, <4>5
      <3>6. CASE k # call.to /\ k # call.from
        <4>1. disk'[k] = disk[k]
          BY <1>2, <1>4, <2>4, <3>6
        <4>2. Aside(k)
          BY <1>5, <2>1, <2>2, <2>4, <3>3, <4>1 DEF Aside, Rechecked
        <4> QED  BY <1>2, <4>2, AsideSettled
      <3> QED  BY <3>4, <3>5, <3>6
    <2> QED  BY <1>6, <2>3, <2>4 DEF Rename
  <1>7. CASE Stream \/ Verify \/ VerifySource \/ Forget
    <2>1. call.at \in {"stream", "verify", "source", "forget"} /\ UNCHANGED <<disk, ix, held, spent>>
      BY <1>7 DEF Stream, Verify, VerifySource, Forget, At
    <2>2. Aside(k)
      BY <1>5, <2>1 DEF Aside, Rechecked, Moving
    <2> QED  BY <1>2, <2>2, AsideSettled
  <1>8. CASE Commit
    <2>1. call.at = "commit" /\ UNCHANGED <<ix, held, spent>>
      BY <1>8 DEF Commit, At
    <2>2. CASE k # call.to \/ call.to \in Cloud
      <3>1. disk'[k] = disk[k]
        BY <1>2, <1>4, <1>8, <2>2, DisjointAssumption DEF Commit
      <3>2. Aside(k)
        BY <1>5, <2>1, <3>1 DEF Aside, Rechecked, Moving
      <3> QED  BY <1>2, <3>2, AsideSettled
    <2>3. CASE k = call.to /\ call.to \notin Cloud
      <3>1. PICK ino \in Free : call' = [call EXCEPT !.at = "record", !.ino = ino]
        BY <1>8, <2>3 DEF Commit
      <3>2. call'.at = "record" /\ call'.to = call.to /\ call' \in Call
        BY <1>4, <3>1 DEF Call, Free
      <3> QED  BY <1>4, <2>3, <3>2 DEF Settled, Moving
    <2> QED  BY <2>2, <2>3
  <1>9. CASE Record
    <2>1. call.at = "record" /\ UNCHANGED <<disk, held>>
      BY <1>9 DEF Record, At
    <2>2. PICK back \in SUBSET Locs :
            /\ spent' = Recorded(call.to, back)
            /\ \A m \in Locs \ spent'.twice :
                 ix'.owner[m] = IF m \in {call.to} \cup back THEN call.c ELSE ix.owner[m]
      BY <1>9, RecordOwns
    <2>3. /\ spent.twice \subseteq spent'.twice
          /\ spent'.doubt = spent.doubt \cup {m \in ({call.to} \cup back) \cap Files : Content(m) # call.c}
      BY <1>4, <2>2, RecordedIs
    <2>4. CASE k \in {call.to} \cup back
      <3>1. k \notin spent'.twice => ix'.owner[k] = call.c
        BY <1>2, <2>2, <2>4
      <3>2. k \in spent'.doubt \/ Content(k) = call.c
        BY <2>3, <2>4
      <3> QED  BY <2>1, <3>1, <3>2 DEF Settled, Content
    <2>5. CASE k \notin {call.to} \cup back
      <3>1. k \notin spent'.twice => ix'.owner[k] = ix.owner[k]
        BY <1>2, <2>2, <2>5
      <3>2. ~ Moving(k)
        BY <2>1, <2>5 DEF Moving
      <3>3. Aside(k)
        BY <1>5, <2>1, <2>3, <3>1, <3>2 DEF Aside, Rechecked
      <3> QED  BY <1>2, <3>3, AsideSettled
    <2> QED  BY <2>4, <2>5
  <1>10. CASE RemoveSource
    <2>1. call.at = "remove" /\ ~ Moving(k)
      BY <1>10 DEF RemoveSource, At, Moving
    <2>2. CASE UNCHANGED <<ix, held, spent>> /\ UNCHANGED disk
      <3>1. Aside(k)
        BY <1>5, <2>1, <2>2 DEF Aside, Rechecked
      <3> QED  BY <1>2, <3>1, AsideSettled
    <2>3. CASE /\ UNCHANGED <<ix, held, spent>> /\ disk' = [disk EXCEPT ![call.from] = Absent]
               /\ Goto("release") /\ Owner(ix, call.from) = call.c
      <3>1. CASE k # call.from
        <4>1. disk'[k] = disk[k]
          BY <1>2, <1>4, <2>3, <3>1
        <4>2. Aside(k)
          BY <1>5, <2>1, <2>3, <4>1 DEF Aside, Rechecked
        <4> QED  BY <1>2, <4>2, AsideSettled
      <3>2. CASE k = call.from
        <4>1. disk'[k] = Absent
          BY <1>4, <2>3, <3>2
        <4>2. ix.owner[k] = call.c
          BY <1>2, <1>4, <2>3, <3>2, OwnerIs
        <4>3. call' \in Call /\ call'.at = "release" /\ call'.from = call.from /\ call'.c = call.c
          BY <1>4, <2>3 DEF Goto, Call
        <4> QED  BY <1>4, <2>3, <3>2, <4>1, <4>2, <4>3 DEF Settled, Moving
      <3> QED  BY <3>1, <3>2
    <2>4. CASE /\ disk[call.from] \in File /\ UNCHANGED disk
               /\ Lands(call.from, disk[call.from].c, disk[call.from].ino, {})
      <3>1. PICK k0 \in Locs, f \in File : k0 = call.from /\ f = disk[call.from]
        BY <1>4, <2>4
      <3>2. Lands(k0, f.c, f.ino, {}) /\ {} \in SUBSET Locs /\ f # Absent
        BY <2>4, <3>1, RecordsAssumption
      <3>3. CASE k # k0
        BY <1>2, <1>5, <2>1, <2>4, <3>2, <3>3, LandsSettles
      <3>4. CASE k = k0
        <4>1. spent'.twice = spent.twice
          BY <3>2, LandsTypes
        <4>2. k \notin spent.twice => ix'.owner[k] = f.c
          BY <1>2, <3>2, <3>4 DEF Lands, Owned
        <4> QED  BY <2>4, <3>1, <3>2, <3>4, <4>1, <4>2 DEF Settled, Content
      <3> QED  BY <3>3, <3>4
    <2>5. CASE disk[call.from] # Absent /\ Owner(ix, call.from) = call.c /\ Goto("release")
               /\ disk' = [disk EXCEPT ![call.from] = Absent] /\ UNCHANGED <<ix, held, spent>>
      BY <2>3, <2>5
    <2> QED
      <3>1. \/ UNCHANGED <<ix, held, spent>> /\ UNCHANGED disk
            \/ disk' = [disk EXCEPT ![call.from] = Absent] /\ UNCHANGED <<ix, held, spent>>
               /\ Goto("release") /\ Owner(ix, call.from) = call.c
            \/ ~ UNCHANGED <<ix, held, spent>> /\ UNCHANGED disk
        BY <1>10 DEF RemoveSource
      <3> QED  BY <1>10, <2>2, <2>3, <2>4, <3>1, RemoveSourceLands
  <1>11. CASE Release
    <2>1. call.at = "release" /\ UNCHANGED <<disk, held>>
      BY <1>11 DEF Release, At
    <2>2. spent.doubt \subseteq spent'.doubt /\ spent.twice \subseteq spent'.twice
      BY <1>11, ReleaseOwns
    <2>3. CASE k # call.from /\ k # call.to
      <3>1. k \notin spent'.twice => ix'.owner[k] = ix.owner[k]
        BY <1>2, <1>11, <2>3, ReleaseOwns
      <3>2. ~ Moving(k)
        BY <2>1, <2>3 DEF Moving
      <3>3. Aside(k)
        BY <1>5, <2>1, <2>2, <3>1, <3>2 DEF Aside, Rechecked
      <3> QED  BY <1>2, <3>3, AsideSettled
    <2>4. CASE /\ Listed(ix.locs[call.c]) = {} /\ spent' = Doubt({call.to} \cap Files)
               /\ \A m \in Locs \ spent'.twice : m # call.to => ix'.owner[m] = ix.owner[m]
      <3>1. PICK keys \in SUBSET Locs : keys = {call.to} \cap Files
        BY <1>4
      <3>2. spent'.doubt = spent.doubt \cup keys /\ spent'.twice = spent.twice
        BY <1>4, <2>4, <3>1, DoubtIs
      <3>3. CASE k = call.to
        BY <3>1, <3>2, <3>3 DEF Settled
      <3>4. CASE k = call.from /\ k # call.to
        <4>1. k \notin spent.twice => ix.owner[k] # call.c
          BY <1>2, <1>4, <2>4 DEF Sound, Agrees, Listed
        <4>2. k \notin spent.twice => ~ Moving(k)
          BY <2>1, <3>4, <4>1 DEF Moving
        <4>3. CASE k \in spent.twice
          BY <3>2, <4>3 DEF Settled
        <4>4. CASE k \notin spent.twice
          <5>1. Aside(k)
            BY <1>2, <1>5, <2>1, <2>2, <2>4, <3>4, <4>2, <4>4 DEF Aside, Rechecked
          <5> QED  BY <1>2, <5>1, AsideSettled
        <4> QED  BY <4>3, <4>4
      <3> QED  BY <2>3, <3>3, <3>4
    <2>5. CASE /\ {m \in {call.to} \cap Files : Content(m) # call.c} \subseteq spent'.doubt
               /\ {m \in {call.from} : Content(m) = call.c} \subseteq spent'.doubt
               /\ \A m \in Locs \ spent'.twice :
                    IF m = call.from
                    THEN m # call.to => ix'.owner[m] = IF ix.owner[m] = call.c THEN None ELSE ix.owner[m]
                    ELSE ix'.owner[m] = IF m = call.to THEN call.c ELSE ix.owner[m]
      <3>1. CASE k \in spent'.doubt \/ k \in spent'.twice
        BY <3>1 DEF Settled
      <3>2. CASE k \notin spent'.doubt /\ k \notin spent'.twice
        <4>1. CASE k = call.to
          <5>1. Content(k) = call.c
            BY <2>5, <3>2, <4>1
          <5>2. k # call.from
            BY <2>5, <3>2, <5>1
          <5>3. ix'.owner[k] = call.c
            BY <1>2, <2>5, <3>2, <4>1, <5>2
          <5> QED  BY <2>1, <5>1, <5>3 DEF Settled, Content
        <4>2. CASE k = call.from /\ k # call.to
          <5>1. Content(k) # call.c
            BY <2>5, <3>2, <4>2
          <5>2. ix'.owner[k] = IF ix.owner[k] = call.c THEN None ELSE ix.owner[k]
            BY <1>2, <2>5, <3>2, <4>2
          <5>3. CASE k \in spent.doubt \cup spent.twice
            BY <2>2, <3>2, <5>3
          <5>4. CASE ix.owner[k] = Content(k)
            BY <2>1, <5>1, <5>2, <5>4 DEF Settled, Content
          <5>5. CASE Moving(k)
            <6>1. ix.owner[k] = call.c /\ disk[k] = Absent
              BY <2>1, <4>2, <5>5 DEF Moving
            <6> QED  BY <2>1, <5>2, <6>1 DEF Settled, Content
          <5>6. CASE k \in Home /\ Noticed(k)
            BY <1>5, <2>1, <5>6 DEF Settled, Noticed, Rechecked
          <5> QED  BY <1>2, <5>3, <5>4, <5>5, <5>6 DEF Settled
        <4> QED  BY <2>3, <4>1, <4>2
      <3> QED  BY <3>1, <3>2
    <2> QED  BY <1>11, <2>4, <2>5, ReleaseOwns
  <1>12. CASE Acknowledge
    <2>1. call.at = "write" /\ UNCHANGED <<disk, held>> /\ k # call.to
      BY <1>3, <1>12, DisjointAssumption DEF Acknowledge, At, Shape
    <2>2. /\ spent.doubt \subseteq spent'.doubt /\ spent.twice \subseteq spent'.twice
          /\ k \notin spent'.twice => ix'.owner[k] = ix.owner[k]
      BY <1>2, <1>12, <2>1, AcknowledgeOwns
    <2>3. Aside(k)
      BY <1>5, <2>1, <2>2 DEF Aside, Rechecked, Moving
    <2> QED  BY <1>2, <2>3, AsideSettled
  <1> QED
    BY <1>6, <1>7, <1>8, <1>9, <1>10, <1>11, <1>12 DEF Step

LEMMA ScansFollowed ==
  ASSUME Core, Followed, CalmScan, Scans
  PROVE  Followed'
  <1>1. /\ UNCHANGED <<disk, moves, call, uploads, held, rechecks, seen, hashing>>
        /\ spent'.twice = spent.twice
    BY ScansStill
  <1>2. SUFFICES ASSUME NEW k \in Files  PROVE Settled(k)'
    BY DEF Followed
  <1>3. Settled(k) /\ k \in Locs
    BY KeysAreLocs DEF Followed
  <1>4. spent \in History
    BY DEF Core, TypeOK
  <1>5. CASE StartScan \/ \E m \in Home : ScanRead(m)
    <2>1. ix' = ix /\ spent'.doubt = spent.doubt
      BY <1>4, <1>5 DEF StartScan, ScanRead, History
    <2>2. Aside(k)
      BY <1>1, <2>1 DEF Aside, Rechecked
    <2> QED  BY <1>3, <2>2, AsideSettled
  <1>6. CASE ScanIngest
    <2>1. /\ scan.row.key \in Locs /\ scan.row.file \in File
          /\ Owned(ix', ix, spent.twice, scan.row.key, scan.row.file.c, {})
      BY <1>6, ScanIngestOwns
    <2>2. PICK late \in SUBSET Locs : late = IF disk[scan.row.key] = scan.row.file THEN {} ELSE {scan.row.key}
      BY <2>1
    <2>3. spent' = Doubt(late)
      BY <1>6, <2>2 DEF ScanIngest
    <2>4. spent'.doubt = spent.doubt \cup late
      BY <1>4, <2>3, DoubtIs
    <2>5. CASE k = scan.row.key
      <3>1. k \notin spent.twice => ix'.owner[k] = scan.row.file.c
        BY <1>3, <2>1, <2>5 DEF Owned
      <3>2. CASE disk[k] = scan.row.file
        <4>1. disk[k] # Absent
          BY <2>1, <3>2, RecordsAssumption
        <4> QED  BY <1>1, <3>1, <3>2, <4>1 DEF Settled, Content
      <3>3. CASE disk[k] # scan.row.file
        BY <2>2, <2>4, <2>5, <3>3 DEF Settled
      <3> QED  BY <3>2, <3>3
    <2>6. CASE k # scan.row.key
      <3>1. k \notin spent'.twice => ix'.owner[k] = ix.owner[k]
        BY <1>1, <1>3, <2>1, <2>6 DEF Owned
      <3>2. Aside(k)
        BY <1>1, <2>4, <3>1 DEF Aside, Rechecked
      <3> QED  BY <1>3, <3>2, AsideSettled
    <2> QED  BY <2>5, <2>6
  <1>7. CASE EndScan
    <2>1. \A m \in Locs \ spent.twice : ix'.owner[m] = IF m \in Home \ scan.present THEN None ELSE ix.owner[m]
      BY <1>7, EndScanPrunes
    <2>2. scan # None /\ scan.row = None /\ scan.todo = {}
      BY <1>7 DEF EndScan, Scanning
    <2>3. CASE scan.calm
      <3>1. spent'.doubt = spent.doubt \ Home
        BY <1>4, <1>7, <2>3 DEF EndScan, History
      <3>2. CASE k \in Home /\ k \notin spent.twice
        <4>1. /\ k \in scan.present <=> disk[k] # Absent
              /\ k \in scan.present => ix.owner[k] = Content(k)
          BY <2>2, <2>3, <3>2 DEF CalmScan
        <4>2. ix'.owner[k] = Content(k)
          BY <1>3, <2>1, <3>2, <4>1 DEF Content
        <4> QED  BY <1>1, <4>2 DEF Settled, Content
      <3>3. CASE k \in spent.twice
        BY <1>1, <3>3 DEF Settled
      <3>4. CASE k \notin Home /\ k \notin spent.twice
        <4>1. ix'.owner[k] = ix.owner[k]
          BY <1>3, <2>1, <3>4
        <4>2. Aside(k)
          BY <1>1, <3>1, <3>4, <4>1 DEF Aside, Rechecked
        <4> QED  BY <1>3, <4>2, AsideSettled
      <3> QED  BY <3>2, <3>3, <3>4
    <2>4. CASE ~ scan.calm
      <3>1. PICK late \in SUBSET Locs : late = {m \in Home \ scan.present : disk[m] # Absent}
        BY KeysAreLocs
      <3>2. spent' = Doubt(late)
        BY <1>7, <2>4, <3>1 DEF EndScan
      <3>3. spent'.doubt = spent.doubt \cup late
        BY <1>4, <3>2, DoubtIs
      <3>4. CASE k \in Home \ scan.present
        <4>1. k \notin spent.twice => ix'.owner[k] = None
          BY <1>3, <2>1, <3>4
        <4>2. k \in spent'.doubt \/ disk[k] = Absent
          BY <3>1, <3>3, <3>4
        <4> QED  BY <1>1, <4>1, <4>2 DEF Settled, Content
      <3>5. CASE k \notin Home \ scan.present
        <4>1. k \notin spent.twice => ix'.owner[k] = ix.owner[k]
          BY <1>3, <2>1, <3>5
        <4>2. Aside(k)
          BY <1>1, <3>3, <4>1 DEF Aside, Rechecked
        <4> QED  BY <1>3, <4>2, AsideSettled
      <3> QED  BY <3>4, <3>5
    <2> QED  BY <2>3, <2>4
  <1> QED
    BY <1>5, <1>6, <1>7 DEF Scans

LEMMA OutsideFollowed ==
  ASSUME Core, Followed, Outside
  PROVE  Followed'
  <1>1. SUFFICES ASSUME NEW k \in Files  PROVE Settled(k)'
    BY DEF Followed
  <1>2. Settled(k) /\ k \in Locs /\ k \in Home \cup Nas
    BY KeysAreLocs DEF Followed
  <1>3. CASE disk'[k] = disk[k]
    <2>1. Aside(k)
      BY <1>3 DEF Aside, Rechecked, Outside
    <2> QED  BY <1>2, <2>1, AsideSettled
  <1>4. CASE disk'[k] # disk[k]
    <2>1. k \in Home /\ (disk'[k] # seen[k] \/ k \in spent'.doubt) /\ seen' = seen
      BY <1>2, <1>4 DEF Outside
    <2> QED  BY <2>1 DEF Settled, Noticed, Rechecked
  <1> QED
    BY <1>3, <1>4

LEMMA CrashFollowed ==
  ASSUME Core, Crash
  PROVE  Followed'
  <1>1. SUFFICES ASSUME NEW k \in Files  PROVE Settled(k)'
    BY DEF Followed
  <1>2. k \in Locs /\ spent \in History /\ Sound(ix, spent.twice)
    BY KeysAreLocs DEF Core, TypeOK
  <1>3. PICK off \in SUBSET Locs : off = {m \in Files : Owner(ix, m) # Content(m)}
    BY KeysAreLocs
  <1>4. spent' = [spent EXCEPT !.events = @ + 1, !.doubt = @ \cup off] /\ UNCHANGED <<disk, ix>>
    BY <1>3 DEF Crash
  <1>5. spent'.doubt = spent.doubt \cup off /\ spent'.twice = spent.twice
    BY <1>2, <1>4 DEF History
  <1>6. CASE k \in off \/ k \in spent.twice
    BY <1>5, <1>6 DEF Settled
  <1>7. CASE k \notin off /\ k \notin spent.twice
    <2>1. ix.owner[k] = Content(k)
      BY <1>2, <1>3, <1>7, OwnerIs
    <2> QED  BY <1>4, <2>1 DEF Settled, Content
  <1> QED
    BY <1>6, <1>7

LEMMA FollowedKept ==
  ASSUME Core, Shape, Settling, [Next]_vars
  PROVE  Followed'
  <1>1. HeldOnce /\ Followed /\ CalmScan
    BY DEF Settling
  <1>2. CASE UNCHANGED vars
    <2>1. UNCHANGED <<disk, ix, call, held, rechecks, seen, hashing, spent>>
      BY <1>2 DEF vars, memory
    <2>2. ASSUME NEW k \in Files  PROVE Settled(k)'
      <3>1. Settled(k) /\ Aside(k)
        BY <1>1, <2>1 DEF Followed, Aside, Rechecked
      <3> QED  BY <3>1, AsideSettled
    <2> QED  BY <2>2 DEF Followed
  <1> QED
    BY <1>1, <1>2, CallsFollowed, StepFollowed, WatchingFollowed, ScansFollowed, EnvironmentOutside,
       OutsideFollowed, CrashFollowed DEF Next

LEMMA HeldOnceKept ==
  ASSUME Core, HeldOnce, [Next]_vars
  PROVE  HeldOnce'
  <1>1. CASE held' \subseteq held
    BY <1>1 DEF HeldOnce
  <1>2. CASE \E k, ino : held' = (held \ HoldFor(ino)) \cup {[key |-> k, ino |-> ino]}
    BY <1>2 DEF HeldOnce, HoldFor
  <1>3. ASSUME NEW k \in Home, Leaves(k)  PROVE HeldOnce'
    BY <1>1, <1>2, <1>3 DEF Leaves
  <1>4. ASSUME NEW k, NEW c, NEW ino, NEW late, Lands(k, c, ino, late)  PROVE held' \subseteq held
    BY <1>4 DEF Lands
  <1>5. CASE Watching
    <2>1. ASSUME NEW k \in Home, NoticeGone(k) \/ Confirm(k) \/ Recheck(k) \/ Notice(k) \/ HoldExpires(k)
          PROVE  HeldOnce'
      <3>1. UNCHANGED held \/ Left(k)
        BY <2>1 DEF NoticeGone, Confirm, Unlinked, Recheck, Notice, HoldExpires
      <3> QED  BY <1>1, <1>3, <3>1, LeftLeaves
    <2>2. ASSUME NEW e \in hashing, Deliver(e)  PROVE held' \subseteq held
      <3>1. CASE Echo(e)
        BY <2>2, <3>1 DEF Deliver
      <3>2. CASE ~ Echo(e)
        <4>1. PICK late : late = IF seen[e.key] = e.file THEN {} ELSE {e.key}
          OBVIOUS
        <4>2. Lands(e.key, e.file.c, e.file.ino, late)
          BY <2>2, <3>2, <4>1, DeliverLands
        <4> QED  BY <1>4, <4>2
      <3> QED  BY <3>1, <3>2
    <2>3. ASSUME NEW h \in held, WindowCloses(h)  PROVE held' \subseteq held
      BY <2>3 DEF WindowCloses
    <2> QED  BY <1>1, <1>5, <2>1, <2>2, <2>3 DEF Watching
  <1>6. CASE RemoveSource
    <2>1. CASE UNCHANGED held
      BY <1>1, <2>1
    <2>2. CASE Lands(call.from, disk[call.from].c, disk[call.from].ino, {})
      <3>1. PICK k, c, ino : k = call.from /\ c = disk[call.from].c /\ ino = disk[call.from].ino
        OBVIOUS
      <3>2. Lands(k, c, ino, {})
        BY <2>2, <3>1
      <3> QED  BY <1>1, <1>4, <3>2
    <2> QED  BY <1>6, <2>1, <2>2, RemoveSourceLands
  <1>7. CASE Calls
    BY <1>1, <1>7 DEF Calls, Transfer, PutObject, Resume, Upload
  <1>8. CASE Step /\ ~ RemoveSource
    BY <1>1, <1>8 DEF Step, Rename, Stream, Commit, Record, Verify, VerifySource, Release, Forget, Acknowledge
  <1>9. CASE Scans
    BY <1>1, <1>9, ScansStill
  <1>10. CASE Environment
    BY <1>1, <1>10, EnvironmentOutside DEF Outside, Crash
  <1>11. CASE UNCHANGED vars
    BY <1>1, <1>11 DEF vars, memory
  <1> QED
    BY <1>5, <1>6, <1>7, <1>8, <1>9, <1>10, <1>11 DEF Next

LEMMA CalmScanKept ==
  ASSUME Core, CalmScan, [Next]_vars
  PROVE  CalmScan'
  <1>1. scan \in Scan \cup {None} /\ spent \in History
    BY DEF Core, TypeOK
  <1>2. CASE /\ UNCHANGED <<disk, call, held, rechecks, seen, hashing, scan>> /\ ix'.owner = ix.owner
             /\ spent.twice \subseteq spent'.twice
    BY <1>2 DEF CalmScan, Content
  <1>3. ASSUME scan' # None => scan # None /\ ~ scan'.calm /\ scan'.present = scan.present /\ scan'.todo = scan.todo
        PROVE CalmScan'
    BY <1>3 DEF CalmScan
  <1>4. ASSUME Disturb  PROVE CalmScan'
    <2>1. CASE scan = None
      BY <1>3, <1>4, <2>1 DEF Disturb, Scanning
    <2>2. CASE scan # None
      <3>1. scan' = [scan EXCEPT !.calm = FALSE] /\ scan \in Scan
        BY <1>1, <1>4, <2>2 DEF Disturb, Scanning
      <3> QED  BY <1>3, <2>2, <3>1 DEF Scan
    <2> QED  BY <2>1, <2>2
  <1>5. ASSUME UNCHANGED scan, scan = None \/ ~ scan.calm  PROVE CalmScan'
    BY <1>3, <1>5
  <1>6. CASE Calls
    BY <1>4, <1>6 DEF Calls, Transfer, Accept, PutObject, Resume, Upload
  <1>7. CASE Step
    <2>1. call # None /\ UNCHANGED scan
      BY <1>7 DEF Step, Rename, Stream, Commit, Record, Verify, VerifySource, RemoveSource, Release, Forget, Acknowledge, At
    <2> QED  BY <1>5, <2>1 DEF CalmScan
  <1>8. CASE Watching
    <2>1. UNCHANGED <<disk, call, scan>> /\ spent'.twice = spent.twice
      BY <1>8, WatchingStill
    <2>2. CASE scan = None \/ ~ scan.calm
      BY <1>5, <2>1, <2>2
    <2>3. CASE scan # None /\ scan.calm
      <3>1. held = {} /\ rechecks = {} /\ hashing = {} /\ \A k \in Home : seen[k] = disk[k]
        BY <2>3 DEF CalmScan
      <3>2. \E k \in Home : HoldExpires(k)
        BY <1>8, <3>1 DEF Watching, NoticeGone, Notice, Recheck, Confirm
      <3>3. UNCHANGED <<held, rechecks, seen, hashing, ix>>
        BY <3>2 DEF HoldExpires
      <3> QED  BY <1>2, <2>1, <3>3
    <2> QED  BY <2>2, <2>3
  <1>9. CASE Scans
    <2>1. /\ UNCHANGED <<disk, call, held, rechecks, seen, hashing>> /\ spent'.twice = spent.twice
      BY <1>9, ScansStill
    <2>2. CASE StartScan
      <3>1. /\ scan'.todo = Home /\ scan'.row = None /\ scan'.present = {} /\ scan'.calm = Resting
        BY <2>2 DEF StartScan
      <3> QED  BY <2>1, <3>1 DEF CalmScan, Resting
    <2>3. ASSUME NEW k0 \in Home, ScanRead(k0)  PROVE CalmScan'
      <3>1. scan \in Scan /\ scan # None /\ scan.row = None /\ k0 \in scan.todo /\ UNCHANGED ix
        BY <1>1, <2>3 DEF ScanRead, Scanning
      <3>2. k0 \notin scan.present
        BY <3>1 DEF CalmScan
      <3>3. /\ scan'.todo = scan.todo \ {k0} /\ scan'.calm = scan.calm
            /\ scan'.present = IF disk[k0] = Absent THEN scan.present ELSE scan.present \cup {k0}
            /\ scan'.row = IF disk[k0] = Absent THEN None ELSE [key |-> k0, file |-> disk[k0]]
        BY <2>3, <3>1 DEF ScanRead, Scan
      <3>4. scan'.present \cap scan'.todo = {}
        BY <3>1, <3>3 DEF CalmScan
      <3>5. disk[k0] # Absent => scan'.row # None /\ scan'.row.key = k0 /\ scan'.row.file = disk[k0]
        <4>1. disk[k0] # Absent => disk[k0] \in File
          BY KeysAreLocs, Parts
        <4>2. disk[k0] # Absent => [key |-> k0, file |-> disk[k0]] \in [key: Home, file: File]
          BY <4>1
        <4> QED  BY <3>3, <4>2, RecordsAssumption
      <3>6. CASE scan.calm
        <4>1. /\ call = None /\ held = {} /\ rechecks = {} /\ hashing = {}
              /\ \A k \in Home : seen[k] = disk[k]
              /\ \A k \in Home \ (scan.todo \cup spent.twice) :
                   /\ k \in scan.present <=> disk[k] # Absent
                   /\ k \in scan.present => ix.owner[k] = Content(k)
          BY <3>1, <3>6 DEF CalmScan
        <4>2. ASSUME NEW k \in Home \ (scan'.todo \cup spent'.twice)
              PROVE /\ k \in scan'.present <=> disk[k] # Absent
                    /\ k \in scan'.present => ix.owner[k] = Content(k) \/ (scan'.row # None /\ scan'.row.key = k)
          BY <2>1, <3>2, <3>3, <3>5, <4>1, <4>2
        <4>3. scan'.row # None => scan'.row.file = disk[scan'.row.key]
          BY <3>3, <3>5
        <4> QED  BY <2>1, <3>1, <3>4, <4>1, <4>2, <4>3 DEF CalmScan, Content
      <3>7. CASE ~ scan.calm
        BY <3>3, <3>4, <3>7 DEF CalmScan
      <3> QED  BY <3>6, <3>7
    <2>4. CASE ScanIngest
      <3>1. /\ scan \in Scan /\ scan # None /\ scan.row # None /\ scan.row.key \in Locs /\ scan.row.file \in File
            /\ Owned(ix', ix, spent.twice, scan.row.key, scan.row.file.c, {})
        BY <2>4, ScanIngestOwns DEF ScanIngest, Scanning
      <3>2. scan'.row = None /\ scan'.todo = scan.todo /\ scan'.present = scan.present /\ scan'.calm = scan.calm
        BY <2>4, <3>1 DEF ScanIngest, Scan
      <3>3. scan'.present \cap scan'.todo = {}
        BY <3>1, <3>2 DEF CalmScan
      <3>4. CASE scan.calm
        <4>1. /\ call = None /\ held = {} /\ rechecks = {} /\ hashing = {}
              /\ \A k \in Home : seen[k] = disk[k]
              /\ scan.row.file = disk[scan.row.key]
              /\ \A k \in Home \ (scan.todo \cup spent.twice) :
                   /\ k \in scan.present <=> disk[k] # Absent
                   /\ k \in scan.present => ix.owner[k] = Content(k) \/ scan.row.key = k
          BY <3>1, <3>4 DEF CalmScan
        <4>2. scan.row.file # Absent
          BY <3>1, RecordsAssumption
        <4>3. ASSUME NEW k \in Home \ (scan'.todo \cup spent'.twice), k \in scan'.present
              PROVE ix'.owner[k] = Content(k)
          <5>1. ix'.owner[k] = IF k = scan.row.key THEN scan.row.file.c ELSE ix.owner[k]
            BY <2>1, <3>1, <4>3, KeysAreLocs DEF Owned
          <5>2. ix.owner[k] = Content(k) \/ scan.row.key = k
            BY <2>1, <3>2, <4>1, <4>3
          <5> QED  BY <4>1, <4>2, <5>1, <5>2 DEF Content
        <4> QED  BY <2>1, <3>2, <3>3, <4>1, <4>3 DEF CalmScan, Content
      <3>5. CASE ~ scan.calm
        BY <3>2, <3>3, <3>5 DEF CalmScan
      <3> QED  BY <3>4, <3>5
    <2>5. CASE EndScan
      BY <1>3, <2>5 DEF EndScan
    <2> QED  BY <1>9, <2>2, <2>3, <2>4, <2>5 DEF Scans
  <1>10. CASE Outside
    <2>1. CASE scan' = None
      BY <1>3, <2>1
    <2>2. CASE scan' # None /\ scan'.calm
      <3>1. UNCHANGED <<disk, call, held, rechecks, seen, hashing, scan>> /\ ix'.owner = ix.owner
            /\ spent.twice \subseteq spent'.twice
        BY <1>10, <2>2 DEF Outside
      <3> QED  BY <1>2, <3>1
    <2>3. CASE scan' # None /\ ~ scan'.calm
      BY <1>3, <1>10, <2>3 DEF Outside
    <2> QED
      BY <2>1, <2>2, <2>3
  <1>11. CASE Crash
    BY <1>3, <1>11 DEF Crash
  <1>12. CASE UNCHANGED vars
    BY <1>2, <1>12 DEF vars, memory
  <1> QED
    BY <1>6, <1>7, <1>8, <1>9, <1>10, <1>11, <1>12, EnvironmentOutside DEF Next

THEOREM SettlingCorrect == Spec => [](Core /\ Settling)
  <1>1. Init => Settling
    BY InitSettling
  <1>2. Core /\ Shape /\ Settling /\ [Next]_vars => Settling'
    BY FollowedKept, HeldOnceKept, CalmScanKept DEF Settling
  <1> QED
    BY <1>1, <1>2, CoreCorrect, PTL DEF Spec

\* Once nothing is under way the index says of every file what is on the disk
\* (handleFileEvent, processUnlink, recheckUnlink, the rename window, scan and
\* the transfers of index.js), except where a known gap left a key in doubt.
THEOREM QuietAgreesCorrect == Spec => []QuietAgrees
  <1>1. ASSUME Core, Settling  PROVE QuietAgrees
    <2>1. SUFFICES ASSUME Resting, NEW k \in Files \ (spent.doubt \cup spent.twice)
                   PROVE  ix.owner[k] = Content(k)
      BY DEF QuietAgrees
    <2>2. ~ Moving(k) /\ (k \in Home => ~ Noticed(k))
      BY <2>1 DEF Resting, Moving, Noticed, Rechecked
    <2> QED  BY <1>1, <2>1, <2>2 DEF Settling, Followed, Settled
  <1> QED
    BY <1>1, SettlingCorrect, PTL

=============================================================================
