-------------------------- MODULE ServerLoopProofs --------------------------
(***************************************************************************)
(* For any number of slots, threads, connections and requests, and any     *)
(* size of the mailbox: answers go home, a connection has one thing in     *)
(* flight, it reads its answers in order and is not closed while it is     *)
(* owed one, and no work is left behind at exit.                           *)
(*                                                                         *)
(* The argument: a piece of work names a generation of its slot, and what  *)
(* names the present one belongs to the present connection and is on the   *)
(* thread that owns it.  A thread runs its jobs in order, so once it has   *)
(* answered a connection nothing of an earlier owner of the slot can come  *)
(* between that connection's stream and its steps.                         *)
(***************************************************************************)
EXTENDS ServerLoop, FiniteSetTheorems, SequenceTheorems, WellFoundedInduction, TLAPS

JobSet ==
    [slot : Slots, gen : Nat, kind : {JOB_REQUEST, JOB_STREAM_STEP},
     thread : Threads, cid : Nat, number : Nat]

ResultSet ==
    [slot : Slots, gen : Nat, kind : {RES_STREAM_HEAD, RES_BYTES, RES_DONE},
     close : BOOLEAN, size : 0 .. 2, cid : Nat, number : Nat, left : Nat]

Types ==
    /\ TypeOK
    /\ pc \in {"requests", "streams"} => at \in Nat
    /\ jobs \in Seq(JobSet) /\ results \in Seq(ResultSet) /\ stop \in BOOLEAN
    /\ busy \in [Threads -> JobSet \cup {NoJob}]
    /\ \A t \in Threads : busy[t] # NoJob => busy[t].thread = t
    /\ looked \in [Threads -> BOOLEAN] /\ exited \in [Threads -> BOOLEAN]
    /\ phase \in [Threads -> [Slots -> [cid : Nat, number : Nat, left : Nat]]]
    /\ accepted \in Nat /\ received \in Nat
    /\ cid \in [Slots -> Nat] /\ number \in [Slots -> Nat]
    /\ last \in [Slots -> [cid : Nat, number : Nat, left : Nat, close : BOOLEAN,
                           kind : {RES_STREAM_HEAD, RES_BYTES, RES_DONE}]]

\* What is outside the loop: jobs waiting and running, and results.
Work == {jobs[i] : i \in DOMAIN jobs} \cup ({busy[t] : t \in Threads} \ {NoJob})
Said == {results[i] : i \in DOMAIN results}

\* Connections have names of their own; a free slot remembers nothing.
Named ==
    /\ \A s \in Slots : live[s] => cid[s] \in 1 .. accepted
    /\ \A s, r \in Slots : live[s] /\ live[r] /\ cid[s] = cid[r] => s = r
    /\ \A s \in Slots : ~live[s] => last[s] = Nothing /\ number[s] = 0
    /\ \A s \in Slots : last[s] # Nothing => last[s].cid = cid[s]

\* A slot's generation names its connection.
Known(w) ==
    /\ w.cid <= accepted
    /\ w.gen <= gen[w.slot]
    /\ w.gen = gen[w.slot] => live[w.slot] /\ w.cid = cid[w.slot]
    /\ \A s \in Slots : live[s] /\ w.cid = cid[s] => w.slot = s /\ w.gen = gen[s]

AllKnown ==
    /\ \A w \in Work : Known(w) /\ (w.gen = gen[w.slot] => w.thread = owner[w.slot])
    /\ \A r \in Said : Known(r)

\* A thread gets to the jobs of a slot in the order of its connections, ...
InTurn ==
    /\ \A i, j \in DOMAIN jobs :
         i < j /\ jobs[i].thread = jobs[j].thread /\ jobs[i].slot = jobs[j].slot
           => jobs[i].gen <= jobs[j].gen
    /\ \A t \in Threads, j \in DOMAIN jobs :
         jobs[j].thread = t /\ busy[t].slot = jobs[j].slot => busy[t].gen <= jobs[j].gen

\* ... so one that has answered a connection has no work left of its elders.
Caught(s) ==
    /\ owner[s] \in Threads
    /\ \A w \in Work : w.slot = s /\ w.thread = owner[s] => w.gen = gen[s]

NoneOfElders ==
    /\ \A s \in Slots : streaming[s] => Caught(s)
    /\ \A r \in Said : r.gen = gen[r.slot] => Caught(r.slot)

\* Work of s on thread t for which the stream that is held must be w's own.
HoldsIn(ph, t, w) == ph[t][w.slot].cid = w.cid /\ ph[t][w.slot].number = w.number
Holds(t, w) == HoldsIn(phase, t, w)

StepsFind ==
    /\ StepFindsItsStream
    /\ \A j \in DOMAIN jobs :
         jobs[j].kind = JOB_STREAM_STEP /\ jobs[j].cid \notin upset =>
           /\ Holds(jobs[j].thread, jobs[j])
           /\ busy[jobs[j].thread].slot # jobs[j].slot
           /\ \A i \in 1 .. j - 1 :
                jobs[i].thread = jobs[j].thread => jobs[i].slot # jobs[j].slot

\* Connections the loop has kept its promise to.
Calm == {s \in Slots : live[s] /\ cid[s] \notin upset}

OneEach ==
    \A s \in Calm :
      /\ Outstanding(cid[s]) = IF inflight[s] THEN 1 ELSE 0
      /\ streaming[s] <=> last[s].kind # RES_DONE
      /\ number[s] = last[s].number + IF inflight[s] /\ ~streaming[s] THEN 1 ELSE 0

Stream(s, n) == [cid |-> cid[s], number |-> number[s], left |-> n]

\* A job of s is its request, or a step of its stream.
JobSuits(w, s) ==
    w.number = number[s] /\ (w.kind = JOB_STREAM_STEP <=> streaming[s])

\* A result of s is what follows last[s], and its thread holds the rest.
ResultSuits(r, s) ==
    /\ r.number = number[s]
    /\ r.kind = RES_STREAM_HEAD => ~streaming[s]
    /\ r.kind = RES_BYTES => streaming[s] /\ last[s].left = r.left + 1
    /\ r.kind = RES_DONE /\ streaming[s] => last[s].left = 0
    /\ r.kind # RES_DONE => phase[owner[s]][s] = Stream(s, r.left)

Suited ==
    \A s \in Calm :
      /\ \A w \in Work : w.cid = cid[s] => JobSuits(w, s)
      /\ \A r \in Said : r.cid = cid[s] => ResultSuits(r, s)
      /\ streaming[s] /\ (\A r \in Said : r.cid # cid[s]) =>
           phase[owner[s]][s] = Stream(s, last[s].left)

\* What closes a connection is the last it is sent.
Closed ==
    /\ \A s \in Slots : last[s].close => closing[s]
    /\ \A s \in Calm : closing[s] => ~inflight[s] /\ ~streaming[s]
    /\ \A r \in Said : r.close => r.kind = RES_DONE

\* What waits for a thread that found nothing to do came in afterwards.
OnlyBelated(t) ==
    busy[t] = NoJob /\ \A j \in DOMAIN jobs : jobs[j].thread = t => jobs[j] \in belated

\* The threads go when the loop has stopped.
Leaving ==
    /\ stop <=> pc \in {"join", "done"}
    /\ \A t \in Threads : exited[t] => stop
    /\ \A t \in Threads : looked[t] \/ exited[t] => OnlyBelated(t)
    /\ pc = "done" => \A t \in Threads : exited[t]

IInv ==
    /\ Types /\ Named /\ AllKnown /\ InTurn /\ NoneOfElders /\ StepsFind
    /\ OneEach /\ Suited /\ Closed /\ Leaving
-----------------------------------------------------------------------------
(* Queues and counts                                                       *)

RemoveAt(q, i) == SubSeq(q, 1, i - 1) \o SubSeq(q, i + 1, Len(q))

LEMMA RemoveFacts ==
    ASSUME NEW S, NEW q \in Seq(S), NEW i \in 1 .. Len(q)
    PROVE  /\ RemoveAt(q, i) \in Seq(S)
           /\ Len(RemoveAt(q, i)) = Len(q) - 1
           /\ \A j \in 1 .. Len(q) - 1 :
                RemoveAt(q, i)[j] = IF j < i THEN q[j] ELSE q[j + 1]
<1>. DEFINE a == SubSeq(q, 1, i - 1)
            b == SubSeq(q, i + 1, Len(q))
<1>1. Len(q) \in Nat /\ \A j \in 1 .. Len(q) : q[j] \in S
  BY LenProperties, ElementOfSeq
<1>2. /\ a \in Seq(S) /\ Len(a) = i - 1
      /\ \A j \in 1 .. i - 1 : a[j] = q[j]
  <2>1. /\ SubSeq(q, 1, i - 1) \in Seq(S)
        /\ Len(SubSeq(q, 1, i - 1)) = IF 1 <= i - 1 THEN i - 1 - 1 + 1 ELSE 0
        /\ \A j \in 1 .. i - 1 - 1 + 1 : SubSeq(q, 1, i - 1)[j] = q[1 + j - 1]
    <3>1. 1 \in Int /\ i - 1 \in Int /\ \A j \in 1 .. i - 1 : q[j] \in S
      BY <1>1
    <3>. QED
      BY <3>1, SubSeqProperties
  <2>. QED
    BY <2>1
<1>3. /\ b \in Seq(S) /\ Len(b) = Len(q) - i
      /\ \A j \in 1 .. Len(q) - i : b[j] = q[i + j]
  <2>1. /\ SubSeq(q, i + 1, Len(q)) \in Seq(S)
        /\ Len(SubSeq(q, i + 1, Len(q))) =
             IF i + 1 <= Len(q) THEN Len(q) - (i + 1) + 1 ELSE 0
        /\ \A j \in 1 .. Len(q) - (i + 1) + 1 :
             SubSeq(q, i + 1, Len(q))[j] = q[i + 1 + j - 1]
    <3>1. i + 1 \in Int /\ Len(q) \in Int /\ \A j \in i + 1 .. Len(q) : q[j] \in S
      BY <1>1
    <3>. QED
      BY <3>1, SubSeqProperties
  <2>. QED
    BY <1>1, <2>1
<1>. HIDE DEF a, b
<1>4. /\ a \o b \in Seq(S) /\ Len(a \o b) = Len(a) + Len(b)
      /\ \A j \in 1 .. Len(a) + Len(b) :
           (a \o b)[j] = IF j <= Len(a) THEN a[j] ELSE b[j - Len(a)]
  BY <1>2, <1>3, ConcatProperties
<1>5. RemoveAt(q, i) = a \o b
  BY DEF RemoveAt, a, b
<1>6. ASSUME NEW j \in 1 .. Len(q) - 1
      PROVE  (a \o b)[j] = IF j < i THEN q[j] ELSE q[j + 1]
  <2>1. CASE j < i
    <3>1. j \in 1 .. i - 1 /\ j <= Len(a) /\ j \in 1 .. Len(a) + Len(b)
      BY <1>1, <1>2, <1>3, <2>1
    <3>. QED
      BY <1>2, <1>4, <2>1, <3>1
  <2>2. CASE ~(j < i)
    <3>1. /\ ~(j <= Len(a)) /\ j \in 1 .. Len(a) + Len(b)
          /\ j - Len(a) \in 1 .. Len(q) - i /\ i + (j - Len(a)) = j + 1
      BY <1>1, <1>2, <1>3, <2>2
    <3>. QED
      BY <1>3, <1>4, <2>2, <3>1
  <2>. QED
    BY <2>1, <2>2
<1>. QED
  BY <1>1, <1>2, <1>3, <1>4, <1>5, <1>6

Of(q, c) == {i \in DOMAIN q : q[i].cid = c}

LEMMA OfFinite ==
    ASSUME NEW S, NEW q \in Seq(S), NEW c
    PROVE  IsFiniteSet(Of(q, c)) /\ Cardinality(Of(q, c)) \in Nat
<1>1. DOMAIN q = 1 .. Len(q) /\ Len(q) \in Int /\ 1 \in Int
  BY LenProperties
<1>2. IsFiniteSet(DOMAIN q)
  BY <1>1, FS_Interval
<1>. QED
  BY <1>2, FS_Subset, FS_CardinalityType DEF Of

\* One piece more on a queue.
LEMMA CountAppend ==
    ASSUME NEW S, NEW q \in Seq(S), NEW w \in S, NEW c
    PROVE  Cardinality(Of(Append(q, w), c))
             = Cardinality(Of(q, c)) + IF w.cid = c THEN 1 ELSE 0
<1>1. /\ Len(Append(q, w)) = Len(q) + 1 /\ Len(q) \in Nat
      /\ DOMAIN q = 1 .. Len(q) /\ DOMAIN Append(q, w) = 1 .. Len(q) + 1
      /\ \A i \in 1 .. Len(q) : Append(q, w)[i] = q[i]
      /\ Append(q, w)[Len(q) + 1] = w
  BY AppendProperties, LenProperties
<1>2. IsFiniteSet(Of(q, c)) /\ Cardinality(Of(q, c)) \in Nat
  BY OfFinite
<1>3. CASE w.cid = c
  <2>1. Of(Append(q, w), c) = Of(q, c) \cup {Len(q) + 1} /\ Len(q) + 1 \notin Of(q, c)
    BY <1>1, <1>3 DEF Of
  <2>. QED
    BY <1>2, <1>3, <2>1, FS_AddElement
<1>4. CASE w.cid # c
  <2>1. Of(Append(q, w), c) = Of(q, c)
    BY <1>1, <1>4 DEF Of
  <2>. QED
    BY <1>2, <1>4, <2>1
<1>. QED
  BY <1>3, <1>4

\* One piece fewer.
LEMMA CountRemove ==
    ASSUME NEW S, NEW q \in Seq(S), NEW i \in 1 .. Len(q), NEW c
    PROVE  Cardinality(Of(RemoveAt(q, i), c))
             = Cardinality(Of(q, c)) - IF q[i].cid = c THEN 1 ELSE 0
<1>. DEFINE r == RemoveAt(q, i)
            f == [j \in Of(r, c) |-> IF j < i THEN j ELSE j + 1]
<1>1. /\ Len(q) \in Nat /\ DOMAIN q = 1 .. Len(q) /\ DOMAIN r = 1 .. Len(q) - 1
      /\ r \in Seq(S)
      /\ \A j \in 1 .. Len(q) - 1 : r[j] = IF j < i THEN q[j] ELSE q[j + 1]
  BY RemoveFacts, LenProperties
<1>. HIDE DEF r
<1>2. f \in Bijection(Of(r, c), Of(q, c) \ {i})
  <2>1. f \in [Of(r, c) -> Of(q, c) \ {i}]
    <3>1. ASSUME NEW j \in Of(r, c)
          PROVE  (IF j < i THEN j ELSE j + 1) \in Of(q, c) \ {i}
      <4>1. j \in 1 .. Len(q) - 1 /\ r[j].cid = c
        BY <1>1 DEF Of
      <4>2. CASE j < i
        BY <1>1, <4>1, <4>2 DEF Of
      <4>3. CASE ~(j < i)
        BY <1>1, <4>1, <4>3 DEF Of
      <4>. QED
        BY <4>2, <4>3
    <3>. QED
      BY <3>1
  <2>2. \A j, k \in Of(r, c) : f[j] = f[k] => j = k
    BY <1>1 DEF Of
  <2>3. ASSUME NEW k \in Of(q, c) \ {i} PROVE \E j \in Of(r, c) : f[j] = k
    <3>1. k \in 1 .. Len(q) /\ k # i /\ q[k].cid = c
      BY <1>1 DEF Of
    <3>2. CASE k < i
      <4>1. k \in 1 .. Len(q) - 1 /\ r[k] = q[k]
        BY <1>1, <3>1, <3>2
      <4>2. k \in Of(r, c)
        BY <1>1, <3>1, <4>1 DEF Of
      <4>. QED
        BY <3>2, <4>2
    <3>3. CASE k > i
      <4>1. k - 1 \in 1 .. Len(q) - 1 /\ ~(k - 1 < i) /\ k - 1 + 1 = k
        BY <1>1, <3>1, <3>3
      <4>2. k - 1 \in Of(r, c)
        BY <1>1, <3>1, <4>1 DEF Of
      <4>. QED
        BY <4>1, <4>2
    <3>. QED
      BY <1>1, <3>1, <3>2, <3>3
  <2>. HIDE DEF f
  <2>. QED
    BY <2>1, <2>2, <2>3 DEF Bijection, Injection, Surjection, IsInjective
<1>3. IsFiniteSet(Of(r, c)) /\ IsFiniteSet(Of(q, c)) /\ Cardinality(Of(q, c)) \in Nat
  BY <1>1, OfFinite
<1>4. Cardinality(Of(q, c) \ {i}) = Cardinality(Of(r, c))
  <2>. HIDE DEF f
  <2>1. ExistsBijection(Of(r, c), Of(q, c) \ {i})
    BY <1>2 DEF ExistsBijection
  <2>. QED
    BY <1>3, <2>1, FS_Bijection
<1>5. Cardinality(Of(q, c) \ {i})
        = IF i \in Of(q, c) THEN Cardinality(Of(q, c)) - 1 ELSE Cardinality(Of(q, c))
  BY <1>3, FS_RemoveElement
<1>6. i \in Of(q, c) <=> q[i].cid = c
  BY <1>1 DEF Of
<1>. QED
  BY <1>3, <1>4, <1>5, <1>6 DEF r

\* The state's work and counts, of given queues and running jobs b.
WorkOf(q, b) == {q[i] : i \in DOMAIN q} \cup ({b[t] : t \in Threads} \ {NoJob})
SaidOf(r)    == {r[i] : i \in DOMAIN r}
RunOf(b, c)  == {t \in Threads : b[t].cid = c}
CountOf(q, r, b, c) ==
    Cardinality(Of(q, c)) + Cardinality(Of(r, c)) + Cardinality(RunOf(b, c))

Absent(q, r, b, c) ==
    /\ \A w \in WorkOf(q, b) : w.cid # c
    /\ \A w \in SaidOf(r) : w.cid # c

\* As much of every connection in the one as in the other.
Even(q, r, b, p, o, a) ==
    \A c \in Nat \ {0} : CountOf(q, r, b, c) = CountOf(p, o, a, c)

LEMMA RunFinite ==
    ASSUME NEW b, NEW c
    PROVE  IsFiniteSet(RunOf(b, c)) /\ Cardinality(RunOf(b, c)) \in Nat
<1>1. IsFiniteSet(Threads)
  BY LoopAssumption, FS_Interval DEF Threads
<1>. QED
  BY <1>1, FS_Subset, FS_CardinalityType DEF RunOf

\* Nothing outstanding is no piece anywhere.
LEMMA NoneOutstanding ==
    ASSUME NEW q \in Seq(JobSet), NEW r \in Seq(ResultSet),
           NEW b \in [Threads -> JobSet \cup {NoJob}], NEW c \in Nat \ {0}
    PROVE  /\ CountOf(q, r, b, c) \in Nat
           /\ CountOf(q, r, b, c) = 0 <=> Absent(q, r, b, c)
<1>1. /\ IsFiniteSet(Of(q, c)) /\ Cardinality(Of(q, c)) \in Nat
      /\ IsFiniteSet(Of(r, c)) /\ Cardinality(Of(r, c)) \in Nat
      /\ IsFiniteSet(RunOf(b, c)) /\ Cardinality(RunOf(b, c)) \in Nat
  BY OfFinite, RunFinite
<1>2. /\ Cardinality(Of(q, c)) = 0 <=> Of(q, c) = {}
      /\ Cardinality(Of(r, c)) = 0 <=> Of(r, c) = {}
      /\ Cardinality(RunOf(b, c)) = 0 <=> RunOf(b, c) = {}
  BY <1>1, FS_EmptySet
<1>3. CountOf(q, r, b, c) = 0 <=>
        Of(q, c) = {} /\ Of(r, c) = {} /\ RunOf(b, c) = {}
  BY <1>1, <1>2 DEF CountOf
<1>4. Of(q, c) = {} <=> \A i \in DOMAIN q : q[i].cid # c
  BY DEF Of
<1>5. Of(r, c) = {} <=> \A w \in SaidOf(r) : w.cid # c
  BY DEF Of, SaidOf
<1>6. RunOf(b, c) = {} <=> \A w \in {b[t] : t \in Threads} \ {NoJob} : w.cid # c
  <2>1. NoJob.cid # c
    <3>1. NoJob.cid = 0
      BY DEF NoJob
    <3>. QED
      BY <3>1
  <2>. QED
    BY <2>1 DEF RunOf
<1>. QED
  BY <1>1, <1>3, <1>4, <1>5, <1>6 DEF CountOf, WorkOf, Absent

LEMMA StateIsOf ==
    /\ Work = WorkOf(jobs, busy) /\ Said = SaidOf(results)
    /\ \A c : Outstanding(c) = CountOf(jobs, results, busy, c)
BY DEF Work, WorkOf, Said, SaidOf, Outstanding, CountOf, Of, RunOf

LEMMA StateIsOfNext ==
    /\ Work' = WorkOf(jobs', busy') /\ Said' = SaidOf(results')
    /\ \A c : Outstanding(c)' = CountOf(jobs', results', busy', c)
BY DEF Work, WorkOf, Said, SaidOf, Outstanding, CountOf, Of, RunOf

\* The four ways in which pieces move: a job is put, taken and run, a result
\* is received.
LEMMA PutMoves ==
    ASSUME NEW q \in Seq(JobSet), NEW r \in Seq(ResultSet),
           NEW b \in [Threads -> JobSet \cup {NoJob}], NEW w \in JobSet
    PROVE  /\ WorkOf(Append(q, w), b) = WorkOf(q, b) \cup {w}
           /\ \A c \in Nat \ {0} : CountOf(Append(q, w), r, b, c)
                = CountOf(q, r, b, c) + IF w.cid = c THEN 1 ELSE 0
<1>1. /\ DOMAIN q = 1 .. Len(q) /\ DOMAIN Append(q, w) = 1 .. Len(q) + 1
      /\ \A i \in 1 .. Len(q) : Append(q, w)[i] = q[i]
      /\ Append(q, w)[Len(q) + 1] = w /\ Len(q) \in Nat
  BY AppendProperties, LenProperties
<1>2. {Append(q, w)[i] : i \in DOMAIN Append(q, w)} = {q[i] : i \in DOMAIN q} \cup {w}
  <2>1. \A i \in DOMAIN q : i \in DOMAIN Append(q, w) /\ Append(q, w)[i] = q[i]
    BY <1>1
  <2>2. \A i \in DOMAIN Append(q, w) :
          \/ i \in DOMAIN q /\ Append(q, w)[i] = q[i]
          \/ Append(q, w)[i] = w
    BY <1>1
  <2>3. Len(q) + 1 \in DOMAIN Append(q, w)
    BY <1>1
  <2>. QED
    BY <1>1, <2>1, <2>2, <2>3
<1>3. ASSUME NEW c \in Nat \ {0}
      PROVE  CountOf(Append(q, w), r, b, c)
               = CountOf(q, r, b, c) + IF w.cid = c THEN 1 ELSE 0
  <2>1. Cardinality(Of(Append(q, w), c))
          = Cardinality(Of(q, c)) + IF w.cid = c THEN 1 ELSE 0
    BY CountAppend
  <2>2. /\ Cardinality(Of(q, c)) \in Nat /\ Cardinality(Of(r, c)) \in Nat
        /\ Cardinality(RunOf(b, c)) \in Nat
    BY OfFinite, RunFinite
  <2>. QED
    BY <2>1, <2>2 DEF CountOf
<1>. QED
  BY <1>2, <1>3 DEF WorkOf

LEMMA RunOfStarted ==
    ASSUME NEW b \in [Threads -> JobSet \cup {NoJob}], NEW t \in Threads,
           NEW w \in JobSet, b[t] = NoJob, NEW c \in Nat \ {0}
    PROVE  Cardinality(RunOf([b EXCEPT ![t] = w], c))
             = Cardinality(RunOf(b, c)) + IF w.cid = c THEN 1 ELSE 0
<1>1. b[t].cid # c
  <2>1. NoJob.cid = 0
    BY DEF NoJob
  <2>. QED
    BY <2>1
<1>2. IsFiniteSet(RunOf(b, c)) /\ Cardinality(RunOf(b, c)) \in Nat
  BY RunFinite
<1>3. CASE w.cid = c
  <2>1. RunOf([b EXCEPT ![t] = w], c) = RunOf(b, c) \cup {t} /\ t \notin RunOf(b, c)
    BY <1>1, <1>3 DEF RunOf
  <2>. QED
    BY <1>2, <1>3, <2>1, FS_AddElement
<1>4. CASE w.cid # c
  <2>1. RunOf([b EXCEPT ![t] = w], c) = RunOf(b, c)
    BY <1>1, <1>4 DEF RunOf
  <2>. QED
    BY <1>2, <1>4, <2>1
<1>. QED
  BY <1>3, <1>4

LEMMA TakeMoves ==
    ASSUME NEW q \in Seq(JobSet), NEW r \in Seq(ResultSet),
           NEW b \in [Threads -> JobSet \cup {NoJob}], NEW t \in Threads,
           b[t] = NoJob, NEW i \in 1 .. Len(q)
    PROVE  /\ WorkOf(RemoveAt(q, i), [b EXCEPT ![t] = q[i]]) = WorkOf(q, b)
           /\ Even(RemoveAt(q, i), r, [b EXCEPT ![t] = q[i]], q, r, b)
<1>. DEFINE p == RemoveAt(q, i)
            d == [b EXCEPT ![t] = q[i]]
<1>1. /\ DOMAIN q = 1 .. Len(q) /\ Len(q) \in Nat
      /\ DOMAIN p = 1 .. Len(q) - 1
      /\ \A j \in 1 .. Len(q) - 1 : p[j] = IF j < i THEN q[j] ELSE q[j + 1]
      /\ q[i] \in JobSet /\ q[i] # NoJob
  <2>1. q[i] \in JobSet
    BY ElementOfSeq
  <2>2. q[i].slot # -1
    BY <2>1 DEF JobSet, Slots
  <2>3. NoJob.slot = -1
    BY DEF NoJob
  <2>4. q[i] # NoJob
    BY <2>2, <2>3
  <2>5. /\ Len(p) = Len(q) - 1 /\ p \in Seq(JobSet)
        /\ \A j \in 1 .. Len(q) - 1 : p[j] = IF j < i THEN q[j] ELSE q[j + 1]
    BY RemoveFacts
  <2>6. DOMAIN q = 1 .. Len(q) /\ Len(q) \in Nat
    BY LenProperties
  <2>. HIDE DEF p
  <2>7. DOMAIN p = 1 .. Len(p)
    BY <2>5, LenProperties
  <2>. QED
    BY <2>1, <2>4, <2>5, <2>6, <2>7
<1>. HIDE DEF p
<1>2. {q[j] : j \in DOMAIN q} = {p[j] : j \in DOMAIN p} \cup {q[i]}
  <2>1. \A j \in DOMAIN q : j = i \/ \E k \in DOMAIN p : q[j] = p[k]
    <3>1. TAKE j \in DOMAIN q
    <3>2. CASE j < i
      <4>1. j \in DOMAIN p /\ p[j] = q[j]
        BY <1>1, <3>2
      <4>. QED
        BY <4>1
    <3>3. CASE j > i
      <4>1. j - 1 \in DOMAIN p /\ p[j - 1] = q[j]
        BY <1>1, <3>3
      <4>. QED
        BY <4>1
    <3>. QED
      BY <1>1, <3>2, <3>3
  <2>2. \A k \in DOMAIN p : \E j \in DOMAIN q : q[j] = p[k]
    <3>1. TAKE k \in DOMAIN p
    <3>2. CASE k < i
      <4>1. k \in DOMAIN q /\ q[k] = p[k]
        BY <1>1, <3>2
      <4>. QED
        BY <4>1
    <3>3. CASE ~ k < i
      <4>1. k + 1 \in DOMAIN q /\ q[k + 1] = p[k]
        BY <1>1, <3>3
      <4>. QED
        BY <4>1
    <3>. QED
      BY <3>2, <3>3
  <2>3. i \in DOMAIN q
    BY <1>1
  <2>4. {q[j] : j \in DOMAIN q} \subseteq {p[j] : j \in DOMAIN p} \cup {q[i]}
    BY <2>1
  <2>5. {p[j] : j \in DOMAIN p} \cup {q[i]} \subseteq {q[j] : j \in DOMAIN q}
    BY <2>2, <2>3
  <2>. QED
    BY <2>4, <2>5
<1>3. ({d[s] : s \in Threads} \ {NoJob}) = ({b[s] : s \in Threads} \ {NoJob}) \cup {q[i]}
  BY <1>1
<1>4. ASSUME NEW c \in Nat \ {0} PROVE CountOf(p, r, d, c) = CountOf(q, r, b, c)
  <2>1. Cardinality(Of(p, c)) = Cardinality(Of(q, c)) - IF q[i].cid = c THEN 1 ELSE 0
    BY CountRemove DEF p
  <2>2. Cardinality(RunOf(d, c)) = Cardinality(RunOf(b, c)) + IF q[i].cid = c THEN 1 ELSE 0
    BY <1>1, RunOfStarted
  <2>3. /\ Cardinality(Of(q, c)) \in Nat /\ Cardinality(Of(r, c)) \in Nat
        /\ Cardinality(RunOf(b, c)) \in Nat
    BY OfFinite, RunFinite
  <2>. QED
    BY <2>1, <2>2, <2>3 DEF CountOf
<1>. HIDE DEF d
<1>5. WorkOf(p, d) = WorkOf(q, b)
  BY <1>2, <1>3 DEF WorkOf
<1>. QED
  BY <1>4, <1>5 DEF p, d, Even

LEMMA RunMoves ==
    ASSUME NEW q \in Seq(JobSet), NEW r \in Seq(ResultSet),
           NEW b \in [Threads -> JobSet \cup {NoJob}], NEW t \in Threads,
           b[t] # NoJob, NEW w \in ResultSet, w.cid = b[t].cid
    PROVE  /\ WorkOf(q, [b EXCEPT ![t] = NoJob]) \subseteq WorkOf(q, b)
           /\ b[t] \in WorkOf(q, b)
           /\ SaidOf(Append(r, w)) = SaidOf(r) \cup {w}
           /\ Even(q, Append(r, w), [b EXCEPT ![t] = NoJob], q, r, b)
<1>. DEFINE d == [b EXCEPT ![t] = NoJob]
<1>1. /\ DOMAIN r = 1 .. Len(r) /\ DOMAIN Append(r, w) = 1 .. Len(r) + 1
      /\ \A i \in 1 .. Len(r) : Append(r, w)[i] = r[i]
      /\ Append(r, w)[Len(r) + 1] = w /\ Len(r) \in Nat
  BY AppendProperties, LenProperties
<1>2. SaidOf(Append(r, w)) = SaidOf(r) \cup {w}
  <2>1. \A i \in DOMAIN r : i \in DOMAIN Append(r, w) /\ Append(r, w)[i] = r[i]
    BY <1>1
  <2>2. \A i \in DOMAIN Append(r, w) :
          \/ i \in DOMAIN r /\ Append(r, w)[i] = r[i]
          \/ Append(r, w)[i] = w
    BY <1>1
  <2>3. Len(r) + 1 \in DOMAIN Append(r, w)
    BY <1>1
  <2>. QED
    BY <1>1, <2>1, <2>2, <2>3 DEF SaidOf
<1>3. WorkOf(q, d) \subseteq WorkOf(q, b) /\ b[t] \in WorkOf(q, b)
  BY DEF WorkOf
<1>4. ASSUME NEW c \in Nat \ {0} PROVE CountOf(q, Append(r, w), d, c) = CountOf(q, r, b, c)
  <2>1. Cardinality(Of(Append(r, w), c)) = Cardinality(Of(r, c)) + IF w.cid = c THEN 1 ELSE 0
    BY CountAppend
  <2>2. Cardinality(RunOf(d, c)) = Cardinality(RunOf(b, c)) - IF w.cid = c THEN 1 ELSE 0
    <3>1. d \in [Threads -> JobSet \cup {NoJob}] /\ d[t] = NoJob /\ [d EXCEPT ![t] = b[t]] = b
      OBVIOUS
    <3>2. b[t] \in JobSet
      OBVIOUS
    <3>3. Cardinality(RunOf([d EXCEPT ![t] = b[t]], c))
            = Cardinality(RunOf(d, c)) + IF b[t].cid = c THEN 1 ELSE 0
      <4>. HIDE DEF d
      <4>. QED
        BY <3>1, <3>2, RunOfStarted
    <3>4. Cardinality(RunOf(d, c)) \in Nat
      BY RunFinite
    <3>5. Cardinality(RunOf(b, c)) = Cardinality(RunOf(d, c)) + IF w.cid = c THEN 1 ELSE 0
      BY <3>1, <3>3, Zenon
    <3>. HIDE DEF d
    <3>. QED
      BY <3>4, <3>5
  <2>3. /\ Cardinality(Of(q, c)) \in Nat /\ Cardinality(Of(r, c)) \in Nat
        /\ Cardinality(RunOf(b, c)) \in Nat
    BY OfFinite, RunFinite
  <2>. QED
    BY <2>1, <2>2, <2>3 DEF CountOf
<1>. QED
  BY <1>2, <1>3, <1>4 DEF Even

LEMMA ReceiveMoves ==
    ASSUME NEW q \in Seq(JobSet), NEW r \in Seq(ResultSet), r # <<>>,
           NEW b \in [Threads -> JobSet \cup {NoJob}]
    PROVE  /\ Tail(r) \in Seq(ResultSet) /\ Head(r) \in ResultSet
           /\ SaidOf(r) = SaidOf(Tail(r)) \cup {Head(r)}
           /\ \A c \in Nat \ {0} : CountOf(q, Tail(r), b, c)
                = CountOf(q, r, b, c) - IF Head(r).cid = c THEN 1 ELSE 0
<1>1. /\ Tail(r) \in Seq(ResultSet) /\ Head(r) \in ResultSet
      /\ Len(Tail(r)) = Len(r) - 1 /\ Len(r) \in Nat \ {0}
      /\ \A i \in 1 .. Len(Tail(r)) : Tail(r)[i] = r[i + 1]
      /\ DOMAIN r = 1 .. Len(r) /\ DOMAIN Tail(r) = 1 .. Len(Tail(r))
      /\ Head(r) = r[1]
  BY HeadTailProperties, EmptySeq, LenProperties
<1>2. SaidOf(r) = SaidOf(Tail(r)) \cup {Head(r)}
  <2>1. \A i \in DOMAIN Tail(r) : i + 1 \in DOMAIN r /\ Tail(r)[i] = r[i + 1]
    BY <1>1
  <2>2. 1 \in DOMAIN r
    BY <1>1
  <2>3. \A i \in DOMAIN r : i = 1 \/ (i - 1 \in DOMAIN Tail(r) /\ Tail(r)[i - 1] = r[i])
    BY <1>1
  <2>4. SaidOf(Tail(r)) \cup {Head(r)} \subseteq SaidOf(r)
    BY <1>1, <2>1, <2>2 DEF SaidOf
  <2>5. \A i \in DOMAIN r : r[i] \in SaidOf(Tail(r)) \cup {Head(r)}
    BY <1>1, <2>3 DEF SaidOf
  <2>. QED
    BY <2>4, <2>5 DEF SaidOf
<1>3. Tail(r) = RemoveAt(r, 1)
  <2>1. /\ RemoveAt(r, 1) \in Seq(ResultSet) /\ Len(RemoveAt(r, 1)) = Len(r) - 1
        /\ \A j \in 1 .. Len(r) - 1 : RemoveAt(r, 1)[j] = r[j + 1]
    <3>1. 1 \in 1 .. Len(r)
      BY <1>1
    <3>2. /\ RemoveAt(r, 1) \in Seq(ResultSet) /\ Len(RemoveAt(r, 1)) = Len(r) - 1
          /\ \A j \in 1 .. Len(r) - 1 :
               RemoveAt(r, 1)[j] = IF j < 1 THEN r[j] ELSE r[j + 1]
      BY <3>1, RemoveFacts
    <3>3. \A j \in 1 .. Len(r) - 1 : ~(j < 1)
      BY <1>1
    <3>. QED
      BY <3>2, <3>3, Zenon
  <2>. QED
    BY <1>1, <2>1, SeqEqual
<1>4. ASSUME NEW c \in Nat \ {0}
      PROVE  CountOf(q, Tail(r), b, c) = CountOf(q, r, b, c) - IF Head(r).cid = c THEN 1 ELSE 0
  <2>1. 1 \in 1 .. Len(r)
    BY <1>1
  <2>2. Cardinality(Of(RemoveAt(r, 1), c)) = Cardinality(Of(r, c)) - IF r[1].cid = c THEN 1 ELSE 0
    BY <2>1, CountRemove
  <2>3. /\ Cardinality(Of(q, c)) \in Nat /\ Cardinality(Of(r, c)) \in Nat
        /\ Cardinality(RunOf(b, c)) \in Nat
    BY OfFinite, RunFinite
  <2>4. Cardinality(Of(Tail(r), c)) = Cardinality(Of(r, c)) - IF Head(r).cid = c THEN 1 ELSE 0
    BY <1>1, <1>3, <2>2
  <2>. QED
    BY <2>3, <2>4 DEF CountOf
<1>. QED
  BY <1>1, <1>2, <1>4
-----------------------------------------------------------------------------
(* Types                                                                   *)

LEMMA JobTyped ==
    ASSUME Types, NEW s \in Slots, NEW t \in Threads, NEW n \in Nat,
           NEW kind \in {JOB_REQUEST, JOB_STREAM_STEP}
    PROVE  Job(s, kind, t, n) \in JobSet
BY DEF Types, TypeOK, Job, JobSet

LEMMA ResultTyped ==
    ASSUME Types, NEW job \in JobSet, NEW close \in BOOLEAN, NEW size \in 0 .. 2,
           NEW left \in Nat, NEW kind \in {RES_STREAM_HEAD, RES_BYTES, RES_DONE}
    PROVE  Result(job, kind, close, size, left) \in ResultSet
BY DEF JobSet, ResultSet, Result

LEMMA OnTyped ==
    ASSUME NEW V, NEW f \in [Slots -> V], NEW S, NEW v \in V
    PROVE  /\ On(f, S, v) \in [Slots -> V]
           /\ \A s \in Slots : On(f, S, v)[s] = IF s \in S THEN v ELSE f[s]
BY DEF On

\* Whatever slots are dropped, what is kept has its type.
LEMMA DropTypes ==
    ASSUME Types, NEW S \in SUBSET Slots, drop(S)
    PROVE  /\ live' \in [Slots -> BOOLEAN] /\ gen' \in [Slots -> Nat]
           /\ inflight' \in [Slots -> BOOLEAN] /\ streaming' \in [Slots -> BOOLEAN]
           /\ owner' \in [Slots -> Threads \cup {-1}]
           /\ queued' \in [Slots -> 0 .. MAX_INBOUND]
           /\ tail' \in [Slots -> {"open", "closed", "broken"}]
           /\ pending' \in [Slots -> 0 .. SEND_HIGH_WATER]
           /\ closing' \in [Slots -> BOOLEAN]
           /\ cid' \in [Slots -> Nat] /\ number' \in [Slots -> Nat]
           /\ last' \in [Slots -> [cid : Nat, number : Nat, left : Nat, close : BOOLEAN,
                                   kind : {RES_STREAM_HEAD, RES_BYTES, RES_DONE}]]
           /\ accepted' \in Nat /\ received' \in Nat
           /\ \A s \in Slots : ~live'[s] =>
                /\ ~inflight'[s] /\ ~streaming'[s] /\ owner'[s] = -1
                /\ queued'[s] = 0 /\ pending'[s] = 0 /\ ~closing'[s]
<1>1. MAX_INBOUND \in Nat /\ SEND_HIGH_WATER \in Nat
  BY LoopAssumption
<1>2. Nothing \in [cid : Nat, number : Nat, left : Nat, close : BOOLEAN,
                   kind : {RES_STREAM_HEAD, RES_BYTES, RES_DONE}]
  BY DEF Nothing
<1>3. /\ live' \in [Slots -> BOOLEAN] /\ gen' \in [Slots -> Nat]
      /\ inflight' \in [Slots -> BOOLEAN] /\ streaming' \in [Slots -> BOOLEAN]
      /\ owner' \in [Slots -> Threads \cup {-1}]
  <2>1. /\ live \in [Slots -> BOOLEAN] /\ inflight \in [Slots -> BOOLEAN]
        /\ streaming \in [Slots -> BOOLEAN] /\ FALSE \in BOOLEAN
        /\ owner \in [Slots -> Threads \cup {-1}] /\ -1 \in Threads \cup {-1}
    BY DEF Types, TypeOK
  <2>2. live' \in [Slots -> BOOLEAN]
    BY <2>1, OnTyped, Zenon DEF drop
  <2>3. inflight' \in [Slots -> BOOLEAN]
    BY <2>1, OnTyped, Zenon DEF drop
  <2>4. streaming' \in [Slots -> BOOLEAN]
    BY <2>1, OnTyped, Zenon DEF drop
  <2>5. owner' \in [Slots -> Threads \cup {-1}]
    <3>1. owner' = On(owner, S, -1)
      BY DEF drop
    <3>2. \A s \in Slots : (IF s \in S THEN -1 ELSE owner[s]) \in Threads \cup {-1}
      BY <2>1
    <3>. QED
      BY <3>1, <3>2 DEF On
  <2>6. gen' \in [Slots -> Nat]
    BY DEF Types, TypeOK, drop, Bumped
  <2>. QED
    BY <2>2, <2>3, <2>4, <2>5, <2>6
<1>4. /\ queued' \in [Slots -> 0 .. MAX_INBOUND]
      /\ tail' \in [Slots -> {"open", "closed", "broken"}]
      /\ pending' \in [Slots -> 0 .. SEND_HIGH_WATER]
      /\ closing' \in [Slots -> BOOLEAN]
  <2>1. /\ queued \in [Slots -> 0 .. MAX_INBOUND] /\ 0 \in 0 .. MAX_INBOUND
        /\ pending \in [Slots -> 0 .. SEND_HIGH_WATER] /\ 0 \in 0 .. SEND_HIGH_WATER
        /\ tail \in [Slots -> {"open", "closed", "broken"}]
        /\ "open" \in {"open", "closed", "broken"}
        /\ closing \in [Slots -> BOOLEAN] /\ FALSE \in BOOLEAN
    BY <1>1 DEF Types, TypeOK
  <2>2. queued' \in [Slots -> 0 .. MAX_INBOUND]
    BY <2>1, OnTyped, Zenon DEF drop
  <2>3. tail' \in [Slots -> {"open", "closed", "broken"}]
    BY <2>1, OnTyped, Zenon DEF drop
  <2>4. pending' \in [Slots -> 0 .. SEND_HIGH_WATER]
    BY <2>1, OnTyped, Zenon DEF drop
  <2>5. closing' \in [Slots -> BOOLEAN]
    BY <2>1, OnTyped, Zenon DEF drop
  <2>. QED
    BY <2>2, <2>3, <2>4, <2>5
<1>5. /\ cid' \in [Slots -> Nat] /\ number' \in [Slots -> Nat]
      /\ last' \in [Slots -> [cid : Nat, number : Nat, left : Nat, close : BOOLEAN,
                              kind : {RES_STREAM_HEAD, RES_BYTES, RES_DONE}]]
      /\ accepted' \in Nat /\ received' \in Nat
  BY <1>2 DEF Types, drop, On
<1>6. \A s \in Slots : ~live'[s] =>
        /\ ~inflight'[s] /\ ~streaming'[s] /\ owner'[s] = -1
        /\ queued'[s] = 0 /\ pending'[s] = 0 /\ ~closing'[s]
  BY DEF Types, TypeOK, drop, On
<1>. QED
  BY <1>3, <1>4, <1>5, <1>6

LEMMA AcceptTypes == ASSUME Types, Accept PROVE Types'
<1>1. PICK s \in Slots : /\ live' = [live EXCEPT ![s] = TRUE]
                         /\ cid' = [cid EXCEPT ![s] = accepted + 1]
  BY DEF Accept
<1>2. /\ live' \in [Slots -> BOOLEAN] /\ cid' \in [Slots -> Nat] /\ accepted' \in Nat
      /\ \A r \in Slots : ~live'[r] => ~live[r]
  <2>1. live' \in [Slots -> BOOLEAN]
    BY <1>1 DEF Types, TypeOK
  <2>2. cid' \in [Slots -> Nat] /\ accepted' \in Nat
    BY <1>1 DEF Types, Accept
  <2>3. \A r \in Slots : ~live'[r] => ~live[r]
    BY <1>1 DEF Types, TypeOK
  <2>. QED
    BY <2>1, <2>2, <2>3
<1>3. UNCHANGED <<gen, inflight, streaming, owner, next_engine, conns, mailbox,
                  threads, received, number, last, upset, pc, at>>
  BY DEF Accept, Stay
<1>. QED
  BY <1>2, <1>3 DEF Types, TypeOK, conns, mailbox, threads

LEMMA ReceiveTypes == ASSUME Types, NEW s \in Slots, Receive(s) PROVE Types'
<1>1. MAX_INBOUND \in Nat
  BY LoopAssumption
<1>2. CASE ReceiveRequest(s)
  <2>1. live[s] /\ pc = "events"
    BY DEF Receive
  <2>2. /\ queued' \in [Slots -> 0 .. MAX_INBOUND]
        /\ \A r \in Slots : ~live[r] => queued'[r] = 0
    <3>1. \/ UNCHANGED queued
          \/ queued[s] + 1 <= MAX_INBOUND /\ queued' = [queued EXCEPT ![s] = @ + 1]
      BY <1>1, <1>2 DEF ReceiveRequest, Types, TypeOK
    <3>2. /\ queued \in [Slots -> 0 .. MAX_INBOUND]
          /\ \A r \in Slots : ~live[r] => queued[r] = 0
      BY DEF Types, TypeOK
    <3>3. CASE UNCHANGED queued
      BY <3>2, <3>3
    <3>4. CASE queued[s] + 1 <= MAX_INBOUND /\ queued' = [queued EXCEPT ![s] = @ + 1]
      <4>1. queued[s] + 1 \in 0 .. MAX_INBOUND
        BY <1>1, <3>2, <3>4
      <4>. QED
        BY <2>1, <3>2, <3>4, <4>1
    <3>. QED
      BY <3>1, <3>3, <3>4
  <2>3. /\ received' \in Nat
        /\ pc' \in {"events", "raised"} /\ at' \in {0, at}
    BY <1>2, <2>1 DEF ReceiveRequest, Goto, Stay, Types
  <2>4. UNCHANGED <<loop, tail, pending, closing, accepted, cid, number, last,
                    next_engine, mailbox, threads, upset>>
    BY <1>2 DEF Receive, ReceiveRequest
  <2>. QED
    BY <2>2, <2>3, <2>4 DEF Types, TypeOK, loop, mailbox, threads
<1>3. CASE ReceiveEnd(s)
  BY <1>3 DEF Types, TypeOK, Receive, ReceiveEnd, Stay, loop, mailbox, threads, history
<1>. QED
  BY <1>2, <1>3 DEF Receive

LEMMA FlushTypes == ASSUME Types, NEW s \in Slots, Flush(s) PROVE Types'
<1>1. PICK n \in 1 .. pending[s] : pending' = [pending EXCEPT ![s] = @ - n]
  BY DEF Flush
<1>2. pending' \in [Slots -> 0 .. SEND_HIGH_WATER]
  <2>1. pending \in [Slots -> 0 .. SEND_HIGH_WATER] /\ SEND_HIGH_WATER \in Nat
    BY LoopAssumption DEF Types, TypeOK
  <2>2. pending[s] - n \in 0 .. SEND_HIGH_WATER
    BY <2>1
  <2>. QED
    BY <1>1, <2>1, <2>2
<1>3. \A r \in Slots : ~live[r] => pending'[r] = 0
  BY <1>1 DEF Types, TypeOK, Flush
<1>. QED
  BY <1>2, <1>3 DEF Types, TypeOK, Flush, Stay, loop, mailbox, threads, history

LEMMA ResetTypes == ASSUME Types, NEW s \in Slots, Reset(s) PROVE Types'
<1>1. drop({s}) /\ {s} \in SUBSET Slots
  BY DEF Reset
<1>. QED
  BY <1>1, DropTypes DEF Types, TypeOK, Reset, Stay, mailbox, threads

LEMMA DeliverTypes ==
    ASSUME Types, NEW s \in Slots, live[s], NEW res \in ResultSet, Deliver(s, res),
           pending[s] + res.size <= SEND_HIGH_WATER
    PROVE  /\ inflight' \in [Slots -> BOOLEAN] /\ streaming' \in [Slots -> BOOLEAN]
           /\ pending' \in [Slots -> 0 .. SEND_HIGH_WATER]
           /\ closing' \in [Slots -> BOOLEAN]
           /\ last' \in [Slots -> [cid : Nat, number : Nat, left : Nat, close : BOOLEAN,
                                   kind : {RES_STREAM_HEAD, RES_BYTES, RES_DONE}]]
           /\ \A r \in Slots : ~live[r] =>
                ~inflight'[r] /\ ~streaming'[r] /\ pending'[r] = 0 /\ ~closing'[r]
<1>1. /\ res.size \in 0 .. 2 /\ res.kind \in {RES_STREAM_HEAD, RES_BYTES, RES_DONE}
      /\ res.close \in BOOLEAN
      /\ [cid |-> res.cid, number |-> res.number, kind |-> res.kind,
          close |-> res.close, left |-> res.left]
           \in [cid : Nat, number : Nat, left : Nat, close : BOOLEAN,
                kind : {RES_STREAM_HEAD, RES_BYTES, RES_DONE}]
  BY DEF ResultSet
<1>2. pending' \in [Slots -> 0 .. SEND_HIGH_WATER]
  <2>1. pending \in [Slots -> 0 .. SEND_HIGH_WATER] /\ SEND_HIGH_WATER \in Nat
    BY LoopAssumption DEF Types, TypeOK
  <2>2. pending[s] + res.size \in 0 .. SEND_HIGH_WATER
    BY <1>1, <2>1
  <2>. QED
    BY <2>1, <2>2 DEF Deliver
<1>3. last' \in [Slots -> [cid : Nat, number : Nat, left : Nat, close : BOOLEAN,
                           kind : {RES_STREAM_HEAD, RES_BYTES, RES_DONE}]]
  BY <1>1 DEF Types, Deliver
<1>4. inflight' \in [Slots -> BOOLEAN] /\ streaming' \in [Slots -> BOOLEAN]
  BY <1>1 DEF Types, TypeOK, Deliver, Unmark, RES_STREAM_HEAD, RES_DONE, RES_BYTES
<1>5. closing' \in [Slots -> BOOLEAN]
  BY <1>1, Zenon DEF Types, TypeOK, Deliver
<1>6. \A r \in Slots : ~live[r] =>
        ~inflight'[r] /\ ~streaming'[r] /\ pending'[r] = 0 /\ ~closing'[r]
  <2>1. \A r \in Slots \ {s} : /\ inflight'[r] = inflight[r] /\ pending'[r] = pending[r]
                               /\ streaming'[r] = streaming[r] /\ closing'[r] = closing[r]
    BY DEF Types, TypeOK, Deliver, Unmark
  <2>. QED
    BY <2>1 DEF Types, TypeOK
<1>. QED
  BY <1>2, <1>3, <1>4, <1>5, <1>6

LEMMA CollectTypes == ASSUME Types, Collect PROVE Types'
<1>1. CASE results = <<>>
  BY <1>1 DEF Types, TypeOK, Collect, Goto, loop, conns, threads, history
<1>2. CASE results # <<>>
  <2>. DEFINE res == Head(results)
              s == res.slot
  <2>1. Tail(results) \in Seq(ResultSet) /\ res \in ResultSet /\ s \in Slots
    BY <1>2, ReceiveMoves, HeadTailProperties DEF Types, ResultSet
  <2>2. \/ /\ ~live[s] /\ results' = Tail(results)
           /\ UNCHANGED <<pc, at, loop, conns, history>>
        \/ pc' = "streams" /\ at' = 0 /\ UNCHANGED <<loop, conns, results, history>>
        \/ /\ live[s] /\ results' = Tail(results) /\ UNCHANGED <<pc, at>>
           /\ \/ Discard(s)
              \/ drop({s})
              \/ pending[s] + res.size <= SEND_HIGH_WATER /\ Deliver(s, res)
    BY <1>2, Zenon DEF Collect, Stay, Goto
  <2>. HIDE DEF res, s
  <2>3. CASE ~live[s] /\ results' = Tail(results) /\ UNCHANGED <<pc, at, loop, conns, history>>
    BY <2>1, <2>3 DEF Types, TypeOK, Collect, loop, conns, threads, history
  <2>4. CASE pc' = "streams" /\ at' = 0 /\ UNCHANGED <<loop, conns, results, history>>
    BY <2>4 DEF Types, TypeOK, Collect, loop, conns, threads, history
  <2>5. ASSUME live[s], results' = Tail(results), UNCHANGED <<pc, at>>, Discard(s)
        PROVE  Types'
    BY <2>1, <2>5
       DEF Types, TypeOK, Collect, Discard, Unmark, conns, threads, history
  <2>6. ASSUME live[s], results' = Tail(results), UNCHANGED <<pc, at>>, drop({s})
        PROVE  Types'
    BY <2>1, <2>6, DropTypes DEF Types, TypeOK, Collect, threads
  <2>7. ASSUME live[s], results' = Tail(results), UNCHANGED <<pc, at>>,
               pending[s] + res.size <= SEND_HIGH_WATER, Deliver(s, res)
        PROVE  Types'
    BY <2>1, <2>7, DeliverTypes DEF Types, TypeOK, Collect, Deliver, threads
  <2>. QED
    BY <2>2, <2>3, <2>4, <2>5, <2>6, <2>7, Zenon
<1>. QED
  BY <1>1, <1>2

\* A dispatch puts its job where there is room.
LEMMA PutTypes ==
    ASSUME Types, HasRoom, NEW w \in JobSet
    PROVE  Append(jobs, w) \in Seq(JobSet) /\ Len(Append(jobs, w)) <= MAILBOX_CAP
<1>1. jobs \in Seq(JobSet) /\ Len(jobs) < MAILBOX_CAP /\ MAILBOX_CAP \in Nat
  BY LoopAssumption DEF Types, HasRoom
<1>2. Append(jobs, w) \in Seq(JobSet) /\ Len(Append(jobs, w)) = Len(jobs) + 1
      /\ Len(jobs) \in Nat
  BY <1>1, AppendProperties, LenProperties
<1>. QED
  BY <1>1, <1>2

LEMMA DispatchStreamTypes == ASSUME Types, NoneOfElders, DispatchStream PROVE Types'
<1>1. PICK s \in Reaches(StreamsDue) :
        /\ pc' = "streams" /\ at' = s + 1
        /\ IF HasRoom
           THEN /\ Push(Job(s, JOB_STREAM_STEP, owner[s], number[s]))
                /\ inflight' = [inflight EXCEPT ![s] = TRUE]
           ELSE UNCHANGED <<jobs, belated, inflight>>
  BY DEF DispatchStream, Goto
<1>2. s \in Slots /\ live[s] /\ streaming[s]
  BY DEF Reaches, Ahead, StreamsDue, MayDispatch
<1>3. UNCHANGED <<live, gen, streaming, owner, next_engine, conns, results, stop,
                  threads, history, upset>>
  BY DEF DispatchStream
<1>4. owner[s] \in Threads /\ number[s] \in Nat
  BY <1>2 DEF Types, NoneOfElders, Caught
<1>5. Job(s, JOB_STREAM_STEP, owner[s], number[s]) \in JobSet
  BY <1>2, <1>4, JobTyped
<1>6. jobs' \in Seq(JobSet) /\ Len(jobs') <= MAILBOX_CAP
  BY <1>1, <1>5, PutTypes DEF Types, TypeOK, Push
<1>7. inflight' \in [Slots -> BOOLEAN]
  BY <1>1 DEF Types, TypeOK
<1>8. \A r \in Slots : ~live[r] => ~inflight'[r]
  BY <1>1, <1>2 DEF Types, TypeOK
<1>9. at' \in Nat
  BY <1>1, <1>2, LoopAssumption DEF Slots
<1>. QED
  BY <1>1, <1>3, <1>6, <1>7, <1>8, <1>9 DEF Types, TypeOK, conns, threads, history

LEMMA ModBelow ==
    ASSUME NEW n \in Nat, NEW m \in Nat \ {0}
    PROVE  n % m \in 0 .. m - 1
BY SMT

LEMMA TakeRequestTypes ==
    ASSUME Types, NEW s \in Slots, live[s], TakeRequest(s)
    PROVE  /\ queued' \in [Slots -> 0 .. MAX_INBOUND] /\ number' \in [Slots -> Nat]
           /\ owner' \in [Slots -> Threads \cup {-1}] /\ next_engine' \in Threads
           /\ OwnerFor(s).thread \in Threads
           /\ jobs' \in Seq(JobSet) /\ Len(jobs') <= MAILBOX_CAP
           /\ inflight' \in [Slots -> BOOLEAN]
           /\ \A r \in Slots : ~live[r] =>
                ~inflight'[r] /\ owner'[r] = -1 /\ queued'[r] = 0
<1>1. OwnerFor(s).thread \in Threads
  <2>1. CASE owner[s] >= 0
    BY <2>1 DEF OwnerFor, Types, TypeOK
  <2>2. CASE ~(owner[s] >= 0)
    BY <2>2 DEF OwnerFor, Types, TypeOK
  <2>. QED
    BY <2>1, <2>2
<1>2. /\ queued[s] > 0 /\ queued' = [queued EXCEPT ![s] = @ - 1]
      /\ number' = [number EXCEPT ![s] = @ + 1]
      /\ owner' = [owner EXCEPT ![s] = OwnerFor(s).thread]
      /\ next_engine' = IF OwnerFor(s).new THEN (next_engine + 1) % ENGINES ELSE next_engine
      /\ IF HasRoom
         THEN /\ Push(Job(s, JOB_REQUEST, OwnerFor(s).thread, number[s] + 1))
              /\ inflight' = [inflight EXCEPT ![s] = TRUE]
         ELSE UNCHANGED <<jobs, belated, inflight>>
  BY DEF TakeRequest
<1>3. queued' \in [Slots -> 0 .. MAX_INBOUND]
  <2>1. queued \in [Slots -> 0 .. MAX_INBOUND] /\ MAX_INBOUND \in Nat
    BY LoopAssumption DEF Types, TypeOK
  <2>2. queued[s] - 1 \in 0 .. MAX_INBOUND
    BY <1>2, <2>1
  <2>. QED
    BY <1>2, <2>1, <2>2
<1>4. number[s] + 1 \in Nat /\ number' \in [Slots -> Nat]
  BY <1>2 DEF Types
<1>5. owner' \in [Slots -> Threads \cup {-1}]
  BY <1>1, <1>2 DEF Types, TypeOK
<1>6. next_engine' \in Threads
  <2>1. (next_engine + 1) % ENGINES \in Threads
    <3>1. next_engine + 1 \in Nat /\ ENGINES \in Nat \ {0}
      BY LoopAssumption DEF Types, TypeOK, Threads
    <3>. QED
      BY <3>1, ModBelow DEF Threads
  <2>2. next_engine \in Threads
    BY DEF Types, TypeOK
  <2>. QED
    BY <1>2, <2>1, <2>2
<1>7. Job(s, JOB_REQUEST, OwnerFor(s).thread, number[s] + 1) \in JobSet
  BY <1>1, <1>4, JobTyped
<1>8. jobs' \in Seq(JobSet) /\ Len(jobs') <= MAILBOX_CAP
  <2>1. CASE HasRoom
    <3>1. jobs' = Append(jobs, Job(s, JOB_REQUEST, OwnerFor(s).thread, number[s] + 1))
      BY <1>2, <2>1 DEF Push
    <3>. QED
      BY <1>7, <2>1, <3>1, PutTypes
  <2>2. CASE ~HasRoom
    BY <1>2, <2>2 DEF Types, TypeOK
  <2>. QED
    BY <2>1, <2>2
<1>9. inflight' \in [Slots -> BOOLEAN]
  BY <1>2 DEF Types, TypeOK
<1>10. \A r \in Slots : ~live[r] => ~inflight'[r] /\ owner'[r] = -1 /\ queued'[r] = 0
  BY <1>2 DEF Types, TypeOK
<1>. QED
  BY <1>1, <1>3, <1>4, <1>5, <1>6, <1>8, <1>9, <1>10

LEMMA DispatchRequestTypes == ASSUME Types, DispatchRequest PROVE Types'
<1>1. PICK s \in Reaches(RequestsDue) :
        pc' = "requests" /\ at' = s + 1 /\ (TakeRequest(s) \/ TakeEnd(s))
  BY DEF DispatchRequest, Goto
<1>2. s \in Slots /\ live[s] /\ at' \in Nat
  BY <1>1, LoopAssumption DEF Reaches, Ahead, RequestsDue, MayDispatch, Slots
<1>3. UNCHANGED <<results, stop, threads>>
  BY DEF DispatchRequest
<1>4. CASE TakeRequest(s)
  <2>1. UNCHANGED <<live, gen, streaming, tail, pending, closing, accepted, received,
                    cid, last>>
    BY <1>4 DEF TakeRequest
  <2>. QED
    BY <1>1, <1>2, <1>3, <1>4, <2>1, TakeRequestTypes DEF Types, TypeOK, threads
<1>5. CASE TakeEnd(s)
  <2>1. {s} \in SUBSET Slots /\ UNCHANGED <<next_engine, jobs>>
    BY <1>2, <1>5 DEF TakeEnd
  <2>2. CASE drop({s})
    BY <1>1, <1>2, <1>3, <2>1, <2>2, DropTypes DEF Types, TypeOK, threads
  <2>3. CASE closing' = [closing EXCEPT ![s] = TRUE]
               /\ UNCHANGED <<loop, queued, tail, pending, history>>
    <3>1. closing' \in [Slots -> BOOLEAN]
      BY <2>3 DEF Types, TypeOK
    <3>2. \A r \in Slots : ~live[r] => ~closing'[r]
      BY <1>2, <2>3 DEF Types, TypeOK
    <3>. QED
      BY <1>1, <1>2, <1>3, <2>1, <2>3, <3>1, <3>2
         DEF Types, TypeOK, loop, history, threads
  <2>. QED
    BY <1>5, <2>2, <2>3, Zenon DEF TakeEnd
<1>. QED
  BY <1>1, <1>4, <1>5

LEMMA ReapTypes == ASSUME Types, Reap PROVE Types'
<1>1. PICK late \in SUBSET {s \in Slots : Idle(s)} :
        drop(late \cup {s \in Slots : live[s] /\ closing[s] /\ pending[s] = 0})
  BY DEF Reap
<1>2. late \cup {s \in Slots : live[s] /\ closing[s] /\ pending[s] = 0} \in SUBSET Slots
  OBVIOUS
<1>3. /\ UNCHANGED <<next_engine, jobs, results, threads, upset>>
      /\ pc' \in {"events", "join"} /\ stop' \in BOOLEAN
  BY DEF Reap, Goto, Types
<1>. QED
  BY <1>1, <1>2, <1>3, DropTypes DEF Types, TypeOK, threads

LEMMA JoinTypes == ASSUME Types, Join PROVE Types'
<1>1. drop({s \in Slots : live[s]}) /\ {s \in Slots : live[s]} \in SUBSET Slots
  BY DEF Join
<1>. QED
  BY <1>1, DropTypes DEF Types, TypeOK, Join, Goto, mailbox, threads

LEMMA TakeJobTypes == ASSUME Types, NEW t \in Threads, TakeJob(t) PROVE Types'
<1>1. PICK i \in NextJob(t) :
        busy' = [busy EXCEPT ![t] = jobs[i]] /\ jobs' = RemoveAt(jobs, i)
  BY DEF TakeJob, RemoveAt
<1>2. /\ i \in 1 .. Len(jobs) /\ jobs[i].thread = t /\ jobs[i] \in JobSet
      /\ jobs \in Seq(JobSet) /\ Len(jobs) \in Nat
  BY ElementOfSeq, LenProperties DEF NextJob, Types
<1>3. jobs' \in Seq(JobSet) /\ Len(jobs') = Len(jobs) - 1
  BY <1>1, <1>2, RemoveFacts
<1>4. Len(jobs') <= MAILBOX_CAP
  BY <1>2, <1>3, LoopAssumption DEF Types, TypeOK
<1>5. /\ busy' \in [Threads -> JobSet \cup {NoJob}]
      /\ \A u \in Threads : busy'[u] # NoJob => busy'[u].thread = u
  BY <1>1, <1>2 DEF Types
<1>6. UNCHANGED <<loop, next_engine, pc, at, conns, results, stop, looked, exited,
                  phase, history, upset>>
  BY DEF TakeJob
<1>. QED
  BY <1>3, <1>4, <1>5, <1>6 DEF Types, TypeOK, loop, conns, history

\* What a thread answers: a result of the job it has, and its stream.
LEMMA RunResult ==
    ASSUME Types, NEW t \in Threads, RunJob(t)
    PROVE  /\ busy[t] \in JobSet /\ busy[t] # NoJob /\ busy[t].thread = t
           /\ busy' = [busy EXCEPT ![t] = NoJob]
           /\ \E r \in ResultSet :
                /\ results' = Append(results, r)
                /\ r.slot = busy[t].slot /\ r.gen = busy[t].gen
                /\ r.cid = busy[t].cid /\ r.number = busy[t].number
                /\ r.close => r.kind = RES_DONE
                /\ \/ /\ busy[t].kind = JOB_REQUEST
                      /\ \/ r.kind = RES_DONE /\ UNCHANGED phase
                         \/ /\ r.kind = RES_STREAM_HEAD
                            /\ phase' = [phase EXCEPT ![t][busy[t].slot] =
                                 [cid |-> r.cid, number |-> r.number, left |-> r.left]]
                   \/ LET held == phase[t][busy[t].slot]
                      IN  /\ busy[t].kind = JOB_STREAM_STEP
                          /\ \/ /\ held.left = r.left + 1 /\ r.kind = RES_BYTES
                                /\ phase' = [phase EXCEPT ![t][busy[t].slot] =
                                     [cid |-> held.cid, number |-> held.number,
                                      left |-> r.left]]
                             \/ /\ held.left = 0 /\ r.kind = RES_DONE
                                /\ phase' = [phase EXCEPT ![t][busy[t].slot] = NoStream]
<1>1. /\ busy[t] # NoJob /\ busy[t] \in JobSet /\ busy[t].thread = t
      /\ busy' = [busy EXCEPT ![t] = NoJob]
  BY DEF RunJob, Types
<1>. DEFINE job == busy[t]
            held == phase[t][job.slot]
<1>2. /\ job.slot \in Slots /\ held \in [cid : Nat, number : Nat, left : Nat]
      /\ job.kind \in {JOB_REQUEST, JOB_STREAM_STEP}
  BY <1>1 DEF JobSet, Types
<1>3. CASE job.kind = JOB_REQUEST
  <2>1. Answer(t)
    BY <1>3 DEF RunJob
  <2>2. ASSUME NEW close \in BOOLEAN, UNCHANGED phase,
               results' = Append(results, Result(job, RES_DONE, close, 2, 0))
        PROVE  \E r \in ResultSet :
                /\ results' = Append(results, r)
                /\ r.slot = job.slot /\ r.gen = job.gen
                /\ r.cid = job.cid /\ r.number = job.number
                /\ r.kind = RES_DONE
    <3>. DEFINE r == Result(job, RES_DONE, close, 2, 0)
    <3>1. r \in ResultSet
      BY <1>1, ResultTyped
    <3>2. /\ r.slot = job.slot /\ r.gen = job.gen /\ r.cid = job.cid
          /\ r.number = job.number /\ r.kind = RES_DONE
      BY DEF Result
    <3>. QED
      BY <2>2, <3>1, <3>2
  <2>3. ASSUME NEW n \in FRAMES,
               results' = Append(results, Result(job, RES_STREAM_HEAD, FALSE, 1, n)),
               phase' = [phase EXCEPT ![t][job.slot] =
                           [cid |-> job.cid, number |-> job.number, left |-> n]]
        PROVE  \E r \in ResultSet :
                /\ results' = Append(results, r)
                /\ r.slot = job.slot /\ r.gen = job.gen
                /\ r.cid = job.cid /\ r.number = job.number
                /\ r.kind = RES_STREAM_HEAD /\ ~r.close
                /\ phase' = [phase EXCEPT ![t][job.slot] =
                               [cid |-> r.cid, number |-> r.number, left |-> r.left]]
    <3>. DEFINE r == Result(job, RES_STREAM_HEAD, FALSE, 1, n)
    <3>1. r \in ResultSet
      <4>1. FALSE \in BOOLEAN /\ 1 \in 0 .. 2 /\ n \in Nat
        BY LoopAssumption
      <4>. QED
        BY <1>1, <4>1, ResultTyped
    <3>2. /\ r.slot = job.slot /\ r.gen = job.gen /\ r.cid = job.cid
          /\ r.number = job.number /\ r.kind = RES_STREAM_HEAD /\ r.left = n /\ ~r.close
      BY DEF Result
    <3>. HIDE DEF r
    <3>3. phase' = [phase EXCEPT ![t][job.slot] =
                      [cid |-> r.cid, number |-> r.number, left |-> r.left]]
      BY <2>3, <3>2
    <3>4. results' = Append(results, r)
      BY <2>3 DEF r
    <3>. QED
      BY <3>1, <3>2, <3>3, <3>4
  <2>. QED
    BY <1>1, <1>3, <2>1, <2>2, <2>3 DEF Answer
<1>4. CASE job.kind = JOB_STREAM_STEP
  <2>1. StreamStep(t)
    BY <1>4 DEF RunJob, JOB_REQUEST, JOB_STREAM_STEP
  <2>2. CASE held.left > 0
    <3>. DEFINE r == Result(job, RES_BYTES, FALSE, 1, held.left - 1)
    <3>1. r \in ResultSet
      <4>1. FALSE \in BOOLEAN /\ 1 \in 0 .. 2 /\ held.left - 1 \in Nat
        BY <1>2, <2>2
      <4>. QED
        BY <1>1, <4>1, ResultTyped
    <3>2. /\ r.slot = job.slot /\ r.gen = job.gen /\ r.cid = job.cid
          /\ r.number = job.number /\ r.kind = RES_BYTES /\ r.left = held.left - 1
          /\ ~r.close
      BY DEF Result
    <3>3. /\ results' = Append(results, r)
          /\ phase' = [phase EXCEPT ![t][job.slot] =
               [cid |-> held.cid, number |-> held.number, left |-> r.left]]
      BY <2>1, <2>2, <3>2 DEF StreamStep
    <3>4. held.left = r.left + 1
      <4>1. held.left \in Nat
        BY <1>2
      <4>. HIDE DEF held, r
      <4>. QED
        BY <3>2, <4>1
    <3>. HIDE DEF r
    <3>. QED
      BY <1>1, <1>4, <3>1, <3>2, <3>3, <3>4
  <2>3. CASE ~(held.left > 0)
    <3>. DEFINE r == Result(job, RES_DONE, TRUE, 0, 0)
    <3>1. r \in ResultSet
      <4>1. TRUE \in BOOLEAN /\ 0 \in 0 .. 2 /\ 0 \in Nat
        OBVIOUS
      <4>. QED
        BY <1>1, <4>1, ResultTyped
    <3>2. /\ r.slot = job.slot /\ r.gen = job.gen /\ r.cid = job.cid
          /\ r.number = job.number /\ r.kind = RES_DONE
      BY DEF Result
    <3>3. /\ results' = Append(results, r)
          /\ phase' = [phase EXCEPT ![t][job.slot] = NoStream]
      BY <2>1, <2>3 DEF StreamStep
    <3>4. held.left = 0
      BY <1>2, <2>3
    <3>. HIDE DEF r
    <3>. QED
      BY <1>1, <1>4, <3>1, <3>2, <3>3, <3>4
  <2>. QED
    BY <2>2, <2>3
<1>. QED
  BY <1>2, <1>3, <1>4

LEMMA RunJobTypes == ASSUME Types, NEW t \in Threads, RunJob(t) PROVE Types'
<1>1. PICK r \in ResultSet :
        /\ results' = Append(results, r)
        /\ \/ UNCHANGED phase
           \/ phase' = [phase EXCEPT ![t][busy[t].slot] =
                          [cid |-> r.cid, number |-> r.number, left |-> r.left]]
           \/ phase' = [phase EXCEPT ![t][busy[t].slot] =
                          [cid |-> phase[t][busy[t].slot].cid,
                           number |-> phase[t][busy[t].slot].number, left |-> r.left]]
           \/ phase' = [phase EXCEPT ![t][busy[t].slot] = NoStream]
  BY RunResult, Zenon
<1>2. /\ busy[t] \in JobSet /\ busy[t].slot \in Slots
      /\ busy' = [busy EXCEPT ![t] = NoJob]
  BY RunResult DEF JobSet
<1>3. phase' \in [Threads -> [Slots -> [cid : Nat, number : Nat, left : Nat]]]
  <2>1. phase \in [Threads -> [Slots -> [cid : Nat, number : Nat, left : Nat]]]
    BY DEF Types
  <2>2. /\ [cid |-> r.cid, number |-> r.number, left |-> r.left]
             \in [cid : Nat, number : Nat, left : Nat]
        /\ NoStream \in [cid : Nat, number : Nat, left : Nat]
        /\ [cid |-> phase[t][busy[t].slot].cid,
            number |-> phase[t][busy[t].slot].number, left |-> r.left]
             \in [cid : Nat, number : Nat, left : Nat]
    BY <1>2, <2>1 DEF ResultSet, NoStream
  <2>3. ASSUME NEW v \in [cid : Nat, number : Nat, left : Nat],
               phase' = [phase EXCEPT ![t][busy[t].slot] = v]
        PROVE  phase' \in [Threads -> [Slots -> [cid : Nat, number : Nat, left : Nat]]]
    BY <1>2, <2>1, <2>3
  <2>. QED
    BY <1>1, <2>1, <2>2, <2>3
<1>4. results' \in Seq(ResultSet)
  BY <1>1, AppendProperties DEF Types
<1>5. /\ busy' \in [Threads -> JobSet \cup {NoJob}]
      /\ \A u \in Threads : busy'[u] # NoJob => busy'[u].thread = u
  BY <1>2 DEF Types
<1>6. UNCHANGED <<loop, next_engine, pc, at, conns, jobs, stop, looked, exited, history,
                  upset>>
  BY DEF RunJob
<1>. QED
  BY <1>3, <1>4, <1>5, <1>6 DEF Types, TypeOK, loop, conns, history

LEMMA TypesStep == ASSUME Types, NoneOfElders, [Next]_vars PROVE Types'
<1>1. CASE UNCHANGED vars
  BY <1>1 DEF vars, loop, conns, mailbox, threads, history, Types, TypeOK
<1>2. CASE Polled
  BY <1>2 DEF Polled, Goto, loop, conns, mailbox, threads, history, Types, TypeOK
<1>3. CASE DispatchRoom
  <2>1. at' \in Nat /\ pc' = "requests"
    BY <1>3, LoopAssumption DEF DispatchRoom, Goto
  <2>. QED
    BY <1>3, <2>1 DEF DispatchRoom, loop, conns, mailbox, threads, history, Types, TypeOK
<1>4. ASSUME NEW t \in Threads, FindNone(t) \/ AskStop(t) PROVE Types'
  <2>1. looked' \in [Threads -> BOOLEAN] /\ exited' \in [Threads -> BOOLEAN]
    BY <1>4 DEF FindNone, AskStop, Types
  <2>2. UNCHANGED <<loop, next_engine, pc, at, conns, jobs, results, stop, busy, phase,
                    history>>
    BY <1>4 DEF FindNone, AskStop, mailbox
  <2>. QED
    BY <2>1, <2>2 DEF loop, conns, history, Types, TypeOK
<1>. QED
  BY <1>1, <1>2, <1>3, <1>4, AcceptTypes, ReceiveTypes, FlushTypes, ResetTypes,
     CollectTypes, DispatchStreamTypes, DispatchRequestTypes, ReapTypes, JoinTypes,
     TakeJobTypes, RunJobTypes, Zenon DEF Next, Loop, Engine, Ended
-----------------------------------------------------------------------------
(* What a step does to connections and pieces: one of eight things.        *)

slots == <<live, gen, owner, cid, number, last, accepted>>

\* Nothing, but for a connection that is to be closed.
Rests ==
    /\ UNCHANGED <<slots, inflight, streaming, jobs, results, busy, phase>>
    /\ upset \subseteq upset'
    /\ \A s \in Slots : closing'[s] # closing[s] =>
         closing'[s] /\ live[s] /\ ~inflight[s] /\ (streaming[s] => cid[s] \in upset')

\* Connections go, and with them perhaps the result of one of them.
Drops(S) ==
    /\ S \subseteq {s \in Slots : live[s]} /\ drop(S)
    /\ UNCHANGED <<jobs, busy, phase>> /\ upset \subseteq upset'
    /\ \/ UNCHANGED results
       \/ /\ results # <<>> /\ results' = Tail(results)
          /\ Head(results).slot \in S

\* A result of an earlier owner of the slot goes.
Loses ==
    /\ results # <<>> /\ results' = Tail(results)
    /\ LET s == Head(results).slot
       IN  /\ ~live[s] \/ Head(results).gen # gen[s]
           /\ \/ UNCHANGED inflight
              \/ /\ live[s] /\ inflight' = [inflight EXCEPT ![s] = FALSE]
                 /\ inflight[s] => cid[s] \in upset'
    /\ UNCHANGED <<slots, streaming, closing, jobs, busy, phase>>
    /\ upset \subseteq upset'

Delivers(s, res) ==
    /\ live[s] /\ res.slot = s /\ res.gen = gen[s] /\ Deliver(s, res)
    /\ results # <<>> /\ res = Head(results) /\ results' = Tail(results)
    /\ UNCHANGED <<jobs, busy, phase, upset>>

SendsStep(s) ==
    /\ live[s] /\ streaming[s] /\ ~inflight[s]
    /\ jobs' = Append(jobs, Job(s, JOB_STREAM_STEP, owner[s], number[s]))
    /\ inflight' = [inflight EXCEPT ![s] = TRUE]
    /\ UNCHANGED <<slots, streaming, closing, results, busy, phase, upset>>

SendsRequest(s) ==
    /\ live[s] /\ ~inflight[s] /\ TakeRequest(s)
    /\ UNCHANGED <<results, busy, phase>>
    /\ upset' = IF OutOfTurn(s) THEN upset \cup {cid[s]} ELSE upset

LEMMA CollectIs ==
    ASSUME Types, Collect
    PROVE  \/ Rests \/ Loses
           \/ \E s \in Slots : Drops({s})
           \/ \E s \in Slots, res \in ResultSet : Delivers(s, res)
<1>1. /\ UNCHANGED <<jobs, busy, phase>> /\ upset \subseteq upset'
      /\ upset' = IF MarkLost THEN upset \cup {cid[Head(results).slot]} ELSE upset
  BY DEF Collect, threads
<1>2. CASE results = <<>>
  <2>1. UNCHANGED <<loop, conns, results, history>>
    BY <1>2 DEF Collect
  <2>. QED
    BY <1>1, <2>1 DEF Rests, slots, loop, conns, history
<1>3. CASE results # <<>>
  <2>. DEFINE res == Head(results)
              s == res.slot
  <2>1. res \in ResultSet /\ s \in Slots
    BY <1>3, ReceiveMoves, HeadTailProperties DEF Types, ResultSet
  <2>2. \/ /\ ~live[s] /\ results' = Tail(results) /\ UNCHANGED <<loop, conns, history>>
        \/ UNCHANGED <<loop, conns, results, history>>
        \/ /\ live[s] /\ ~backpressure(s) /\ results' = Tail(results)
           /\ \/ ~Mine(res) /\ Discard(s)
              \/ drop({s})
              \/ Mine(res) /\ Deliver(s, res)
    BY <1>3, Zenon DEF Collect
  <2>3. ASSUME ~live[s], results' = Tail(results), UNCHANGED <<loop, conns, history>>
        PROVE  Loses
    BY <1>1, <1>3, <2>3 DEF Loses, slots, loop, conns, history
  <2>4. CASE UNCHANGED <<loop, conns, results, history>>
    BY <1>1, <2>4 DEF Rests, slots, loop, conns, history
  <2>5. ASSUME live[s], ~backpressure(s), results' = Tail(results), ~Mine(res), Discard(s)
        PROVE  Loses
    <3>1. inflight[s] => cid[s] \in upset'
      BY <1>1, <1>3, <2>5 DEF MarkLost, Mine
    <3>2. UNCHANGED <<live, gen, streaming, owner, conns, history>>
          /\ inflight' = [inflight EXCEPT ![s] = FALSE]
      BY <2>5 DEF Discard, Unmark
    <3>. QED
      BY <1>1, <1>3, <2>5, <3>1, <3>2 DEF Loses, slots, conns, history, Mine
  <2>6. ASSUME live[s], results' = Tail(results), drop({s})
        PROVE  Drops({s})
    BY <1>1, <1>3, <2>1, <2>6 DEF Drops
  <2>7. ASSUME live[s], results' = Tail(results), Mine(res), Deliver(s, res)
        PROVE  Delivers(s, res)
    <3>1. upset' = upset
      BY <1>1, <2>7 DEF MarkLost, Mine
    <3>. QED
      BY <1>1, <1>3, <2>1, <2>7, <3>1 DEF Delivers, Mine
  <2>. QED
    BY <2>1, <2>2, <2>3, <2>4, <2>5, <2>6, <2>7, Zenon
<1>. QED
  BY <1>2, <1>3

LEMMA DispatchStreamIs ==
    ASSUME Types, DispatchStream
    PROVE  Rests \/ \E s \in Slots : SendsStep(s)
<1>1. PICK s \in Reaches(StreamsDue) :
        IF HasRoom
        THEN /\ jobs' = Append(jobs, Job(s, JOB_STREAM_STEP, owner[s], number[s]))
             /\ inflight' = [inflight EXCEPT ![s] = TRUE]
        ELSE UNCHANGED <<jobs, inflight>>
  BY DEF DispatchStream, Push
<1>2. s \in Slots /\ live[s] /\ streaming[s] /\ ~inflight[s]
  BY DEF Reaches, Ahead, StreamsDue, MayDispatch
<1>3. UNCHANGED <<slots, streaming, conns, results, busy, phase, upset>>
  BY DEF DispatchStream, slots, threads, history
<1>4. CASE HasRoom
  BY <1>1, <1>2, <1>3, <1>4 DEF SendsStep, conns
<1>5. CASE ~HasRoom
  BY <1>1, <1>3, <1>5 DEF Rests, conns
<1>. QED
  BY <1>4, <1>5

LEMMA DispatchRequestIs ==
    ASSUME Types, DispatchRequest
    PROVE  Rests \/ \E s \in Slots : SendsRequest(s) \/ Drops({s})
<1>1. PICK s \in Reaches(RequestsDue) :
        /\ TakeRequest(s) \/ TakeEnd(s)
        /\ upset' = IF OutOfTurn(s) THEN upset \cup {cid[s]} ELSE upset
  BY DEF DispatchRequest
<1>2. s \in Slots /\ live[s] /\ ~inflight[s]
  BY DEF Reaches, Ahead, RequestsDue, MayDispatch
<1>3. UNCHANGED <<results, busy, phase>> /\ upset \subseteq upset'
  BY <1>1 DEF DispatchRequest, threads
<1>4. CASE TakeRequest(s)
  BY <1>1, <1>2, <1>3, <1>4 DEF SendsRequest
<1>5. CASE TakeEnd(s)
  <2>1. CASE drop({s})
    BY <1>2, <1>3, <1>5, <2>1 DEF Drops, TakeEnd
  <2>2. CASE closing' = [closing EXCEPT ![s] = TRUE]
               /\ UNCHANGED <<loop, queued, tail, pending, history>>
    <3>1. streaming[s] => cid[s] \in upset'
      BY <1>1 DEF OutOfTurn
    <3>2. \A r \in Slots : closing'[r] # closing[r] => r = s /\ closing'[r]
      BY <2>2 DEF Types, TypeOK
    <3>3. UNCHANGED <<slots, inflight, streaming, jobs>>
      BY <1>5, <2>2 DEF TakeEnd, slots, loop, history
    <3>. QED
      BY <1>2, <1>3, <3>1, <3>2, <3>3 DEF Rests
  <2>. QED
    BY <1>5, <2>1, <2>2, Zenon DEF TakeEnd
<1>. QED
  BY <1>1, <1>2, <1>4, <1>5

LEMMA StepIs ==
    ASSUME Types, [Next]_vars
    PROVE  \/ Rests \/ Loses \/ Accept
           \/ \E S \in SUBSET Slots : Drops(S)
           \/ \E s \in Slots, res \in ResultSet : Delivers(s, res)
           \/ \E s \in Slots : SendsStep(s) \/ SendsRequest(s)
           \/ \E t \in Threads : TakeJob(t) \/ RunJob(t)
<1>. USE DEF loop, conns, mailbox, threads, history
<1>1. CASE UNCHANGED vars
  BY <1>1 DEF vars, Rests, slots
<1>2. CASE Polled
  BY <1>2 DEF Polled, Rests, slots
<1>3. CASE DispatchRoom
  BY <1>3 DEF DispatchRoom, Rests, slots
<1>4. ASSUME NEW t \in Threads, FindNone(t) \/ AskStop(t) PROVE Rests
  BY <1>4 DEF FindNone, AskStop, Rests, slots
<1>5. ASSUME NEW s \in Slots, Receive(s) PROVE Rests
  <2>1. CASE ReceiveRequest(s)
    BY <1>5, <2>1 DEF Receive, ReceiveRequest, Rests, slots
  <2>2. CASE ReceiveEnd(s)
    BY <1>5, <2>2 DEF Receive, ReceiveEnd, Rests, slots
  <2>. QED
    BY <1>5, <2>1, <2>2 DEF Receive
<1>6. ASSUME NEW s \in Slots, Flush(s) PROVE Rests
  BY <1>6 DEF Flush, Rests, slots
<1>7. ASSUME NEW s \in Slots, Reset(s) PROVE Drops({s})
  BY <1>7 DEF Reset, Drops
<1>8. ASSUME Reap PROVE \E S \in SUBSET Slots : Drops(S)
  <2>1. PICK late \in SUBSET {s \in Slots : Idle(s)} :
          drop(late \cup {s \in Slots : live[s] /\ closing[s] /\ pending[s] = 0})
    BY <1>8 DEF Reap
  <2>. DEFINE S == late \cup {s \in Slots : live[s] /\ closing[s] /\ pending[s] = 0}
  <2>2. S \subseteq {s \in Slots : live[s]}
    BY DEF Idle
  <2>3. UNCHANGED <<jobs, results, busy, phase, upset>>
    BY <1>8 DEF Reap
  <2>4. Drops(S)
    BY <2>1, <2>2, <2>3 DEF Drops
  <2>. QED
    BY <2>2, <2>4
<1>9. ASSUME Join PROVE \E S \in SUBSET Slots : Drops(S)
  <2>1. Drops({s \in Slots : live[s]})
    BY <1>9 DEF Join, Drops
  <2>. QED
    BY <2>1
<1>10. ASSUME NEW s \in Slots, Drops({s}) PROVE \E S \in SUBSET Slots : Drops(S)
  BY <1>10
<1>. QED
  BY <1>1, <1>2, <1>3, <1>4, <1>5, <1>6, <1>7, <1>8, <1>9, <1>10, CollectIs,
     DispatchStreamIs, DispatchRequestIs, Zenon DEF Next, Loop, Engine, Ended

\* How these move the pieces.
LEMMA SamePieces ==
    ASSUME UNCHANGED <<jobs, results, busy>>
    PROVE  Work' = Work /\ Said' = Said /\ \A c : Outstanding(c)' = Outstanding(c)
BY DEF Work, Said, Outstanding

LEMMA PutPieces ==
    ASSUME Types, NEW w \in JobSet, jobs' = Append(jobs, w), UNCHANGED <<results, busy>>
    PROVE  /\ Work' = Work \cup {w} /\ Said' = Said
           /\ \A c \in Nat \ {0} :
                Outstanding(c)' = Outstanding(c) + IF w.cid = c THEN 1 ELSE 0
<1>1. /\ jobs \in Seq(JobSet) /\ results \in Seq(ResultSet)
      /\ busy \in [Threads -> JobSet \cup {NoJob}]
  BY DEF Types
<1>2. /\ Work' = WorkOf(Append(jobs, w), busy) /\ Said' = SaidOf(results)
      /\ \A c : Outstanding(c)' = CountOf(Append(jobs, w), results, busy, c)
  BY StateIsOfNext
<1>. QED
  BY <1>1, <1>2, PutMoves, StateIsOf

LEMMA TakePieces ==
    ASSUME Types, NEW t \in Threads, TakeJob(t)
    PROVE  /\ Work' = Work /\ Said' = Said
           /\ \A c \in Nat \ {0} : Outstanding(c)' = Outstanding(c)
           /\ \E i \in NextJob(t) :
                /\ i \in 1 .. Len(jobs)
                /\ busy' = [busy EXCEPT ![t] = jobs[i]] /\ jobs' = RemoveAt(jobs, i)
<1>1. PICK i \in NextJob(t) :
        busy' = [busy EXCEPT ![t] = jobs[i]] /\ jobs' = RemoveAt(jobs, i)
  BY DEF TakeJob, RemoveAt
<1>2. /\ jobs \in Seq(JobSet) /\ results \in Seq(ResultSet)
      /\ busy \in [Threads -> JobSet \cup {NoJob}] /\ busy[t] = NoJob
      /\ results' = results
  BY DEF Types, TakeJob, Ready
<1>3. i \in 1 .. Len(jobs)
  BY <1>2, LenProperties DEF NextJob
<1>4. /\ Work' = WorkOf(RemoveAt(jobs, i), [busy EXCEPT ![t] = jobs[i]])
      /\ Said' = SaidOf(results)
      /\ \A c : Outstanding(c)' =
           CountOf(RemoveAt(jobs, i), results, [busy EXCEPT ![t] = jobs[i]], c)
  BY <1>1, <1>2, StateIsOfNext
<1>5. /\ WorkOf(RemoveAt(jobs, i), [busy EXCEPT ![t] = jobs[i]]) = WorkOf(jobs, busy)
      /\ Even(RemoveAt(jobs, i), results, [busy EXCEPT ![t] = jobs[i]],
              jobs, results, busy)
  BY <1>2, <1>3, TakeMoves, Zenon
<1>. QED
  BY <1>1, <1>3, <1>4, <1>5, StateIsOf DEF Even

LEMMA RunPieces ==
    ASSUME Types, NEW t \in Threads, RunJob(t), NEW r \in ResultSet,
           results' = Append(results, r), r.cid = busy[t].cid
    PROVE  /\ Work' \subseteq Work /\ busy[t] \in Work /\ Said' = Said \cup {r}
           /\ \A c \in Nat \ {0} : Outstanding(c)' = Outstanding(c)
<1>1. /\ jobs \in Seq(JobSet) /\ results \in Seq(ResultSet)
      /\ busy \in [Threads -> JobSet \cup {NoJob}] /\ busy[t] # NoJob
      /\ jobs' = jobs /\ busy' = [busy EXCEPT ![t] = NoJob]
  BY DEF Types, RunJob
<1>2. /\ Work' = WorkOf(jobs, [busy EXCEPT ![t] = NoJob])
      /\ Said' = SaidOf(Append(results, r))
      /\ \A c : Outstanding(c)' =
           CountOf(jobs, Append(results, r), [busy EXCEPT ![t] = NoJob], c)
  BY <1>1, StateIsOfNext
<1>3. /\ WorkOf(jobs, [busy EXCEPT ![t] = NoJob]) \subseteq WorkOf(jobs, busy)
      /\ busy[t] \in WorkOf(jobs, busy)
      /\ SaidOf(Append(results, r)) = SaidOf(results) \cup {r}
      /\ Even(jobs, Append(results, r), [busy EXCEPT ![t] = NoJob],
              jobs, results, busy)
  BY <1>1, RunMoves, Zenon
<1>. QED
  BY <1>2, <1>3, StateIsOf DEF Even

LEMMA ReceivePieces ==
    ASSUME Types, results # <<>>, results' = Tail(results), UNCHANGED <<jobs, busy>>
    PROVE  /\ Work' = Work /\ Said = Said' \cup {Head(results)}
           /\ Head(results) \in ResultSet
           /\ \A c \in Nat \ {0} : Outstanding(c)' =
                Outstanding(c) - IF Head(results).cid = c THEN 1 ELSE 0
<1>1. /\ jobs \in Seq(JobSet) /\ results \in Seq(ResultSet)
      /\ busy \in [Threads -> JobSet \cup {NoJob}]
  BY DEF Types
<1>2. /\ Work' = WorkOf(jobs, busy) /\ Said' = SaidOf(Tail(results))
      /\ \A c : Outstanding(c)' = CountOf(jobs, Tail(results), busy, c)
  BY StateIsOfNext
<1>3. /\ SaidOf(results) = SaidOf(Tail(results)) \cup {Head(results)}
      /\ Head(results) \in ResultSet
      /\ \A c \in Nat \ {0} : CountOf(jobs, Tail(results), busy, c)
           = CountOf(jobs, results, busy, c) - IF Head(results).cid = c THEN 1 ELSE 0
  BY <1>1, ReceiveMoves
<1>. QED
  BY <1>2, <1>3, StateIsOf

LEMMA DropPieces ==
    ASSUME Types, NEW S, Drops(S)
    PROVE  /\ Work' = Work /\ Said' \subseteq Said
           /\ \A r \in Said \ Said' : r.slot \in S
           /\ \A c \in Nat \ {0} :
                \/ Outstanding(c)' = Outstanding(c)
                \/ Head(results) \in Said /\ Head(results).slot \in S
                   /\ Head(results).cid = c
<1>1. CASE UNCHANGED results
  BY <1>1, SamePieces DEF Drops
<1>2. CASE ~UNCHANGED results
  <2>1. /\ results # <<>> /\ results' = Tail(results) /\ UNCHANGED <<jobs, busy>>
        /\ Head(results).slot \in S
    BY <1>2 DEF Drops
  <2>2. \A c \in Nat \ {0} : Outstanding(c) \in Nat
    BY NoneOutstanding, StateIsOf DEF Types
  <2>. QED
    BY <2>1, <2>2, ReceivePieces
<1>. QED
  BY <1>1, <1>2

LEMMA PiecesTyped ==
    ASSUME Types
    PROVE  /\ \A w \in Work : w \in JobSet /\ w.slot \in Slots /\ w.gen \in Nat
                                /\ w.cid \in Nat /\ w.thread \in Threads
           /\ \A r \in Said : r \in ResultSet /\ r.slot \in Slots /\ r.gen \in Nat
                                /\ r.cid \in Nat
<1>1. \A w \in Work : w \in JobSet
  BY ElementOfSeq, LenProperties DEF Types, Work
<1>2. \A r \in Said : r \in ResultSet
  BY ElementOfSeq, LenProperties DEF Types, Said
<1>. QED
  BY <1>1, <1>2 DEF JobSet, ResultSet

\* What is outstanding of a connection, and what that means.
LEMMA OutstandingFacts ==
    ASSUME Types, NEW c \in Nat \ {0}
    PROVE  /\ Outstanding(c) \in Nat
           /\ Outstanding(c) = 0 <=> /\ \A w \in Work : w.cid # c
                                     /\ \A r \in Said : r.cid # c
<1>1. /\ jobs \in Seq(JobSet) /\ results \in Seq(ResultSet)
      /\ busy \in [Threads -> JobSet \cup {NoJob}]
  BY DEF Types
<1>2. /\ CountOf(jobs, results, busy, c) \in Nat
      /\ CountOf(jobs, results, busy, c) = 0 <=> Absent(jobs, results, busy, c)
  BY <1>1, NoneOutstanding
<1>. QED
  BY <1>2, StateIsOf, Zenon DEF Absent

LEMMA DropFacts ==
    ASSUME Types, NEW S \in SUBSET Slots, drop(S)
    PROVE  /\ accepted' = accepted
           /\ \A s \in S : /\ ~live'[s] /\ gen'[s] = gen[s] + 1 /\ last'[s] = Nothing
                           /\ number'[s] = 0 /\ ~streaming'[s] /\ ~inflight'[s]
                           /\ ~closing'[s]
           /\ \A s \in Slots \ S :
                /\ live'[s] = live[s] /\ gen'[s] = gen[s] /\ last'[s] = last[s]
                /\ number'[s] = number[s] /\ streaming'[s] = streaming[s]
                /\ inflight'[s] = inflight[s] /\ cid'[s] = cid[s]
                /\ owner'[s] = owner[s] /\ closing'[s] = closing[s]
<1>1. accepted' = accepted
  BY DEF drop
<1>2. \A s \in S : /\ ~live'[s] /\ gen'[s] = gen[s] + 1 /\ last'[s] = Nothing
                   /\ number'[s] = 0 /\ ~streaming'[s] /\ ~inflight'[s]
                   /\ ~closing'[s]
  BY DEF drop, On, Bumped
<1>3. \A s \in Slots \ S :
        /\ live'[s] = live[s] /\ gen'[s] = gen[s] /\ last'[s] = last[s]
        /\ number'[s] = number[s] /\ streaming'[s] = streaming[s]
        /\ inflight'[s] = inflight[s] /\ cid'[s] = cid[s]
        /\ owner'[s] = owner[s] /\ closing'[s] = closing[s]
  BY DEF drop, On, Bumped
<1>. QED
  BY <1>1, <1>2, <1>3

LEMMA AcceptFacts ==
    ASSUME Types, Accept
    PROVE  /\ accepted' = accepted + 1
           /\ UNCHANGED <<gen, inflight, streaming, owner, closing, jobs, results, busy,
                          phase, number, last, upset>>
           /\ \E s \in Slots :
                /\ ~live[s] /\ live'[s] /\ cid'[s] = accepted + 1
                /\ \A r \in Slots \ {s} : live'[r] = live[r] /\ cid'[r] = cid[r]
<1>1. PICK s \in Slots : /\ ~live[s] /\ live' = [live EXCEPT ![s] = TRUE]
                         /\ cid' = [cid EXCEPT ![s] = accepted + 1]
  BY DEF Accept
<1>2. /\ ~live[s] /\ live'[s] /\ cid'[s] = accepted + 1
      /\ \A r \in Slots \ {s} : live'[r] = live[r] /\ cid'[r] = cid[r]
  BY <1>1 DEF Types, TypeOK
<1>. QED
  BY <1>2 DEF Accept, conns, mailbox, threads
-----------------------------------------------------------------------------
(* Names                                                                   *)

LEMMA NamedStep ==
    ASSUME Types, Named, AllKnown, [Next]_vars
    PROVE  Named'
<1>1. ASSUME UNCHANGED slots PROVE Named'
  BY <1>1 DEF slots, Named
<1>2. CASE Accept
  <2>1. PICK s \in Slots :
          /\ ~live[s] /\ live'[s] /\ cid'[s] = accepted + 1
          /\ \A r \in Slots \ {s} : live'[r] = live[r] /\ cid'[r] = cid[r]
    BY <1>2, AcceptFacts
  <2>2. accepted' = accepted + 1 /\ UNCHANGED <<number, last>> /\ accepted \in Nat
    BY <1>2, AcceptFacts DEF Types
  <2>. QED
    BY <2>1, <2>2 DEF Named
<1>3. ASSUME NEW S \in SUBSET Slots, drop(S) PROVE Named'
  BY <1>3, DropFacts DEF Named
<1>4. ASSUME NEW s \in Slots, NEW res \in ResultSet, Delivers(s, res) PROVE Named'
  <2>1. res.cid = cid[s] /\ live[s]
    BY <1>4, ReceivePieces DEF Delivers, AllKnown, Known
  <2>2. UNCHANGED <<live, cid, accepted, number>>
    BY <1>4 DEF Delivers, Deliver
  <2>3. /\ last'[s].cid = res.cid
        /\ \A r \in Slots \ {s} : last'[r] = last[r]
    BY <1>4 DEF Delivers, Deliver, Types
  <2>. QED
    BY <2>1, <2>2, <2>3 DEF Named
<1>5. ASSUME NEW s \in Slots, SendsRequest(s) PROVE Named'
  <2>1. UNCHANGED <<live, cid, accepted, last>> /\ live[s]
        /\ number' = [number EXCEPT ![s] = @ + 1]
    BY <1>5 DEF SendsRequest, TakeRequest
  <2>2. \A r \in Slots : ~live[r] => number'[r] = number[r]
    BY <2>1 DEF Types
  <2>. QED
    BY <2>1, <2>2 DEF Named
<1>6. ASSUME Rests \/ Loses \/ (\E s \in Slots : SendsStep(s))
             \/ (\E t \in Threads : TakeJob(t) \/ RunJob(t))
      PROVE  UNCHANGED slots
  BY <1>6 DEF Rests, Loses, SendsStep, TakeJob, RunJob, slots, loop, history
<1>. QED
  BY <1>1, <1>2, <1>3, <1>4, <1>5, <1>6, StepIs, Zenon DEF Drops

\* A dispatched job, with what it names.
LEMMA SendsStepFacts ==
    ASSUME Types, NoneOfElders, NEW s \in Slots, SendsStep(s)
    PROVE  \E w \in JobSet :
             /\ w.slot = s /\ w.gen = gen[s] /\ w.cid = cid[s] /\ w.thread = owner[s]
             /\ w.number = number[s] /\ w.kind = JOB_STREAM_STEP
             /\ jobs' = Append(jobs, w) /\ Work' = Work \cup {w} /\ Said' = Said
             /\ \A c \in Nat \ {0} :
                  Outstanding(c)' = Outstanding(c) + IF w.cid = c THEN 1 ELSE 0
<1>. DEFINE w == Job(s, JOB_STREAM_STEP, owner[s], number[s])
<1>1. owner[s] \in Threads /\ number[s] \in Nat
  BY DEF SendsStep, NoneOfElders, Caught, Types
<1>2. w \in JobSet
  BY <1>1, JobTyped
<1>3. /\ w.slot = s /\ w.gen = gen[s] /\ w.cid = cid[s] /\ w.thread = owner[s]
      /\ w.number = number[s] /\ w.kind = JOB_STREAM_STEP
  BY DEF Job
<1>4. jobs' = Append(jobs, w) /\ UNCHANGED <<results, busy>>
  BY DEF SendsStep
<1>. HIDE DEF w
<1>5. /\ Work' = Work \cup {w} /\ Said' = Said
      /\ \A c \in Nat \ {0} :
           Outstanding(c)' = Outstanding(c) + IF w.cid = c THEN 1 ELSE 0
  BY <1>2, <1>4, PutPieces
<1>. QED
  BY <1>2, <1>3, <1>4, <1>5

SentRequest(s, w) ==
    /\ w.slot = s /\ w.gen = gen[s] /\ w.cid = cid[s] /\ w.thread = owner'[s]
    /\ w.number = number'[s] /\ w.kind = JOB_REQUEST
    /\ jobs' = Append(jobs, w) /\ Work' = Work \cup {w} /\ Said' = Said
    /\ inflight' = [inflight EXCEPT ![s] = TRUE]
    /\ \A c \in Nat \ {0} :
         Outstanding(c)' = Outstanding(c) + IF w.cid = c THEN 1 ELSE 0

LEMMA SendsRequestFacts ==
    ASSUME Types, NEW s \in Slots, SendsRequest(s)
    PROVE  /\ live[s] /\ ~inflight[s] /\ number'[s] = number[s] + 1
           /\ UNCHANGED <<live, gen, streaming, closing, accepted, cid, last, results,
                          busy, phase>>
           /\ upset \subseteq upset' /\ upset' \subseteq upset \cup {cid[s]}
           /\ owner'[s] \in Threads /\ (owner[s] \in Threads => owner'[s] = owner[s])
           /\ \A r \in Slots \ {s} : owner'[r] = owner[r] /\ number'[r] = number[r]
           /\ streaming[s] \/ closing[s] => cid[s] \in upset'
           /\ \/ cid[s] \in upset' /\ UNCHANGED <<jobs, inflight>>
              \/ \E w \in JobSet : SentRequest(s, w)
<1>1. /\ live[s] /\ ~inflight[s] /\ TakeRequest(s) /\ UNCHANGED <<results, busy, phase>>
      /\ upset' = IF OutOfTurn(s) THEN upset \cup {cid[s]} ELSE upset
  BY DEF SendsRequest
<1>2. /\ queued[s] > 0
      /\ number' = [number EXCEPT ![s] = @ + 1]
      /\ owner' = [owner EXCEPT ![s] = OwnerFor(s).thread]
      /\ IF HasRoom
         THEN /\ jobs' = Append(jobs, Job(s, JOB_REQUEST, OwnerFor(s).thread, number[s] + 1))
              /\ inflight' = [inflight EXCEPT ![s] = TRUE]
         ELSE UNCHANGED <<jobs, inflight>>
      /\ UNCHANGED <<live, gen, streaming, closing, accepted, cid, last>>
  BY <1>1 DEF TakeRequest, Push
<1>3. number'[s] = number[s] + 1 /\ number[s] + 1 \in Nat
      /\ \A r \in Slots \ {s} : number'[r] = number[r]
  BY <1>2 DEF Types
<1>4. OwnerFor(s).thread \in Threads /\ owner'[s] = OwnerFor(s).thread
      /\ \A r \in Slots \ {s} : owner'[r] = owner[r]
  BY <1>1, <1>2, TakeRequestTypes DEF Types, TypeOK
<1>5. owner[s] \in Threads => owner'[s] = owner[s]
  BY <1>4, LoopAssumption DEF OwnerFor, Threads
<1>6. (streaming[s] \/ closing[s] \/ ~HasRoom) => cid[s] \in upset'
  BY <1>1, <1>2 DEF OutOfTurn
<1>7. ASSUME HasRoom PROVE \E w \in JobSet : SentRequest(s, w)
  <2>. DEFINE w == Job(s, JOB_REQUEST, OwnerFor(s).thread, number[s] + 1)
  <2>1. w \in JobSet
    BY <1>3, <1>4, JobTyped
  <2>2. /\ w.slot = s /\ w.gen = gen[s] /\ w.cid = cid[s] /\ w.thread = owner'[s]
        /\ w.number = number'[s] /\ w.kind = JOB_REQUEST
    BY <1>3, <1>4 DEF Job
  <2>3. jobs' = Append(jobs, w) /\ UNCHANGED <<results, busy>>
    BY <1>1, <1>2, <1>7
  <2>. HIDE DEF w
  <2>4. /\ Work' = Work \cup {w} /\ Said' = Said
        /\ \A c \in Nat \ {0} :
             Outstanding(c)' = Outstanding(c) + IF w.cid = c THEN 1 ELSE 0
    BY <2>1, <2>3, PutPieces
  <2>. QED
    BY <1>2, <1>7, <2>1, <2>2, <2>3, <2>4 DEF SentRequest
<1>8. upset \subseteq upset' /\ upset' \subseteq upset \cup {cid[s]}
  BY <1>1
<1>. QED
  BY <1>1, <1>2, <1>3, <1>4, <1>5, <1>6, <1>7, <1>8, Zenon
-----------------------------------------------------------------------------
(* What a generation of a slot names                                       *)

LEMMA AllKnownStep ==
    ASSUME Types, Named, AllKnown, NoneOfElders, [Next]_vars
    PROVE  AllKnown'
<1>0. /\ \A w \in Work : w.slot \in Slots /\ w.gen \in Nat /\ w.cid \in Nat
                           /\ w.thread \in Threads
      /\ \A r \in Said : r.slot \in Slots /\ r.gen \in Nat /\ r.cid \in Nat
      /\ accepted \in Nat /\ gen \in [Slots -> Nat]
  BY PiecesTyped DEF Types, TypeOK
<1>1. ASSUME UNCHANGED <<live, gen, owner, cid, accepted>>,
             Work' \subseteq Work, Said' \subseteq Said
      PROVE  AllKnown'
  BY <1>1, Zenon DEF AllKnown, Known
<1>2. ASSUME Rests \/ Loses \/ (\E t \in Threads : TakeJob(t))
             \/ (\E s \in Slots, res \in ResultSet : Delivers(s, res))
      PROVE  /\ UNCHANGED <<live, gen, owner, cid, accepted>>
             /\ Work' \subseteq Work /\ Said' \subseteq Said
  <2>1. CASE Rests
    BY <2>1, SamePieces DEF Rests, slots
  <2>2. CASE Loses
    BY <2>2, ReceivePieces DEF Loses, slots
  <2>3. ASSUME NEW t \in Threads, TakeJob(t)
        PROVE  /\ UNCHANGED <<live, gen, owner, cid, accepted>>
               /\ Work' \subseteq Work /\ Said' \subseteq Said
    BY <2>3, TakePieces DEF TakeJob, loop, history
  <2>4. ASSUME NEW s \in Slots, NEW res \in ResultSet, Delivers(s, res)
        PROVE  /\ UNCHANGED <<live, gen, owner, cid, accepted>>
               /\ Work' \subseteq Work /\ Said' \subseteq Said
    BY <2>4, ReceivePieces DEF Delivers, Deliver
  <2>. QED
    BY <1>2, <2>1, <2>2, <2>3, <2>4
<1>3. CASE Accept
  <2>1. PICK s \in Slots :
          /\ ~live[s] /\ live'[s] /\ cid'[s] = accepted + 1
          /\ \A r \in Slots \ {s} : live'[r] = live[r] /\ cid'[r] = cid[r]
    BY <1>3, AcceptFacts
  <2>2. accepted' = accepted + 1 /\ UNCHANGED <<gen, owner>>
        /\ Work' = Work /\ Said' = Said
    BY <1>3, AcceptFacts, SamePieces
  <2>3. ASSUME NEW w, Known(w), w.slot \in Slots, w.cid \in Nat PROVE Known(w)'
    BY <1>0, <2>1, <2>2, <2>3 DEF Known
  <2>. QED
    BY <1>0, <2>2, <2>3 DEF AllKnown
<1>4. ASSUME NEW S \in SUBSET Slots, Drops(S) PROVE AllKnown'
  <2>1. /\ accepted' = accepted /\ Work' = Work /\ Said' \subseteq Said
        /\ \A s \in S : ~live'[s] /\ gen'[s] = gen[s] + 1
        /\ \A s \in Slots \ S : /\ live'[s] = live[s] /\ gen'[s] = gen[s]
                                /\ cid'[s] = cid[s] /\ owner'[s] = owner[s]
    BY <1>4, DropFacts, DropPieces DEF Drops
  <2>2. ASSUME NEW w, Known(w), w.slot \in Slots, w.gen \in Nat
        PROVE  Known(w)' /\ (w.gen = gen'[w.slot] => w.slot \notin S)
    BY <1>0, <2>1, <2>2 DEF Known
  <2>. QED
    BY <1>0, <2>1, <2>2 DEF AllKnown
<1>5. ASSUME NEW s \in Slots, live[s], NEW w, w.slot = s, w.gen = gen[s], w.cid = cid[s]
      PROVE  Known(w)
  BY <1>0, <1>5 DEF Known, Named
<1>6. ASSUME NEW s \in Slots, SendsStep(s) PROVE AllKnown'
  <2>1. PICK w \in JobSet :
          /\ w.slot = s /\ w.gen = gen[s] /\ w.cid = cid[s] /\ w.thread = owner[s]
          /\ Work' = Work \cup {w} /\ Said' = Said
    BY <1>6, SendsStepFacts
  <2>2. UNCHANGED <<live, gen, owner, cid, accepted>> /\ live[s]
    BY <1>6 DEF SendsStep, slots
  <2>3. Known(w) /\ w.thread = owner[w.slot]
    BY <1>5, <2>1, <2>2
  <2>. QED
    BY <2>1, <2>2, <2>3 DEF AllKnown, Known
<1>7. ASSUME NEW s \in Slots, SendsRequest(s) PROVE AllKnown'
  <2>1. UNCHANGED <<live, gen, cid, accepted>> /\ live[s] /\ Said' = Said
    <3>1. Said' = Said
      BY <1>7, SendsRequestFacts DEF Said
    <3>. QED
      BY <1>7, <3>1, SendsRequestFacts
  <2>2. ASSUME NEW w \in Work, w.gen = gen[w.slot] PROVE w.thread = owner'[w.slot]
    <3>1. w.thread = owner[w.slot] /\ w.thread \in Threads /\ w.slot \in Slots
      BY <1>0, <2>2 DEF AllKnown
    <3>2. owner'[w.slot] = owner[w.slot]
      BY <1>7, <3>1, SendsRequestFacts
    <3>. QED
      BY <3>1, <3>2
  <2>3. ASSUME NEW w \in Work', w \notin Work
        PROVE  Known(w) /\ w.thread = owner'[w.slot]
    <3>1. \/ UNCHANGED <<jobs, results, busy>>
          \/ \E v \in JobSet : SentRequest(s, v)
      BY <1>7, SendsRequestFacts
    <3>2. ~ UNCHANGED <<jobs, results, busy>>
      BY <2>3, SamePieces
    <3>3. PICK v \in JobSet : SentRequest(s, v)
      BY <3>1, <3>2
    <3>4. w = v
      BY <2>3, <3>3 DEF SentRequest
    <3>5. w.slot = s /\ w.gen = gen[s] /\ w.cid = cid[s] /\ w.thread = owner'[s]
      BY <3>3, <3>4 DEF SentRequest
    <3>. QED
      BY <1>5, <2>1, <3>5
  <2>. QED
    BY <2>1, <2>2, <2>3 DEF AllKnown, Known
<1>8. ASSUME NEW t \in Threads, RunJob(t) PROVE AllKnown'
  <2>1. PICK r \in ResultSet :
          /\ results' = Append(results, r)
          /\ r.slot = busy[t].slot /\ r.gen = busy[t].gen /\ r.cid = busy[t].cid
    BY <1>8, RunResult
  <2>2. Work' \subseteq Work /\ busy[t] \in Work /\ Said' = Said \cup {r}
    BY <1>8, <2>1, RunPieces
  <2>3. UNCHANGED <<live, gen, owner, cid, accepted>>
    BY <1>8 DEF RunJob, loop, history
  <2>4. Known(r)
    BY <2>1, <2>2 DEF AllKnown, Known
  <2>. QED
    BY <2>2, <2>3, <2>4 DEF AllKnown, Known
<1>. QED
  BY <1>1, <1>2, <1>3, <1>4, <1>6, <1>7, <1>8, StepIs, Zenon
-----------------------------------------------------------------------------
(* The queue of jobs by its places                                         *)

LEMMA JobsPlaces ==
    ASSUME Types
    PROVE  /\ Len(jobs) \in Nat /\ DOMAIN jobs = 1 .. Len(jobs)
           /\ \A i \in DOMAIN jobs : jobs[i] \in JobSet /\ jobs[i] \in Work
           /\ \A t \in Threads : busy[t] = NoJob \/ (busy[t] \in JobSet /\ busy[t] \in Work)
           /\ NoJob.slot = -1 /\ NoJob.cid = 0
           /\ \A w \in JobSet : w.slot \in Slots /\ w.slot # -1 /\ w.gen \in Nat
                                  /\ w.thread \in Threads
<1>1. Len(jobs) \in Nat /\ DOMAIN jobs = 1 .. Len(jobs)
      /\ \A i \in DOMAIN jobs : jobs[i] \in JobSet
  BY ElementOfSeq, LenProperties DEF Types
<1>2. \A i \in DOMAIN jobs : jobs[i] \in Work
  BY DEF Work
<1>3. \A t \in Threads : busy[t] = NoJob \/ (busy[t] \in JobSet /\ busy[t] \in Work)
  BY DEF Types, Work
<1>4. NoJob.slot = -1 /\ NoJob.cid = 0
  BY DEF NoJob
<1>5. \A w \in JobSet : w.slot \in Slots /\ w.slot # -1 /\ w.gen \in Nat
                          /\ w.thread \in Threads
  BY DEF JobSet, Slots
<1>. QED
  BY <1>1, <1>2, <1>3, <1>4, <1>5

LEMMA PutPlaces ==
    ASSUME Types, NEW w, w \in JobSet, jobs' = Append(jobs, w)
    PROVE  /\ DOMAIN jobs' = 1 .. Len(jobs) + 1 /\ jobs'[Len(jobs) + 1] = w
           /\ \A i \in 1 .. Len(jobs) : jobs'[i] = jobs[i]
<1>1. jobs \in Seq(JobSet)
  BY DEF Types
<1>. QED
  BY <1>1, AppendProperties, LenProperties

\* Where a job was that stands at j now that the one at i is gone.
Was(i, j) == IF j < i THEN j ELSE j + 1

LEMMA TakePlaces ==
    ASSUME Types, NEW t \in Threads, TakeJob(t)
    PROVE  \E i \in DOMAIN jobs :
             /\ jobs[i].thread = t /\ Ready(t)
             /\ \A k \in DOMAIN jobs : jobs[k].thread = t => i <= k
             /\ busy' = [busy EXCEPT ![t] = jobs[i]]
             /\ DOMAIN jobs' \subseteq Nat
             /\ \A j \in DOMAIN jobs' :
                  /\ Was(i, j) \in DOMAIN jobs /\ Was(i, j) # i
                  /\ jobs'[j] = jobs[Was(i, j)]
             /\ \A j, k \in DOMAIN jobs' : j < k => Was(i, j) < Was(i, k)
             /\ \A k \in DOMAIN jobs \ {i} : \E j \in DOMAIN jobs' : k = Was(i, j)
<1>1. PICK i \in NextJob(t) :
        /\ i \in 1 .. Len(jobs)
        /\ busy' = [busy EXCEPT ![t] = jobs[i]] /\ jobs' = RemoveAt(jobs, i)
  BY TakePieces
<1>2. /\ i \in DOMAIN jobs /\ jobs[i].thread = t /\ Len(jobs) \in Nat
      /\ DOMAIN jobs = 1 .. Len(jobs) /\ jobs \in Seq(JobSet)
      /\ \A k \in 1 .. i - 1 : jobs[k].thread # t
  BY JobsPlaces DEF NextJob, Types
<1>3. \A k \in DOMAIN jobs : jobs[k].thread = t => i <= k
  BY <1>2
<1>4. /\ Len(jobs') = Len(jobs) - 1 /\ jobs' \in Seq(JobSet)
      /\ \A j \in 1 .. Len(jobs) - 1 : jobs'[j] = IF j < i THEN jobs[j] ELSE jobs[j + 1]
  <2>1. /\ Len(RemoveAt(jobs, i)) = Len(jobs) - 1 /\ RemoveAt(jobs, i) \in Seq(JobSet)
        /\ \A j \in 1 .. Len(jobs) - 1 :
             RemoveAt(jobs, i)[j] = IF j < i THEN jobs[j] ELSE jobs[j + 1]
    <3>1. jobs \in Seq(JobSet) /\ i \in 1 .. Len(jobs)
      BY <1>1, <1>2
    <3>. QED
      BY <3>1, RemoveFacts, Zenon
  <2>. QED
    BY <1>1, <2>1
<1>5. DOMAIN jobs' = 1 .. Len(jobs) - 1
  BY <1>4, LenProperties
<1>6. ASSUME NEW j \in DOMAIN jobs'
      PROVE  /\ Was(i, j) \in DOMAIN jobs /\ Was(i, j) # i
             /\ jobs'[j] = jobs[Was(i, j)]
  BY <1>2, <1>4, <1>5 DEF Was
<1>7. \A j, k \in DOMAIN jobs' : j < k => Was(i, j) < Was(i, k)
  BY <1>2, <1>5 DEF Was
<1>8. ASSUME NEW k \in DOMAIN jobs \ {i} PROVE \E j \in DOMAIN jobs' : k = Was(i, j)
  <2>1. CASE k < i
    <3>1. k \in DOMAIN jobs' /\ k = Was(i, k)
      BY <1>2, <1>5, <2>1 DEF Was
    <3>. QED
      BY <3>1
  <2>2. CASE k > i
    <3>1. k - 1 \in DOMAIN jobs' /\ k = Was(i, k - 1)
      BY <1>2, <1>5, <2>2 DEF Was
    <3>. QED
      BY <3>1
  <2>. QED
    BY <1>2, <2>1, <2>2
<1>9. Ready(t)
  BY DEF TakeJob
<1>10. DOMAIN jobs' \subseteq Nat
  BY <1>2, <1>5
<1>. QED
  BY <1>1, <1>2, <1>3, <1>6, <1>7, <1>8, <1>9, <1>10

LEMMA InTurnStep ==
    ASSUME Types, AllKnown, NoneOfElders, InTurn, [Next]_vars
    PROVE  InTurn'
<1>0. gen \in [Slots -> Nat]
  BY DEF Types, TypeOK
<1>1. ASSUME UNCHANGED <<jobs, busy>> PROVE InTurn'
  BY <1>1 DEF InTurn
<1>2. ASSUME Rests \/ Loses \/ Accept \/ (\E S \in SUBSET Slots : Drops(S))
             \/ (\E s \in Slots, res \in ResultSet : Delivers(s, res))
      PROVE  UNCHANGED <<jobs, busy>>
  BY <1>2, AcceptFacts, Zenon DEF Rests, Loses, Drops, Delivers
<1>3. ASSUME NEW w \in JobSet, w.gen = gen[w.slot], jobs' = Append(jobs, w), busy' = busy
      PROVE  InTurn'
  <2>1. ASSUME NEW i \in DOMAIN jobs', NEW j \in DOMAIN jobs', i < j,
               jobs'[i].thread = jobs'[j].thread, jobs'[i].slot = jobs'[j].slot
        PROVE  jobs'[i].gen <= jobs'[j].gen
    <3>1. i \in DOMAIN jobs /\ jobs'[i] = jobs[i]
      BY <1>3, <2>1, PutPlaces, JobsPlaces
    <3>2. CASE j \in DOMAIN jobs
      <4>1. jobs'[j] = jobs[j]
        BY <1>3, <3>2, PutPlaces, JobsPlaces
      <4>. QED
        BY <2>1, <3>1, <3>2, <4>1 DEF InTurn
    <3>3. CASE j \notin DOMAIN jobs
      <4>1. jobs'[j] = w
        BY <1>3, <3>3, PutPlaces, JobsPlaces
      <4>2. jobs[i].gen <= gen[jobs[i].slot]
        BY <3>1, JobsPlaces DEF AllKnown, Known
      <4>. QED
        BY <1>3, <2>1, <3>1, <4>1, <4>2
    <3>. QED
      BY <3>2, <3>3
  <2>2. ASSUME NEW t \in Threads, NEW j \in DOMAIN jobs', jobs'[j].thread = t,
               busy[t].slot = jobs'[j].slot
        PROVE  busy[t].gen <= jobs'[j].gen
    <3>1. CASE j \in DOMAIN jobs
      <4>1. jobs'[j] = jobs[j]
        BY <1>3, <3>1, PutPlaces, JobsPlaces
      <4>. QED
        BY <2>2, <3>1, <4>1 DEF InTurn
    <3>2. CASE j \notin DOMAIN jobs
      <4>1. jobs'[j] = w
        BY <1>3, <3>2, PutPlaces, JobsPlaces
      <4>2. busy[t] \in Work
        BY <2>2, <4>1, JobsPlaces
      <4>3. busy[t].gen <= gen[busy[t].slot]
        BY <4>2 DEF AllKnown, Known
      <4>. QED
        BY <1>3, <2>2, <4>1, <4>3
    <3>. QED
      BY <3>1, <3>2
  <2>. QED
    BY <1>3, <2>1, <2>2 DEF InTurn
<1>4. ASSUME NEW s \in Slots, SendsStep(s) PROVE InTurn'
  <2>1. PICK w \in JobSet : w.slot = s /\ w.gen = gen[s] /\ jobs' = Append(jobs, w)
    BY <1>4, SendsStepFacts
  <2>. QED
    BY <1>3, <1>4, <2>1 DEF SendsStep
<1>5. ASSUME NEW s \in Slots, SendsRequest(s) PROVE InTurn'
  <2>1. busy' = busy
    BY <1>5 DEF SendsRequest
  <2>2. CASE \E w \in JobSet : SentRequest(s, w)
    <3>1. PICK w \in JobSet : w.slot = s /\ w.gen = gen[s] /\ jobs' = Append(jobs, w)
      BY <2>2 DEF SentRequest
    <3>. QED
      BY <1>3, <2>1, <3>1
  <2>. QED
    BY <1>1, <1>5, <2>1, <2>2, SendsRequestFacts
<1>6. ASSUME NEW t \in Threads, TakeJob(t) PROVE InTurn'
  <2>1. PICK i \in DOMAIN jobs :
          /\ jobs[i].thread = t
          /\ \A k \in DOMAIN jobs : jobs[k].thread = t => i <= k
          /\ busy' = [busy EXCEPT ![t] = jobs[i]]
          /\ \A j \in DOMAIN jobs' :
               /\ Was(i, j) \in DOMAIN jobs /\ Was(i, j) # i
               /\ jobs'[j] = jobs[Was(i, j)]
          /\ \A j, k \in DOMAIN jobs' : j < k => Was(i, j) < Was(i, k)
    BY <1>6, TakePlaces
  <2>2. \A j, k \in DOMAIN jobs' :
          j < k /\ jobs'[j].thread = jobs'[k].thread /\ jobs'[j].slot = jobs'[k].slot
            => jobs'[j].gen <= jobs'[k].gen
    BY <2>1 DEF InTurn
  <2>3. ASSUME NEW u \in Threads, NEW j \in DOMAIN jobs', jobs'[j].thread = u,
               busy'[u].slot = jobs'[j].slot
        PROVE  busy'[u].gen <= jobs'[j].gen
    <3>1. CASE u = t
      <4>1. busy'[u] = jobs[i]
        BY <2>1, <3>1 DEF Types
      <4>2. Was(i, j) \in DOMAIN jobs /\ jobs'[j] = jobs[Was(i, j)] /\ i < Was(i, j)
        <5>1. Was(i, j) \in DOMAIN jobs /\ jobs'[j] = jobs[Was(i, j)] /\ i # Was(i, j)
              /\ i <= Was(i, j)
          BY <2>1, <2>3, <3>1
        <5>. QED
          BY <5>1, JobsPlaces
      <4>. QED
        BY <2>3, <3>1, <4>1, <4>2, <2>1 DEF InTurn
    <3>2. CASE u # t
      <4>1. busy'[u] = busy[u]
        BY <2>1, <3>2 DEF Types
      <4>2. Was(i, j) \in DOMAIN jobs /\ jobs'[j] = jobs[Was(i, j)]
        BY <2>1, <2>3
      <4>. QED
        BY <2>3, <4>1, <4>2 DEF InTurn
    <3>. QED
      BY <3>1, <3>2
  <2>. QED
    BY <2>2, <2>3 DEF InTurn
<1>7. ASSUME NEW t \in Threads, RunJob(t) PROVE InTurn'
  <2>1. jobs' = jobs /\ busy' = [busy EXCEPT ![t] = NoJob]
    BY <1>7 DEF RunJob
  <2>2. ASSUME NEW u \in Threads, NEW j \in DOMAIN jobs, jobs[j].thread = u,
               busy'[u].slot = jobs[j].slot
        PROVE  busy'[u] = busy[u]
    BY <2>1, <2>2, JobsPlaces DEF Types
  <2>. QED
    BY <2>1, <2>2 DEF InTurn
<1>. QED
  BY <1>1, <1>2, <1>4, <1>5, <1>6, <1>7, StepIs, Zenon
-----------------------------------------------------------------------------
(* No elders, and steps that find their streams                            *)

LEMMA NoneOfEldersStep ==
    ASSUME Types, AllKnown, InTurn, NoneOfElders, [Next]_vars
    PROVE  NoneOfElders'
<1>0. /\ \A w \in Work : w.slot \in Slots /\ w.gen \in Nat /\ w.thread \in Threads
      /\ \A r \in Said : r.slot \in Slots /\ r.gen \in Nat
      /\ gen \in [Slots -> Nat]
  BY PiecesTyped DEF Types, TypeOK
<1>1. ASSUME UNCHANGED <<gen, owner, streaming>>, Work' \subseteq Work, Said' \subseteq Said
      PROVE  NoneOfElders'
  BY <1>1, Zenon DEF NoneOfElders, Caught
<1>2. CASE Rests
  BY <1>1, <1>2, SamePieces DEF Rests, slots
<1>3. CASE Loses
  BY <1>1, <1>3, ReceivePieces DEF Loses, slots
<1>4. CASE Accept
  BY <1>1, <1>4, AcceptFacts, SamePieces
<1>5. ASSUME NEW S \in SUBSET Slots, Drops(S) PROVE NoneOfElders'
  <2>1. /\ Work' = Work /\ Said' \subseteq Said
        /\ \A s \in S : ~streaming'[s] /\ gen'[s] = gen[s] + 1
        /\ \A s \in Slots \ S : /\ gen'[s] = gen[s] /\ owner'[s] = owner[s]
                                /\ streaming'[s] = streaming[s]
    BY <1>5, DropFacts, DropPieces DEF Drops
  <2>2. \A r \in Said : r.gen <= gen[r.slot]
    BY DEF AllKnown, Known
  <2>3. \A s \in Slots \ S : Caught(s) => Caught(s)'
    BY <2>1 DEF Caught
  <2>. QED
    BY <1>0, <2>1, <2>2, <2>3 DEF NoneOfElders
<1>6. ASSUME NEW s \in Slots, NEW res \in ResultSet, Delivers(s, res)
      PROVE  NoneOfElders'
  <2>1. Work' = Work /\ Said' \subseteq Said /\ res \in Said
        /\ UNCHANGED <<gen, owner>> /\ res.slot = s /\ res.gen = gen[s]
    BY <1>6, ReceivePieces DEF Delivers, Deliver
  <2>2. \A x \in Slots : Caught(x)' <=> Caught(x)
    BY <2>1 DEF Caught
  <2>3. \A x \in Slots \ {s} : streaming'[x] = streaming[x]
    BY <1>6 DEF Delivers, Deliver, Types, TypeOK
  <2>4. Caught(s)
    BY <2>1 DEF NoneOfElders
  <2>. QED
    BY <1>0, <2>1, <2>2, <2>3, <2>4 DEF NoneOfElders
<1>7. ASSUME NEW w \in JobSet, w.gen = gen[w.slot], Work' = Work \cup {w}, Said' = Said,
             UNCHANGED <<gen, streaming>>,
             \A s \in Slots : owner[s] \in Threads => owner'[s] = owner[s]
      PROVE  NoneOfElders'
  <2>1. \A s \in Slots : Caught(s) => Caught(s)'
    BY <1>7 DEF Caught
  <2>. QED
    BY <1>0, <1>7, <2>1 DEF NoneOfElders
<1>8. ASSUME NEW s \in Slots, SendsStep(s) PROVE NoneOfElders'
  <2>1. PICK w \in JobSet : /\ w.slot = s /\ w.gen = gen[s]
                            /\ Work' = Work \cup {w} /\ Said' = Said
    BY <1>8, SendsStepFacts
  <2>. QED
    BY <1>7, <1>8, <2>1 DEF SendsStep, slots
<1>9. ASSUME NEW s \in Slots, SendsRequest(s) PROVE NoneOfElders'
  <2>1. /\ UNCHANGED <<gen, streaming>>
        /\ \A r \in Slots : owner[r] \in Threads => owner'[r] = owner[r]
    BY <1>9, SendsRequestFacts
  <2>2. CASE UNCHANGED jobs
    <3>1. Work' = Work /\ Said' = Said
      BY <1>9, <2>2, SendsRequestFacts, SamePieces
    <3>2. \A r \in Slots : Caught(r) => Caught(r)'
      BY <2>1, <3>1 DEF Caught
    <3>. QED
      BY <1>0, <2>1, <3>1, <3>2 DEF NoneOfElders
  <2>3. CASE \E w \in JobSet : SentRequest(s, w)
    <3>1. PICK w \in JobSet : SentRequest(s, w)
      BY <2>3
    <3>. QED
      BY <1>7, <2>1, <3>1 DEF SentRequest
  <2>. QED
    BY <1>9, <2>2, <2>3, SendsRequestFacts
<1>10. ASSUME NEW t \in Threads, TakeJob(t) PROVE NoneOfElders'
  BY <1>1, <1>10, TakePieces DEF TakeJob, loop
<1>11. ASSUME NEW t \in Threads, RunJob(t) PROVE NoneOfElders'
  <2>1. PICK r \in ResultSet :
          /\ results' = Append(results, r)
          /\ r.slot = busy[t].slot /\ r.gen = busy[t].gen /\ r.cid = busy[t].cid
    BY <1>11, RunResult
  <2>2. Work' \subseteq Work /\ busy[t] \in Work /\ Said' = Said \cup {r}
    BY <1>11, <2>1, RunPieces
  <2>3. UNCHANGED <<gen, owner, streaming, jobs>> /\ busy' = [busy EXCEPT ![t] = NoJob]
    BY <1>11 DEF RunJob, loop
  <2>4. \A s \in Slots : Caught(s) => Caught(s)'
    BY <2>2, <2>3 DEF Caught
  <2>5. ASSUME r.gen = gen[r.slot] PROVE Caught(r.slot)'
    <3>1. owner[r.slot] = t /\ busy[t].thread = t
      <4>1. busy[t].thread = t
        BY <1>11, RunResult
      <4>. QED
        BY <2>1, <2>2, <2>5, <4>1 DEF AllKnown
    <3>2. ASSUME NEW w \in Work', w.slot = r.slot, w.thread = t PROVE w.gen = gen[r.slot]
      <4>1. \/ \E j \in DOMAIN jobs : w = jobs[j]
            \/ \E u \in Threads : w = busy'[u] /\ w # NoJob
        BY <2>3, <3>2 DEF Work
      <4>2. CASE \E j \in DOMAIN jobs : w = jobs[j]
        <5>1. PICK j \in DOMAIN jobs : w = jobs[j]
          BY <4>2
        <5>2. busy[t].gen <= w.gen
          BY <2>1, <3>2, <5>1 DEF InTurn
        <5>3. w.gen <= gen[w.slot]
          BY <2>2, <3>2 DEF AllKnown, Known
        <5>. QED
          BY <1>0, <2>1, <2>2, <2>5, <3>2, <5>2, <5>3
      <4>3. CASE \E u \in Threads : w = busy'[u] /\ w # NoJob
        <5>1. PICK u \in Threads : w = busy'[u] /\ w # NoJob
          BY <4>3
        <5>2. u # t /\ busy'[u] = busy[u]
          BY <2>3, <5>1 DEF Types
        <5>3. busy[u].thread = u
          BY <5>1, <5>2 DEF Types
        <5>. QED
          BY <3>2, <5>1, <5>2, <5>3
      <4>. QED
        BY <4>1, <4>2, <4>3
    <3>. QED
      BY <2>3, <3>1, <3>2 DEF Caught
  <2>. QED
    BY <1>0, <2>1, <2>2, <2>3, <2>4, <2>5 DEF NoneOfElders
<1>. QED
  BY <1>2, <1>3, <1>4, <1>5, <1>6, <1>8, <1>9, <1>10, <1>11, StepIs, Zenon

\* The one stream a thread has got on with.
LEMMA RunPhase ==
    ASSUME Types, NEW t \in Threads, RunJob(t)
    PROVE  \A u \in Threads, s \in Slots :
             u # t \/ s # busy[t].slot => phase'[u][s] = phase[u][s]
<1>1. \/ UNCHANGED phase
      \/ \E v : phase' = [phase EXCEPT ![t][busy[t].slot] = v]
  <2>1. PICK r \in ResultSet :
          \/ UNCHANGED phase
          \/ phase' = [phase EXCEPT ![t][busy[t].slot] =
                         [cid |-> r.cid, number |-> r.number, left |-> r.left]]
          \/ phase' = [phase EXCEPT ![t][busy[t].slot] =
                         [cid |-> phase[t][busy[t].slot].cid,
                          number |-> phase[t][busy[t].slot].number, left |-> r.left]]
          \/ phase' = [phase EXCEPT ![t][busy[t].slot] = NoStream]
    BY RunResult, Zenon
  <2>. QED
    BY <2>1
<1>2. phase \in [Threads -> [Slots -> [cid : Nat, number : Nat, left : Nat]]]
  BY DEF Types
<1>. QED
  BY <1>1, <1>2

LEMMA StepsFindStep ==
    ASSUME Types, Named, AllKnown, NoneOfElders, StepsFind, OneEach, Suited, [Next]_vars
    PROVE  StepsFind'
<1>. USE DEF StepFindsItsStream, Holds, HoldsIn
<1>1. ASSUME UNCHANGED <<jobs, busy, phase>>, upset \subseteq upset' PROVE StepsFind'
  BY <1>1 DEF StepsFind
<1>2. ASSUME Rests \/ Loses \/ Accept \/ (\E S \in SUBSET Slots : Drops(S))
             \/ (\E s \in Slots, res \in ResultSet : Delivers(s, res))
      PROVE  UNCHANGED <<jobs, busy, phase>> /\ upset \subseteq upset'
  <2>1. CASE Accept
    BY <2>1, AcceptFacts
  <2>. QED
    BY <1>2, <2>1 DEF Rests, Loses, Drops, Delivers
<1>3. ASSUME NEW w \in JobSet, jobs' = Append(jobs, w), UNCHANGED <<busy, phase>>,
             upset \subseteq upset',
             w.kind = JOB_STREAM_STEP /\ w.cid \notin upset' =>
               /\ Holds(w.thread, w) /\ busy[w.thread].slot # w.slot
               /\ \A i \in DOMAIN jobs : jobs[i].thread = w.thread => jobs[i].slot # w.slot
      PROVE  StepsFind'
  <2>1. \A t \in Threads :
          busy'[t].kind = JOB_STREAM_STEP /\ busy'[t].cid \notin upset' =>
            HoldsIn(phase', t, busy'[t])
    BY <1>3 DEF StepsFind
  <2>2. ASSUME NEW j \in DOMAIN jobs',
               jobs'[j].kind = JOB_STREAM_STEP, jobs'[j].cid \notin upset'
        PROVE  /\ HoldsIn(phase', jobs'[j].thread, jobs'[j])
               /\ busy'[jobs'[j].thread].slot # jobs'[j].slot
               /\ \A i \in 1 .. j - 1 :
                    jobs'[i].thread = jobs'[j].thread => jobs'[i].slot # jobs'[j].slot
    <3>1. CASE j \in DOMAIN jobs
      <4>1. jobs'[j] = jobs[j] /\ \A i \in 1 .. j - 1 : jobs'[i] = jobs[i]
        BY <1>3, <3>1, JobsPlaces, PutPlaces
      <4>. QED
        BY <1>3, <2>2, <3>1, <4>1 DEF StepsFind
    <3>2. CASE j \notin DOMAIN jobs
      <4>1. jobs'[j] = w /\ \A i \in 1 .. j - 1 : i \in DOMAIN jobs /\ jobs'[i] = jobs[i]
        BY <1>3, <3>2, JobsPlaces, PutPlaces
      <4>. QED
        BY <1>3, <2>2, <4>1
    <3>. QED
      BY <3>1, <3>2
  <2>. QED
    BY <2>1, <2>2 DEF StepsFind
<1>4. ASSUME NEW s \in Slots, SendsStep(s) PROVE StepsFind'
  <2>1. PICK w \in JobSet :
          /\ w.slot = s /\ w.gen = gen[s] /\ w.cid = cid[s] /\ w.thread = owner[s]
          /\ w.number = number[s] /\ jobs' = Append(jobs, w)
    BY <1>4, SendsStepFacts
  <2>2. /\ live[s] /\ streaming[s] /\ ~inflight[s] /\ upset' = upset
        /\ UNCHANGED <<busy, phase>>
    BY <1>4 DEF SendsStep
  <2>3. Caught(s)
    BY <2>2 DEF NoneOfElders
  <2>4. ASSUME cid[s] \notin upset
        PROVE  /\ Holds(owner[s], w) /\ busy[owner[s]].slot # s
               /\ \A i \in DOMAIN jobs : jobs[i].thread = owner[s] => jobs[i].slot # s
    <3>1. s \in Calm /\ cid[s] \in Nat \ {0}
      BY <2>2, <2>4 DEF Calm, Named, Types
    <3>2. /\ \A v \in Work : v.cid # cid[s]
          /\ \A r \in Said : r.cid # cid[s]
      BY <2>2, <3>1, OutstandingFacts DEF OneEach
    <3>3. Holds(owner[s], w)
      <4>1. phase[owner[s]][s] = Stream(s, last[s].left)
        BY <2>2, <3>1, <3>2 DEF Suited
      <4>. QED
        BY <2>1, <4>1 DEF Stream
    <3>4. ASSUME NEW v \in Work, v.slot = s PROVE v.thread # owner[s]
      BY <2>3, <3>2, <3>4 DEF Caught, AllKnown, Known
    <3>5. busy[owner[s]].slot # s
      <4>1. owner[s] \in Threads
        BY <2>3 DEF Caught
      <4>2. busy[owner[s]] # NoJob => busy[owner[s]].thread = owner[s]
        BY <4>1 DEF Types
      <4>3. -1 # s
        BY DEF Slots
      <4>. QED
        BY <3>4, <4>1, <4>2, <4>3, JobsPlaces
    <3>6. \A i \in DOMAIN jobs : jobs[i].thread = owner[s] => jobs[i].slot # s
      BY <3>4, JobsPlaces
    <3>. QED
      BY <3>3, <3>5, <3>6
  <2>. QED
    BY <1>3, <2>1, <2>2, <2>4
<1>5. ASSUME NEW s \in Slots, SendsRequest(s) PROVE StepsFind'
  <2>1. UNCHANGED <<busy, phase>> /\ upset \subseteq upset'
    BY <1>5, SendsRequestFacts
  <2>2. CASE UNCHANGED jobs
    BY <1>1, <2>1, <2>2
  <2>3. CASE \E w \in JobSet : SentRequest(s, w)
    <3>1. PICK w \in JobSet : jobs' = Append(jobs, w) /\ w.kind = JOB_REQUEST
      BY <2>3 DEF SentRequest
    <3>2. w.kind # JOB_STREAM_STEP
      BY <3>1 DEF JOB_REQUEST, JOB_STREAM_STEP
    <3>. QED
      BY <1>3, <2>1, <3>1, <3>2
  <2>. QED
    BY <1>5, <2>2, <2>3, SendsRequestFacts
<1>6. ASSUME NEW t \in Threads, TakeJob(t) PROVE StepsFind'
  <2>1. PICK i \in DOMAIN jobs :
          /\ jobs[i].thread = t
          /\ \A k \in DOMAIN jobs : jobs[k].thread = t => i <= k
          /\ busy' = [busy EXCEPT ![t] = jobs[i]]
          /\ DOMAIN jobs' \subseteq Nat
          /\ \A j \in DOMAIN jobs' :
               /\ Was(i, j) \in DOMAIN jobs /\ Was(i, j) # i
               /\ jobs'[j] = jobs[Was(i, j)]
          /\ \A j, k \in DOMAIN jobs' : j < k => Was(i, j) < Was(i, k)
    BY <1>6, TakePlaces
  <2>2. UNCHANGED <<phase, upset>>
    BY <1>6 DEF TakeJob
  <2>3. busy'[t] = jobs[i] /\ \A u \in Threads \ {t} : busy'[u] = busy[u]
    BY <2>1 DEF Types
  <2>4. ASSUME NEW u \in Threads, busy'[u].kind = JOB_STREAM_STEP, busy'[u].cid \notin upset
        PROVE  Holds(u, busy'[u])
    BY <2>1, <2>3, <2>4 DEF StepsFind
  <2>5. ASSUME NEW j \in DOMAIN jobs',
               jobs'[j].kind = JOB_STREAM_STEP, jobs'[j].cid \notin upset
        PROVE  /\ Holds(jobs'[j].thread, jobs'[j])
               /\ busy'[jobs'[j].thread].slot # jobs'[j].slot
               /\ \A k \in 1 .. j - 1 :
                    jobs'[k].thread = jobs'[j].thread => jobs'[k].slot # jobs'[j].slot
    <3>. DEFINE m == Was(i, j)
    <3>1. m \in DOMAIN jobs /\ m # i /\ jobs'[j] = jobs[m]
      BY <2>1
    <3>2. m \in Nat /\ i \in Nat /\ DOMAIN jobs \subseteq Nat /\ DOMAIN jobs = 1 .. Len(jobs)
      BY <3>1, JobsPlaces
    <3>. HIDE DEF m
    <3>3. /\ Holds(jobs[m].thread, jobs[m])
          /\ busy[jobs[m].thread].slot # jobs[m].slot
          /\ \A k \in 1 .. m - 1 :
               jobs[k].thread = jobs[m].thread => jobs[k].slot # jobs[m].slot
      BY <2>5, <3>1 DEF StepsFind
    <3>4. busy'[jobs[m].thread].slot # jobs[m].slot
      <4>1. jobs[m].thread \in Threads
        BY <3>1, JobsPlaces
      <4>2. CASE jobs[m].thread = t
        <5>1. i < m /\ i \in 1 .. m - 1
          BY <2>1, <3>1, <3>2, <4>2
        <5>. QED
          BY <2>1, <2>3, <3>3, <4>2, <5>1
      <4>. QED
        BY <2>3, <3>3, <4>1, <4>2
    <3>5. ASSUME NEW k \in 1 .. j - 1, jobs'[k].thread = jobs'[j].thread
          PROVE  jobs'[k].slot # jobs'[j].slot
      <4>1. k \in DOMAIN jobs' /\ k < j
        <5>1. jobs' \in Seq(JobSet)
          BY <1>6, TakeJobTypes DEF Types
        <5>2. DOMAIN jobs' = 1 .. Len(jobs') /\ Len(jobs') \in Nat
          BY <5>1, LenProperties
        <5>. QED
          BY <5>2
      <4>2. Was(i, k) \in 1 .. m - 1 /\ jobs'[k] = jobs[Was(i, k)]
        <5>1. /\ Was(i, k) \in DOMAIN jobs /\ jobs'[k] = jobs[Was(i, k)]
              /\ Was(i, k) < m
          BY <2>1, <4>1 DEF m
        <5>. QED
          BY <3>2, <5>1
      <4>. QED
        BY <3>1, <3>3, <3>5, <4>2
    <3>. QED
      BY <3>1, <3>3, <3>4, <3>5
  <2>. QED
    BY <2>2, <2>4, <2>5 DEF StepsFind
<1>7. ASSUME NEW t \in Threads, RunJob(t) PROVE StepsFind'
  <2>1. /\ busy[t] \in JobSet /\ busy[t].slot \in Slots
        /\ busy' = [busy EXCEPT ![t] = NoJob]
    <3>1. busy[t] \in JobSet /\ busy' = [busy EXCEPT ![t] = NoJob]
      BY <1>7, RunResult
    <3>. QED
      BY <3>1, JobsPlaces
  <2>2. UNCHANGED <<jobs, upset>>
    BY <1>7 DEF RunJob
  <2>3. /\ busy'[t] = NoJob /\ \A u \in Threads \ {t} : busy'[u] = busy[u]
        /\ \A u \in Threads, s \in Slots :
             u # t \/ s # busy[t].slot => phase'[u][s] = phase[u][s]
    <3>1. busy'[t] = NoJob /\ \A u \in Threads \ {t} : busy'[u] = busy[u]
      BY <2>1 DEF Types
    <3>. QED
      BY <1>7, <3>1, RunPhase
  <2>4. NoJob.kind # JOB_STREAM_STEP
    BY DEF NoJob, JOB_STREAM_STEP
  <2>5. ASSUME NEW u \in Threads, busy'[u].kind = JOB_STREAM_STEP, busy'[u].cid \notin upset
        PROVE  HoldsIn(phase', u, busy'[u])
    <3>1. u # t /\ busy'[u] = busy[u]
      BY <2>3, <2>4, <2>5
    <3>2. busy[u].slot \in Slots
      <4>1. busy[u] # NoJob
        BY <2>4, <2>5, <3>1
      <4>. QED
        BY <4>1, JobsPlaces
    <3>. QED
      BY <2>3, <2>5, <3>1, <3>2 DEF StepsFind
  <2>6. ASSUME NEW j \in DOMAIN jobs,
               jobs[j].kind = JOB_STREAM_STEP, jobs[j].cid \notin upset
        PROVE  /\ HoldsIn(phase', jobs[j].thread, jobs[j])
               /\ busy'[jobs[j].thread].slot # jobs[j].slot
               /\ \A k \in 1 .. j - 1 :
                    jobs[k].thread = jobs[j].thread => jobs[k].slot # jobs[j].slot
    <3>1. jobs[j].thread \in Threads /\ jobs[j].slot \in Slots
          /\ NoJob.slot # jobs[j].slot
      BY JobsPlaces
    <3>2. /\ Holds(jobs[j].thread, jobs[j])
          /\ busy[jobs[j].thread].slot # jobs[j].slot
          /\ \A k \in 1 .. j - 1 :
               jobs[k].thread = jobs[j].thread => jobs[k].slot # jobs[j].slot
      BY <2>6 DEF StepsFind
    <3>3. phase'[jobs[j].thread][jobs[j].slot] = phase[jobs[j].thread][jobs[j].slot]
      BY <2>3, <3>1, <3>2
    <3>4. busy'[jobs[j].thread].slot # jobs[j].slot
      BY <2>3, <3>1, <3>2
    <3>. QED
      BY <2>2, <3>2, <3>3, <3>4
  <2>. QED
    BY <2>2, <2>5, <2>6 DEF StepsFind
<1>. QED
  BY <1>1, <1>2, <1>4, <1>5, <1>6, <1>7, StepIs, Zenon
-----------------------------------------------------------------------------
(* One thing in flight                                                     *)

LEMMA LiveFacts ==
    ASSUME Types, Named, AllKnown, NEW s \in Slots, live[s]
    PROVE  /\ cid[s] \in Nat \ {0} /\ cid[s] <= accepted
           /\ \A r \in Slots : live[r] /\ cid[r] = cid[s] => r = s
           /\ \A w \in Work : w.cid = cid[s] =>
                w.slot = s /\ w.gen = gen[s] /\ w.thread = owner[s]
           /\ \A r \in Said : r.cid = cid[s] => r.slot = s /\ r.gen = gen[s]
<1>1. cid[s] \in Nat \ {0} /\ cid[s] <= accepted
  BY DEF Named, Types
<1>. QED
  BY <1>1 DEF Named, AllKnown, Known

\* A connection to be has no pieces yet.
LEMMA NewcomerFacts ==
    ASSUME Types, AllKnown
    PROVE  /\ accepted + 1 \in Nat \ {0} /\ Outstanding(accepted + 1) = 0
           /\ \A w \in Work : w.cid # accepted + 1
           /\ \A r \in Said : r.cid # accepted + 1
<1>1. accepted \in Nat
  BY DEF Types
<1>2. /\ \A w \in Work : w.cid # accepted + 1
      /\ \A r \in Said : r.cid # accepted + 1
  BY <1>1, PiecesTyped DEF AllKnown, Known
<1>. QED
  BY <1>1, <1>2, OutstandingFacts

\* What is outside of connection c now and after the step.
N(c) == CountOf(jobs, results, busy, c)
M(c) == CountOf(jobs', results', busy', c)

LEMMA CountsAre ==
    /\ \A c : Outstanding(c) = N(c) /\ Outstanding(c)' = M(c)
    /\ OneEach =>
         \A s \in Slots : live[s] /\ cid[s] \notin upset =>
           /\ N(cid[s]) = IF inflight[s] THEN 1 ELSE 0
           /\ streaming[s] <=> last[s].kind # RES_DONE
           /\ number[s] = last[s].number + IF inflight[s] /\ ~streaming[s] THEN 1 ELSE 0
    /\ (\A s \in Slots : live'[s] /\ cid'[s] \notin upset' =>
          /\ M(cid'[s]) = IF inflight'[s] THEN 1 ELSE 0
          /\ streaming'[s] <=> last'[s].kind # RES_DONE
          /\ number'[s] = last'[s].number
                            + IF inflight'[s] /\ ~streaming'[s] THEN 1 ELSE 0)
         => OneEach'
<1>1. \A c : Outstanding(c) = N(c) /\ Outstanding(c)' = M(c)
  BY StateIsOf, StateIsOfNext DEF N, M
<1>. QED
  BY <1>1 DEF OneEach, Calm, Outstanding, M, N, CountOf, Of, RunOf

\* What the loss of a result takes from the others: nothing.
LEMMA LosesFacts ==
    ASSUME Types, Named, AllKnown, Loses
    PROVE  \A s \in Slots : live[s] =>
             /\ M(cid[s]) = N(cid[s])
             /\ \A r \in Said : r.cid = cid[s] => r \in Said'
             /\ cid[s] \notin upset' => inflight'[s] = inflight[s]
<1>. SUFFICES ASSUME NEW s \in Slots, live[s]
              PROVE  /\ M(cid[s]) = N(cid[s])
                     /\ \A r \in Said : r.cid = cid[s] => r \in Said'
                     /\ cid[s] \notin upset' => inflight'[s] = inflight[s]
  OBVIOUS
<1>. DEFINE res == Head(results)
<1>1. /\ Said = Said' \cup {res} /\ res \in ResultSet /\ res \in Said
      /\ \A c \in Nat \ {0} : M(c) = N(c) - IF res.cid = c THEN 1 ELSE 0
  BY ReceivePieces, CountsAre DEF Loses
<1>2. /\ ~live[res.slot] \/ res.gen # gen[res.slot]
      /\ \/ UNCHANGED inflight
         \/ /\ inflight' = [inflight EXCEPT ![res.slot] = FALSE]
            /\ inflight[res.slot] => cid[res.slot] \in upset'
      /\ inflight \in [Slots -> BOOLEAN]
  BY DEF Loses, Types, TypeOK
<1>. HIDE DEF res
<1>3. cid[s] \in Nat \ {0} /\ res.cid # cid[s] /\ N(cid[s]) \in Nat
  <2>1. cid[s] \in Nat \ {0}
    BY LiveFacts
  <2>2. res.cid # cid[s]
    BY <1>1, <1>2, LiveFacts
  <2>. QED
    BY <2>1, <2>2, OutstandingFacts, CountsAre
<1>4. cid[s] \notin upset' => inflight'[s] = inflight[s]
  <2>1. CASE UNCHANGED inflight
    BY <2>1
  <2>2. CASE /\ inflight' = [inflight EXCEPT ![res.slot] = FALSE]
             /\ inflight[res.slot] => cid[res.slot] \in upset'
    <3>1. CASE s = res.slot
      <4>1. inflight'[s] = FALSE
        BY <1>2, <2>2, <3>1
      <4>. QED
        BY <1>2, <2>2, <3>1, <4>1, Zenon
    <3>2. CASE s # res.slot
      BY <1>2, <2>2, <3>2
    <3>. QED
      BY <3>1, <3>2
  <2>. QED
    BY <1>2, <2>1, <2>2
<1>. QED
  BY <1>1, <1>3, <1>4

LEMMA NoneLeft ==
    ASSUME Types', NEW c \in Nat \ {0}, M(c) = 0
    PROVE  /\ \A w \in Work' : w.cid # c
           /\ \A r \in Said' : r.cid # c
<1>1. /\ jobs' \in Seq(JobSet) /\ results' \in Seq(ResultSet)
      /\ busy' \in [Threads -> JobSet \cup {NoJob}]
  BY DEF Types
<1>2. Absent(jobs', results', busy', c)
  BY <1>1, NoneOutstanding DEF M
<1>. QED
  BY <1>2, StateIsOfNext DEF Absent

LEMMA DropsFacts ==
    ASSUME Types, Named, AllKnown, NEW S \in SUBSET Slots, Drops(S)
    PROVE  \A s \in Slots \ S : live[s] =>
             /\ M(cid[s]) = N(cid[s])
             /\ \A r \in Said : r.cid = cid[s] => r \in Said'
<1>. SUFFICES ASSUME NEW s \in Slots \ S, live[s]
              PROVE  /\ M(cid[s]) = N(cid[s])
                     /\ \A r \in Said : r.cid = cid[s] => r \in Said'
  OBVIOUS
<1>1. /\ \A r \in Said \ Said' : r.slot \in S
      /\ \A c \in Nat \ {0} :
           \/ M(c) = N(c)
           \/ Head(results) \in Said /\ Head(results).slot \in S /\ Head(results).cid = c
  BY DropPieces, CountsAre
<1>2. /\ cid[s] \in Nat \ {0}
      /\ \A r \in Said : r.cid = cid[s] => r.slot = s
  BY LiveFacts
<1>. QED
  BY <1>1, <1>2

\* A delivered result was all there was of its connection.
LEMMA DeliversFacts ==
    ASSUME Types, Types', Named, AllKnown, OneEach,
           NEW s \in Slots, NEW res \in ResultSet, Delivers(s, res)
    PROVE  /\ res \in Said /\ res.cid = cid[s] /\ live[s]
           /\ Work' = Work /\ Said = Said' \cup {res}
           /\ UNCHANGED <<live, gen, owner, cid, number, accepted, phase, upset>>
           /\ \A r \in Slots : live[r] /\ r # s =>
                M(cid[r]) = N(cid[r]) /\ res.cid # cid[r]
           /\ cid[s] \notin upset =>
                /\ inflight[s] /\ M(cid[s]) = 0
                /\ \A w \in Work' : w.cid # cid[s]
                /\ \A r \in Said' : r.cid # cid[s]
<1>1. /\ Work' = Work /\ Said = Said' \cup {res} /\ res \in Said /\ live[s]
      /\ \A c \in Nat \ {0} : M(c) = N(c) - IF res.cid = c THEN 1 ELSE 0
      /\ UNCHANGED <<live, gen, owner, cid, number, accepted, phase, upset>>
  BY ReceivePieces, CountsAre DEF Delivers, Deliver
<1>2. res.cid = cid[s]
  BY <1>1 DEF Delivers, AllKnown, Known
<1>3. \A r \in Slots : live[r] /\ r # s => M(cid[r]) = N(cid[r]) /\ res.cid # cid[r]
  <2>1. \A r \in Slots : live[r] /\ r # s => cid[r] \in Nat \ {0} /\ res.cid # cid[r]
    BY <1>1, <1>2, LiveFacts
  <2>2. \A c \in Nat \ {0} : N(c) \in Nat
    BY OutstandingFacts, CountsAre
  <2>3. \A c \in Nat \ {0} : res.cid # c => M(c) = N(c)
    BY <1>1, <2>2
  <2>. QED
    BY <2>1, <2>3
<1>4. ASSUME cid[s] \notin upset
      PROVE  /\ inflight[s] /\ M(cid[s]) = 0
             /\ \A w \in Work' : w.cid # cid[s]
             /\ \A r \in Said' : r.cid # cid[s]
  <2>1. cid[s] \in Nat \ {0}
    BY <1>1, LiveFacts
  <2>2. N(cid[s]) # 0
    BY <1>1, <1>2, <2>1, OutstandingFacts, CountsAre
  <2>3. inflight[s] /\ N(cid[s]) = 1
    BY <1>1, <1>4, <2>2, CountsAre
  <2>4. M(cid[s]) = 0
    BY <1>1, <1>2, <2>1, <2>3
  <2>. QED
    BY <2>1, <2>3, <2>4, NoneLeft
<1>. QED
  BY <1>1, <1>2, <1>3, <1>4

\* A dispatched job is one more thing of its connection and of no other.
LEMMA SendCounts ==
    ASSUME Types, Named, AllKnown, NEW s \in Slots, live[s], NEW w, w.cid = cid[s],
           \A c \in Nat \ {0} :
             Outstanding(c)' = Outstanding(c) + IF w.cid = c THEN 1 ELSE 0
    PROVE  /\ M(cid[s]) = N(cid[s]) + 1
           /\ \A r \in Slots : live[r] /\ r # s =>
                M(cid[r]) = N(cid[r]) /\ w.cid # cid[r]
<1>1. \A c \in Nat \ {0} : N(c) \in Nat /\ M(c) = N(c) + IF w.cid = c THEN 1 ELSE 0
  BY OutstandingFacts, CountsAre
<1>2. \A c \in Nat \ {0} : IF w.cid = c THEN M(c) = N(c) + 1 ELSE M(c) = N(c)
  BY <1>1
<1>3. cid[s] \in Nat \ {0}
      /\ \A r \in Slots : live[r] /\ r # s => cid[r] \in Nat \ {0} /\ w.cid # cid[r]
  BY LiveFacts
<1>. QED
  BY <1>2, <1>3

LEMMA OneEachStep ==
    ASSUME Types, Types', Named, AllKnown, NoneOfElders, OneEach, Suited, [Next]_vars
    PROVE  OneEach'
<1>. DEFINE Good(s) ==
              /\ M(cid'[s]) = IF inflight'[s] THEN 1 ELSE 0
              /\ streaming'[s] <=> last'[s].kind # RES_DONE
              /\ number'[s] = last'[s].number
                                + IF inflight'[s] /\ ~streaming'[s] THEN 1 ELSE 0
<1>0. \A s \in Slots : live[s] /\ cid[s] \notin upset =>
        /\ N(cid[s]) = IF inflight[s] THEN 1 ELSE 0
        /\ streaming[s] <=> last[s].kind # RES_DONE
        /\ number[s] = last[s].number + IF inflight[s] /\ ~streaming[s] THEN 1 ELSE 0
  BY CountsAre
<1>1. ASSUME NEW s \in Slots, live[s], cid[s] \notin upset, M(cid[s]) = N(cid[s]),
             cid'[s] = cid[s], inflight'[s] = inflight[s], streaming'[s] = streaming[s],
             last'[s] = last[s], number'[s] = number[s]
      PROVE  Good(s)
  BY <1>0, <1>1
<1>2. CASE Rests \/ \E t \in Threads : TakeJob(t) \/ RunJob(t)
  <2>1. UNCHANGED <<live, cid, last, number, inflight, streaming>> /\ upset \subseteq upset'
    BY <1>2 DEF Rests, TakeJob, RunJob, slots, loop, history
  <2>2. \A c \in Nat \ {0} : M(c) = N(c)
    <3>1. CASE Rests
      BY <3>1, SamePieces, CountsAre DEF Rests
    <3>2. ASSUME NEW t \in Threads, TakeJob(t) PROVE \A c \in Nat \ {0} : M(c) = N(c)
      BY <3>2, TakePieces, CountsAre
    <3>3. ASSUME NEW t \in Threads, RunJob(t) PROVE \A c \in Nat \ {0} : M(c) = N(c)
      <4>1. PICK r \in ResultSet : results' = Append(results, r) /\ r.cid = busy[t].cid
        BY <3>3, RunResult
      <4>. QED
        BY <3>3, <4>1, RunPieces, CountsAre
    <3>. QED
      BY <1>2, <3>1, <3>2, <3>3
  <2>3. \A s \in Slots : live'[s] /\ cid'[s] \notin upset' => Good(s)
    <3>1. ASSUME NEW s \in Slots, live[s] PROVE cid[s] \in Nat \ {0}
      BY <3>1, LiveFacts
    <3>. HIDE DEF Good
    <3>. QED
      BY <1>1, <2>1, <2>2, <3>1
  <2>. QED
    BY <2>3, CountsAre
<1>3. CASE Loses
  <2>1. UNCHANGED <<live, cid, last, number, streaming>> /\ upset \subseteq upset'
    BY <1>3 DEF Loses, slots
  <2>2. \A s \in Slots : live'[s] /\ cid'[s] \notin upset' => Good(s)
    <3>. HIDE DEF Good
    <3>. QED
      BY <1>1, <1>3, <2>1, LosesFacts
  <2>. QED
    BY <2>2, CountsAre
<1>4. CASE Accept
  <2>1. PICK s \in Slots :
          /\ ~live[s] /\ live'[s] /\ cid'[s] = accepted + 1
          /\ \A r \in Slots \ {s} : live'[r] = live[r] /\ cid'[r] = cid[r]
    BY <1>4, AcceptFacts
  <2>2. UNCHANGED <<jobs, results, busy, inflight, streaming, number, last, upset>>
    BY <1>4, AcceptFacts
  <2>3. M(accepted + 1) = 0 /\ \A c : M(c) = N(c)
    BY <2>2, NewcomerFacts, CountsAre DEF M, N
  <2>4. Good(s)
    <3>1. ~inflight[s] /\ ~streaming[s] /\ last[s] = Nothing /\ number[s] = 0
      BY <2>1 DEF Types, TypeOK, Named
    <3>2. Nothing.kind = RES_DONE /\ Nothing.number = 0
      BY DEF Nothing
    <3>. QED
      BY <2>1, <2>2, <2>3, <3>1, <3>2
  <2>5. \A r \in Slots : live'[r] /\ cid'[r] \notin upset' => Good(r)
    <3>. HIDE DEF Good
    <3>. QED
      BY <1>1, <2>1, <2>2, <2>3, <2>4
  <2>. QED
    BY <2>5, CountsAre
<1>5. ASSUME NEW S \in SUBSET Slots, Drops(S) PROVE OneEach'
  <2>1. /\ upset \subseteq upset' /\ \A s \in S : ~live'[s]
        /\ \A s \in Slots \ S :
             /\ live'[s] = live[s] /\ last'[s] = last[s] /\ number'[s] = number[s]
             /\ streaming'[s] = streaming[s] /\ inflight'[s] = inflight[s]
             /\ cid'[s] = cid[s]
    BY <1>5, DropFacts DEF Drops
  <2>2. \A s \in Slots : live'[s] /\ cid'[s] \notin upset' => Good(s)
    <3>. HIDE DEF Good
    <3>. QED
      BY <1>1, <1>5, <2>1, DropsFacts
  <2>. QED
    BY <2>2, CountsAre
<1>6. ASSUME NEW s \in Slots, NEW res \in ResultSet, Delivers(s, res) PROVE OneEach'
  <2>1. \A r \in Slots \ {s} : /\ inflight'[r] = inflight[r] /\ last'[r] = last[r]
                               /\ streaming'[r] = streaming[r]
    BY <1>6 DEF Delivers, Deliver, Unmark, Types, TypeOK
  <2>2. /\ ~inflight'[s] /\ last'[s].kind = res.kind /\ last'[s].number = res.number
        /\ streaming'[s] = CASE res.kind = RES_STREAM_HEAD -> TRUE
                             [] res.kind = RES_DONE -> FALSE
                             [] OTHER -> streaming[s]
    BY <1>6 DEF Delivers, Deliver, Unmark, Types, TypeOK
  <2>3. ASSUME cid[s] \notin upset PROVE Good(s)
    <3>1. /\ res \in Said /\ res.cid = cid[s] /\ live[s] /\ M(cid[s]) = 0
          /\ UNCHANGED <<cid, number>>
      BY <1>6, <2>3, DeliversFacts
    <3>2. ResultSuits(res, s)
      BY <2>3, <3>1 DEF Suited, Calm
    <3>3. res.kind \in {RES_STREAM_HEAD, RES_BYTES, RES_DONE} /\ res.number \in Nat
      BY DEF ResultSet
    <3>4. res.number = number[s] /\ (res.kind = RES_BYTES => streaming[s])
      BY <3>2 DEF ResultSuits
    <3>5. streaming'[s] <=> res.kind # RES_DONE
      BY <2>2, <3>3, <3>4 DEF RES_STREAM_HEAD, RES_BYTES, RES_DONE
    <3>. QED
      BY <2>2, <3>1, <3>3, <3>4, <3>5
  <2>4. \A r \in Slots : live'[r] /\ cid'[r] \notin upset' => Good(r)
    <3>1. UNCHANGED <<live, cid, number, upset>>
          /\ \A r \in Slots : live[r] /\ r # s => M(cid[r]) = N(cid[r])
      BY <1>6, DeliversFacts
    <3>. HIDE DEF Good
    <3>. QED
      BY <1>1, <2>1, <2>3, <3>1
  <2>. QED
    BY <2>4, CountsAre
<1>7. ASSUME NEW s \in Slots, SendsStep(s) PROVE OneEach'
  <2>1. PICK w \in JobSet :
          /\ w.cid = cid[s]
          /\ \A c \in Nat \ {0} :
               Outstanding(c)' = Outstanding(c) + IF w.cid = c THEN 1 ELSE 0
    BY <1>7, SendsStepFacts
  <2>2. /\ live[s] /\ streaming[s] /\ ~inflight[s]
        /\ inflight' = [inflight EXCEPT ![s] = TRUE]
        /\ UNCHANGED <<live, cid, last, number, streaming, upset>>
    BY <1>7 DEF SendsStep, slots
  <2>3. /\ M(cid[s]) = N(cid[s]) + 1
        /\ \A r \in Slots : live[r] /\ r # s => M(cid[r]) = N(cid[r])
    BY <2>1, <2>2, SendCounts
  <2>4. inflight'[s] /\ \A r \in Slots \ {s} : inflight'[r] = inflight[r]
    BY <2>2 DEF Types, TypeOK
  <2>5. cid[s] \notin upset => Good(s)
    BY <1>0, <2>2, <2>3, <2>4
  <2>6. \A r \in Slots : live'[r] /\ cid'[r] \notin upset' => Good(r)
    <3>. HIDE DEF Good
    <3>. QED
      BY <1>1, <2>2, <2>3, <2>4, <2>5
  <2>. QED
    BY <2>6, CountsAre
<1>8. ASSUME NEW s \in Slots, SendsRequest(s) PROVE OneEach'
  <2>1. /\ live[s] /\ ~inflight[s] /\ number'[s] = number[s] + 1
        /\ UNCHANGED <<live, streaming, cid, last>>
        /\ upset \subseteq upset'
        /\ \A r \in Slots \ {s} : number'[r] = number[r]
        /\ streaming[s] => cid[s] \in upset'
        /\ \/ cid[s] \in upset' /\ UNCHANGED <<jobs, results, busy, inflight>>
           \/ \E w \in JobSet : SentRequest(s, w)
    BY <1>8, SendsRequestFacts
  <2>2. \/ /\ cid[s] \in upset' /\ UNCHANGED inflight
           /\ \A c : M(c) = N(c)
        \/ /\ inflight' = [inflight EXCEPT ![s] = TRUE]
           /\ M(cid[s]) = N(cid[s]) + 1
           /\ \A r \in Slots : live[r] /\ r # s => M(cid[r]) = N(cid[r])
    <3>1. CASE cid[s] \in upset' /\ UNCHANGED <<jobs, results, busy, inflight>>
      BY <3>1 DEF M, N
    <3>2. CASE \E w \in JobSet : SentRequest(s, w)
      <4>1. PICK w \in JobSet : SentRequest(s, w)
        BY <3>2
      <4>. QED
        BY <2>1, <4>1, SendCounts DEF SentRequest
    <3>. QED
      BY <2>1, <3>1, <3>2
  <2>3. \A r \in Slots \ {s} : inflight'[r] = inflight[r]
    BY <2>2 DEF Types, TypeOK
  <2>4. cid[s] \notin upset' => Good(s)
    <3>1. ASSUME cid[s] \notin upset'
          PROVE  /\ inflight'[s] /\ ~streaming[s]
                 /\ M(cid[s]) = N(cid[s]) + 1 /\ N(cid[s]) = 0
                 /\ number[s] = last[s].number /\ last[s].kind = RES_DONE
                 /\ number[s] \in Nat
      <4>1. number[s] \in Nat /\ last[s].number \in Nat
        BY DEF Types
      <4>2. inflight' = [inflight EXCEPT ![s] = TRUE] /\ M(cid[s]) = N(cid[s]) + 1
        BY <2>2, <3>1
      <4>3. inflight'[s]
        BY <4>2 DEF Types, TypeOK
      <4>4. ~streaming[s] /\ cid[s] \notin upset
        BY <2>1, <3>1
      <4>. QED
        BY <1>0, <2>1, <4>1, <4>2, <4>3, <4>4
    <3>. QED
      BY <2>1, <3>1
  <2>5. \A r \in Slots : live'[r] /\ cid'[r] \notin upset' => Good(r)
    <3>. HIDE DEF Good
    <3>. QED
      BY <1>1, <2>1, <2>2, <2>3, <2>4
  <2>. QED
    BY <2>5, CountsAre
<1>. HIDE DEF Good
<1>. QED
  BY <1>2, <1>3, <1>4, <1>5, <1>6, <1>7, <1>8, StepIs, Zenon

\* Work running of a connection that has one thing outside: it is that thing.
LEMMA RunningAlone ==
    ASSUME Types, NEW t \in Threads, NEW c \in Nat \ {0}, busy[t].cid = c, N(c) = 1
    PROVE  \A r \in Said : r.cid # c
<1>1. /\ jobs \in Seq(JobSet) /\ results \in Seq(ResultSet)
  BY DEF Types
<1>2. /\ Cardinality(Of(jobs, c)) \in Nat
      /\ IsFiniteSet(Of(results, c)) /\ Cardinality(Of(results, c)) \in Nat
      /\ IsFiniteSet(RunOf(busy, c)) /\ Cardinality(RunOf(busy, c)) \in Nat
  BY <1>1, OfFinite, RunFinite
<1>3. RunOf(busy, c) # {}
  BY DEF RunOf
<1>4. Cardinality(RunOf(busy, c)) # 0
  BY <1>2, <1>3, FS_EmptySet
<1>5. Cardinality(Of(results, c)) = 0
  BY <1>2, <1>4 DEF N, CountOf
<1>6. Of(results, c) = {}
  BY <1>2, <1>5, FS_EmptySet
<1>. QED
  BY <1>6 DEF Of, Said

Suits(s) ==
    /\ \A w \in Work : w.cid = cid[s] => JobSuits(w, s)
    /\ \A r \in Said : r.cid = cid[s] => ResultSuits(r, s)
    /\ streaming[s] /\ (\A r \in Said : r.cid # cid[s]) =>
         phase[owner[s]][s] = Stream(s, last[s].left)

\* It goes on suiting connections a step leaves alone.
LEMMA StillSuits ==
    ASSUME NEW s \in Slots, Suits(s),
           cid'[s] = cid[s], number'[s] = number[s], streaming'[s] = streaming[s],
           last'[s] = last[s], owner'[s] = owner[s],
           \A w \in Work' : w.cid = cid[s] => w \in Work,
           \A r \in Said' : r.cid = cid[s] => r \in Said,
           \A r \in Said : r.cid = cid[s] => r \in Said',
           streaming[s] \/ (\E r \in Said : r.cid = cid[s]) =>
             phase'[owner[s]][s] = phase[owner[s]][s]
    PROVE  Suits(s)'
<1>1. \A n : Stream(s, n)' = Stream(s, n)
  BY DEF Stream
<1>2. ASSUME NEW w \in Work', w.cid = cid[s] PROVE JobSuits(w, s)'
  BY <1>2 DEF Suits, JobSuits
<1>3. ASSUME NEW r \in Said', r.cid = cid[s] PROVE ResultSuits(r, s)'
  <2>1. ResultSuits(r, s) /\ phase'[owner[s]][s] = phase[owner[s]][s]
    BY <1>3 DEF Suits
  <2>. QED
    BY <2>1 DEF ResultSuits, Stream
<1>4. ASSUME streaming[s], \A r \in Said' : r.cid # cid[s]
      PROVE  phase'[owner[s]][s] = Stream(s, last[s].left)
  BY <1>4 DEF Suits
<1>. QED
  BY <1>2, <1>3, <1>4 DEF Suits, Stream

LEMMA SuitedIs ==
    /\ Suited <=> \A s \in Slots : live[s] /\ cid[s] \notin upset => Suits(s)
    /\ Suited' <=> \A s \in Slots : live'[s] /\ cid'[s] \notin upset' => Suits(s)'
BY DEF Suited, Suits, Calm

\* A result suits the connection whose job its thread has run.
LEMMA RunSuits ==
    ASSUME Types, Named, AllKnown, NoneOfElders, OneEach, Suited,
           NEW t \in Threads, RunJob(t), NEW s \in Slots, live[s], cid[s] \notin upset,
           busy[t].cid = cid[s]
    PROVE  Suits(s)'
<1>1. PICK r \in ResultSet :
        /\ results' = Append(results, r)
        /\ r.slot = busy[t].slot /\ r.gen = busy[t].gen
        /\ r.cid = busy[t].cid /\ r.number = busy[t].number
        /\ r.close => r.kind = RES_DONE
        /\ \/ /\ busy[t].kind = JOB_REQUEST
              /\ \/ r.kind = RES_DONE /\ UNCHANGED phase
                 \/ /\ r.kind = RES_STREAM_HEAD
                    /\ phase' = [phase EXCEPT ![t][busy[t].slot] =
                         [cid |-> r.cid, number |-> r.number, left |-> r.left]]
           \/ LET held == phase[t][busy[t].slot]
              IN  /\ busy[t].kind = JOB_STREAM_STEP
                  /\ \/ /\ held.left = r.left + 1 /\ r.kind = RES_BYTES
                        /\ phase' = [phase EXCEPT ![t][busy[t].slot] =
                             [cid |-> held.cid, number |-> held.number, left |-> r.left]]
                     \/ /\ held.left = 0 /\ r.kind = RES_DONE
                        /\ phase' = [phase EXCEPT ![t][busy[t].slot] = NoStream]
  BY RunResult, Zenon
<1>2. Work' \subseteq Work /\ busy[t] \in Work /\ Said' = Said \cup {r}
  BY <1>1, RunPieces
<1>3. UNCHANGED <<live, cid, number, streaming, last, owner, upset>>
  BY DEF RunJob, loop, history
<1>4. /\ cid[s] \in Nat \ {0} /\ busy[t].slot = s /\ owner[s] = t
  <2>1. busy[t].thread = t
    BY RunResult
  <2>2. /\ cid[s] \in Nat \ {0}
        /\ \A w \in Work : w.cid = cid[s] => w.slot = s /\ w.thread = owner[s]
    BY LiveFacts
  <2>. QED
    BY <1>2, <2>1, <2>2
<1>5. \A v \in Said : v.cid # cid[s]
  <2>1. N(cid[s]) # 0
    BY <1>2, <1>4, OutstandingFacts, CountsAre
  <2>2. N(cid[s]) = 1
    BY <2>1, CountsAre
  <2>. QED
    BY <1>4, <2>2, RunningAlone
<1>6. /\ r.number = number[s] /\ (busy[t].kind = JOB_STREAM_STEP <=> streaming[s])
      /\ \A w \in Work : w.cid = cid[s] => JobSuits(w, s)
      /\ streaming[s] => phase[t][s] = Stream(s, last[s].left)
  BY <1>1, <1>2, <1>4, <1>5, SuitedIs DEF Suits, JobSuits
<1>7. phase \in [Threads -> [Slots -> [cid : Nat, number : Nat, left : Nat]]]
  BY DEF Types
<1>8. ResultSuits(r, s)'
  <2>1. CASE busy[t].kind = JOB_REQUEST
    <3>1. ~streaming[s] /\ r.kind # RES_BYTES
      BY <1>1, <1>6, <2>1 DEF JOB_REQUEST, JOB_STREAM_STEP, RES_DONE, RES_STREAM_HEAD,
                              RES_BYTES
    <3>2. CASE r.kind = RES_DONE
      BY <1>3, <1>6, <3>1, <3>2
         DEF ResultSuits, RES_DONE, RES_STREAM_HEAD, RES_BYTES
    <3>3. CASE r.kind # RES_DONE
      <4>1. phase' = [phase EXCEPT ![t][s] =
                        [cid |-> r.cid, number |-> r.number, left |-> r.left]]
        BY <1>1, <1>4, <2>1, <3>3 DEF JOB_REQUEST, JOB_STREAM_STEP
      <4>2. phase'[t][s] = [cid |-> r.cid, number |-> r.number, left |-> r.left]
        BY <1>7, <4>1
      <4>3. phase'[t][s] = [cid |-> cid[s], number |-> number[s], left |-> r.left]
        BY <1>1, <1>6, <4>2
      <4>. QED
        BY <1>3, <1>4, <1>6, <3>1, <3>3, <4>3 DEF ResultSuits, Stream
    <3>. QED
      BY <3>2, <3>3
  <2>2. CASE busy[t].kind # JOB_REQUEST
    <3>1. /\ streaming[s]
          /\ \/ /\ phase[t][s].left = r.left + 1 /\ r.kind = RES_BYTES
                /\ phase' = [phase EXCEPT ![t][s] =
                     [cid |-> phase[t][s].cid, number |-> phase[t][s].number,
                      left |-> r.left]]
             \/ /\ phase[t][s].left = 0 /\ r.kind = RES_DONE
      BY <1>1, <1>4, <1>6, <2>2
    <3>2. /\ phase[t][s].cid = cid[s] /\ phase[t][s].number = number[s]
          /\ phase[t][s].left = last[s].left
      BY <1>6, <3>1 DEF Stream
    <3>3. CASE r.kind = RES_BYTES
      <4>1. phase' = [phase EXCEPT ![t][s] =
                     [cid |-> phase[t][s].cid, number |-> phase[t][s].number,
                      left |-> r.left]]
            /\ last[s].left = r.left + 1
        BY <3>1, <3>2, <3>3 DEF RES_BYTES, RES_DONE
      <4>2. phase'[t][s] = [cid |-> cid[s], number |-> number[s], left |-> r.left]
        BY <1>7, <3>2, <4>1
      <4>. QED
        BY <1>3, <1>4, <1>6, <3>1, <3>3, <4>1, <4>2
           DEF ResultSuits, Stream, RES_DONE, RES_STREAM_HEAD, RES_BYTES
    <3>4. CASE r.kind # RES_BYTES
      BY <1>3, <1>6, <3>1, <3>2, <3>4
         DEF ResultSuits, RES_DONE, RES_STREAM_HEAD, RES_BYTES
    <3>. QED
      BY <3>3, <3>4
  <2>. QED
    BY <2>1, <2>2
<1>9. \A w \in Work' : w.cid = cid[s] => JobSuits(w, s)'
  BY <1>2, <1>3, <1>6 DEF JobSuits
<1>. QED
  BY <1>1, <1>2, <1>3, <1>5, <1>8, <1>9 DEF Suits

LEMMA SuitedStep ==
    ASSUME Types, Types', Named, AllKnown, NoneOfElders, OneEach, Suited,
           [Next]_vars
    PROVE  Suited'
<1>0. \A s \in Slots : live[s] /\ cid[s] \notin upset => Suits(s)
  BY SuitedIs
<1>1. CASE Rests
  <2>1. /\ UNCHANGED <<live, cid, number, streaming, last, owner, phase>>
        /\ upset \subseteq upset' /\ Work' = Work /\ Said' = Said
    BY <1>1, SamePieces DEF Rests, slots
  <2>2. \A s \in Slots : Suits(s) => Suits(s)'
    BY <2>1, StillSuits
  <2>. QED
    BY <1>0, <2>1, <2>2, SuitedIs
<1>2. CASE Loses
  <2>1. /\ UNCHANGED <<live, cid, number, streaming, last, owner, phase>>
        /\ upset \subseteq upset' /\ Work' = Work /\ Said' \subseteq Said
    BY <1>2, ReceivePieces DEF Loses, slots
  <2>2. \A s \in Slots : live[s] /\ Suits(s) => Suits(s)'
    BY <1>2, <2>1, StillSuits, LosesFacts
  <2>. QED
    BY <1>0, <2>1, <2>2, SuitedIs
<1>3. CASE Accept
  <2>1. PICK s \in Slots :
          /\ ~live[s] /\ live'[s] /\ cid'[s] = accepted + 1
          /\ \A r \in Slots \ {s} : live'[r] = live[r] /\ cid'[r] = cid[r]
    BY <1>3, AcceptFacts
  <2>2. /\ UNCHANGED <<streaming, owner, number, last, phase, upset>>
        /\ Work' = Work /\ Said' = Said
    BY <1>3, AcceptFacts, SamePieces
  <2>3. Suits(s)'
    <3>1. ~streaming[s]
      BY <2>1 DEF Types, TypeOK
    <3>2. /\ \A w \in Work : w.cid # accepted + 1
          /\ \A r \in Said : r.cid # accepted + 1
      BY NewcomerFacts
    <3>. QED
      BY <2>1, <2>2, <3>1, <3>2 DEF Suits
  <2>4. \A r \in Slots \ {s} : Suits(r) => Suits(r)'
    BY <2>1, <2>2, StillSuits
  <2>. QED
    BY <1>0, <2>1, <2>2, <2>3, <2>4, SuitedIs
<1>4. ASSUME NEW S \in SUBSET Slots, Drops(S) PROVE Suited'
  <2>1. /\ phase' = phase /\ upset \subseteq upset' /\ \A s \in S : ~live'[s]
        /\ Work' = Work /\ Said' \subseteq Said
        /\ \A s \in Slots \ S :
             /\ live'[s] = live[s] /\ last'[s] = last[s] /\ number'[s] = number[s]
             /\ streaming'[s] = streaming[s] /\ owner'[s] = owner[s]
             /\ cid'[s] = cid[s]
    BY <1>4, DropFacts, DropPieces DEF Drops
  <2>2. \A s \in Slots \ S : live[s] /\ Suits(s) => Suits(s)'
    BY <1>4, <2>1, StillSuits, DropsFacts
  <2>. QED
    BY <1>0, <2>1, <2>2, SuitedIs
<1>5. ASSUME NEW s \in Slots, NEW res \in ResultSet, Delivers(s, res) PROVE Suited'
  <2>1. /\ res \in Said /\ res.cid = cid[s] /\ live[s]
        /\ Work' = Work /\ Said = Said' \cup {res}
        /\ UNCHANGED <<live, gen, owner, cid, number, accepted, phase, upset>>
        /\ \A r \in Slots : live[r] /\ r # s => res.cid # cid[r]
    BY <1>5, DeliversFacts
  <2>2. \A r \in Slots \ {s} : last'[r] = last[r] /\ streaming'[r] = streaming[r]
    BY <1>5 DEF Delivers, Deliver, Types, TypeOK
  <2>3. \A r \in Slots \ {s} : live[r] /\ Suits(r) => Suits(r)'
    BY <2>1, <2>2, StillSuits
  <2>4. ASSUME cid[s] \notin upset PROVE Suits(s)'
    <3>1. /\ \A w \in Work' : w.cid # cid[s]
          /\ \A r \in Said' : r.cid # cid[s]
      BY <1>5, <2>4, DeliversFacts
    <3>2. ResultSuits(res, s)
      BY <2>1, <2>4, <1>0 DEF Suits
    <3>3. /\ last'[s].kind = res.kind /\ last'[s].left = res.left
          /\ streaming'[s] = CASE res.kind = RES_STREAM_HEAD -> TRUE
                               [] res.kind = RES_DONE -> FALSE
                               [] OTHER -> streaming[s]
      BY <1>5 DEF Delivers, Deliver, Types, TypeOK
    <3>4. streaming'[s] => phase[owner[s]][s] = Stream(s, last'[s].left)
      <4>1. streaming'[s] => res.kind # RES_DONE
        BY <3>3 DEF RES_STREAM_HEAD, RES_DONE
      <4>. QED
        BY <3>2, <3>3, <4>1 DEF ResultSuits
    <3>. QED
      BY <2>1, <3>1, <3>4 DEF Suits, Stream
  <2>. QED
    BY <1>0, <2>1, <2>3, <2>4, SuitedIs
<1>6. ASSUME NEW s \in Slots, live[s], NEW w \in JobSet, w.cid = cid[s],
             Work' = Work \cup {w}, Said' = Said,
             \A c \in Nat \ {0} :
               Outstanding(c)' = Outstanding(c) + IF w.cid = c THEN 1 ELSE 0,
             UNCHANGED <<live, cid, streaming, last, phase>>, upset \subseteq upset',
             \A r \in Slots \ {s} : number'[r] = number[r] /\ owner'[r] = owner[r],
             cid[s] \notin upset' => Suits(s)'
      PROVE  Suited'
  <2>1. \A r \in Slots : live[r] /\ r # s => w.cid # cid[r]
    BY <1>6, SendCounts
  <2>2. \A r \in Slots \ {s} : live[r] /\ Suits(r) => Suits(r)'
    BY <1>6, <2>1, StillSuits
  <2>. QED
    BY <1>0, <1>6, <2>2, SuitedIs
<1>7. ASSUME NEW s \in Slots, live[s], ~inflight[s], cid[s] \notin upset
      PROVE  /\ \A w \in Work : w.cid # cid[s]
             /\ \A r \in Said : r.cid # cid[s]
  <2>1. cid[s] \in Nat \ {0} /\ N(cid[s]) = 0
    BY <1>7, LiveFacts, CountsAre
  <2>. QED
    BY <2>1, OutstandingFacts, CountsAre
<1>8. ASSUME NEW s \in Slots, SendsStep(s) PROVE Suited'
  <2>1. PICK w \in JobSet :
          /\ w.cid = cid[s] /\ w.number = number[s] /\ w.kind = JOB_STREAM_STEP
          /\ Work' = Work \cup {w} /\ Said' = Said
          /\ \A c \in Nat \ {0} :
               Outstanding(c)' = Outstanding(c) + IF w.cid = c THEN 1 ELSE 0
    BY <1>8, SendsStepFacts
  <2>2. /\ live[s] /\ streaming[s] /\ ~inflight[s]
        /\ UNCHANGED <<live, cid, number, streaming, last, owner, phase, upset>>
    BY <1>8 DEF SendsStep, slots
  <2>3. ASSUME cid[s] \notin upset PROVE Suits(s)'
    <3>1. /\ \A v \in Work : v.cid # cid[s]
          /\ \A r \in Said : r.cid # cid[s]
      BY <1>7, <2>2, <2>3
    <3>2. phase[owner[s]][s] = Stream(s, last[s].left)
      BY <1>0, <2>2, <2>3, <3>1 DEF Suits
    <3>3. JobSuits(w, s)
      BY <2>1, <2>2 DEF JobSuits
    <3>. QED
      BY <2>1, <2>2, <3>1, <3>2, <3>3 DEF Suits, JobSuits, Stream
  <2>. QED
    BY <1>6, <2>1, <2>2, <2>3
<1>9. ASSUME NEW s \in Slots, SendsRequest(s) PROVE Suited'
  <2>1. /\ live[s] /\ ~inflight[s]
        /\ UNCHANGED <<live, streaming, cid, last, phase, results, busy>>
        /\ upset \subseteq upset'
        /\ \A r \in Slots \ {s} : owner'[r] = owner[r] /\ number'[r] = number[r]
        /\ streaming[s] => cid[s] \in upset'
        /\ \/ cid[s] \in upset' /\ UNCHANGED jobs
           \/ \E w \in JobSet : SentRequest(s, w)
    BY <1>9, SendsRequestFacts
  <2>2. CASE cid[s] \in upset' /\ UNCHANGED jobs
    <3>1. Work' = Work /\ Said' = Said
      BY <2>1, <2>2, SamePieces
    <3>2. \A r \in Slots \ {s} : Suits(r) => Suits(r)'
      BY <2>1, <3>1, StillSuits
    <3>. QED
      BY <1>0, <2>1, <2>2, <3>2, SuitedIs
  <2>3. CASE \E w \in JobSet : SentRequest(s, w)
    <3>1. PICK w \in JobSet :
            /\ w.cid = cid[s] /\ w.number = number'[s] /\ w.kind = JOB_REQUEST
            /\ Work' = Work \cup {w} /\ Said' = Said
            /\ \A c \in Nat \ {0} :
                 Outstanding(c)' = Outstanding(c) + IF w.cid = c THEN 1 ELSE 0
      BY <2>3 DEF SentRequest
    <3>2. ASSUME cid[s] \notin upset' PROVE Suits(s)'
      <4>1. /\ \A v \in Work : v.cid # cid[s]
            /\ \A r \in Said : r.cid # cid[s]
        BY <1>7, <2>1, <3>2
      <4>2. ~streaming[s]
        BY <2>1, <3>2
      <4>3. w.kind # JOB_STREAM_STEP
        BY <3>1 DEF JOB_REQUEST, JOB_STREAM_STEP
      <4>. QED
        BY <2>1, <3>1, <4>1, <4>2, <4>3 DEF Suits, JobSuits
    <3>. QED
      BY <1>6, <2>1, <3>1, <3>2
  <2>. QED
    BY <2>1, <2>2, <2>3
<1>10. ASSUME NEW t \in Threads, TakeJob(t) PROVE Suited'
  <2>1. /\ UNCHANGED <<live, cid, number, streaming, last, owner, phase, upset>>
        /\ Work' = Work /\ Said' = Said
    BY <1>10, TakePieces DEF TakeJob, loop, history
  <2>2. \A s \in Slots : Suits(s) => Suits(s)'
    BY <2>1, StillSuits
  <2>. QED
    BY <1>0, <2>1, <2>2, SuitedIs
<1>11. ASSUME NEW t \in Threads, RunJob(t) PROVE Suited'
  <2>1. UNCHANGED <<live, cid, number, streaming, last, owner, upset>>
    BY <1>11 DEF RunJob, loop, history
  <2>2. PICK r \in ResultSet :
          /\ results' = Append(results, r) /\ r.cid = busy[t].cid
          /\ busy[t].thread = t /\ busy[t] \in JobSet
    BY <1>11, RunResult
  <2>3. Work' \subseteq Work /\ busy[t] \in Work /\ Said' = Said \cup {r}
    BY <1>11, <2>2, RunPieces
  <2>4. ASSUME NEW s \in Slots, live[s], cid[s] \notin upset, busy[t].cid # cid[s]
        PROVE  Suits(s)'
    <3>1. ASSUME streaming[s] \/ \E v \in Said : v.cid = cid[s]
          PROVE  phase'[owner[s]][s] = phase[owner[s]][s]
      <4>1. Caught(s)
        <5>1. \A v \in Said : v.cid = cid[s] => v.slot = s /\ v.gen = gen[s]
          BY <2>4, LiveFacts
        <5>. QED
          BY <3>1, <5>1 DEF NoneOfElders
      <4>2. owner[s] # t \/ busy[t].slot # s
        <5>1. ASSUME owner[s] = t, busy[t].slot = s PROVE busy[t].cid = cid[s]
          BY <2>2, <2>3, <4>1, <5>1 DEF Caught, AllKnown, Known
        <5>. QED
          BY <2>4, <5>1
      <4>. QED
        BY <1>11, <4>1, <4>2, RunPhase DEF Caught
    <3>. QED
      BY <1>0, <2>1, <2>2, <2>3, <2>4, <3>1, StillSuits
  <2>. QED
    BY <1>11, <2>1, <2>4, RunSuits, SuitedIs
<1>. QED
  BY <1>1, <1>2, <1>3, <1>4, <1>5, <1>8, <1>9, <1>10, <1>11, StepIs, Zenon
-----------------------------------------------------------------------------
(* What closes a connection is its last, and the threads leave last        *)

LEMMA ClosedIs ==
    /\ Closed <=>
         /\ \A s \in Slots : last[s].close => closing[s]
         /\ \A s \in Slots : live[s] /\ cid[s] \notin upset /\ closing[s] =>
              ~inflight[s] /\ ~streaming[s]
         /\ \A r \in Said : r.close => r.kind = RES_DONE
    /\ Closed' <=>
         /\ \A s \in Slots : last'[s].close => closing'[s]
         /\ \A s \in Slots : live'[s] /\ cid'[s] \notin upset' /\ closing'[s] =>
              ~inflight'[s] /\ ~streaming'[s]
         /\ \A r \in Said' : r.close => r.kind = RES_DONE
BY DEF Closed, Calm

LEMMA ClosedStep ==
    ASSUME Types, Types', Named, AllKnown, NoneOfElders, OneEach, Closed, [Next]_vars
    PROVE  Closed'
<1>0. /\ \A s \in Slots : last[s].close => closing[s]
      /\ \A s \in Slots : live[s] /\ cid[s] \notin upset /\ closing[s] =>
           ~inflight[s] /\ ~streaming[s]
      /\ \A r \in Said : r.close => r.kind = RES_DONE
  BY ClosedIs
<1>1. CASE Rests
  <2>1. /\ UNCHANGED <<live, cid, last, inflight, streaming>> /\ upset \subseteq upset'
        /\ Said' = Said
        /\ \A s \in Slots : closing'[s] # closing[s] =>
             closing'[s] /\ live[s] /\ ~inflight[s] /\ (streaming[s] => cid[s] \in upset')
    BY <1>1, SamePieces DEF Rests, slots
  <2>2. \A s \in Slots : closing[s] => closing'[s]
    BY <2>1
  <2>3. ASSUME NEW s \in Slots, live[s], cid[s] \notin upset', closing'[s]
        PROVE  ~inflight[s] /\ ~streaming[s]
    <3>1. CASE closing[s]
      BY <1>0, <2>1, <2>3, <3>1
    <3>2. CASE ~closing[s]
      BY <2>1, <2>3, <3>2
    <3>. QED
      BY <3>1, <3>2
  <2>. QED
    BY <1>0, <2>1, <2>2, <2>3, ClosedIs
<1>2. CASE Loses
  <2>1. /\ UNCHANGED <<live, cid, last, closing, streaming>> /\ upset \subseteq upset'
        /\ Said' \subseteq Said
    BY <1>2, ReceivePieces DEF Loses, slots
  <2>2. \A s \in Slots : live[s] /\ cid[s] \notin upset' => inflight'[s] = inflight[s]
    BY <1>2, LosesFacts
  <2>. QED
    BY <1>0, <2>1, <2>2, ClosedIs
<1>3. CASE Accept
  <2>1. PICK s \in Slots :
          /\ ~live[s] /\ live'[s]
          /\ \A r \in Slots \ {s} : live'[r] = live[r] /\ cid'[r] = cid[r]
    BY <1>3, AcceptFacts
  <2>2. /\ UNCHANGED <<inflight, streaming, closing, last, upset>> /\ Said' = Said
    BY <1>3, AcceptFacts, SamePieces
  <2>3. ~closing[s]
    BY <2>1 DEF Types, TypeOK
  <2>. QED
    BY <1>0, <2>1, <2>2, <2>3, ClosedIs
<1>4. ASSUME NEW S \in SUBSET Slots, Drops(S) PROVE Closed'
  <2>1. /\ upset \subseteq upset' /\ Said' \subseteq Said
        /\ \A s \in S : ~live'[s] /\ last'[s] = Nothing
        /\ \A s \in Slots \ S :
             /\ live'[s] = live[s] /\ last'[s] = last[s] /\ inflight'[s] = inflight[s]
             /\ streaming'[s] = streaming[s] /\ cid'[s] = cid[s]
             /\ closing'[s] = closing[s]
    BY <1>4, DropFacts, DropPieces DEF Drops
  <2>2. ~Nothing.close
    BY DEF Nothing
  <2>. QED
    BY <1>0, <2>1, <2>2, ClosedIs
<1>5. ASSUME NEW s \in Slots, NEW res \in ResultSet, Delivers(s, res) PROVE Closed'
  <2>1. /\ res \in Said /\ Said = Said' \cup {res} /\ live[s]
        /\ UNCHANGED <<live, cid, upset>>
        /\ cid[s] \notin upset => inflight[s]
    BY <1>5, DeliversFacts
  <2>2. \A r \in Slots \ {s} : /\ last'[r] = last[r] /\ streaming'[r] = streaming[r]
                               /\ inflight'[r] = inflight[r] /\ closing'[r] = closing[r]
    BY <1>5 DEF Delivers, Deliver, Unmark, Types, TypeOK
  <2>3. /\ last'[s].close = res.close /\ ~inflight'[s]
        /\ streaming'[s] = CASE res.kind = RES_STREAM_HEAD -> TRUE
                             [] res.kind = RES_DONE -> FALSE
                             [] OTHER -> streaming[s]
    BY <1>5 DEF Delivers, Deliver, Unmark, Types, TypeOK
  <2>4. closing'[s] = (closing[s] \/ (res.kind = RES_DONE /\ res.close))
    <3>1. closing \in [Slots -> BOOLEAN]
          /\ closing' = [closing EXCEPT ![s] = @ \/ (res.kind = RES_DONE /\ res.close)]
      BY <1>5 DEF Delivers, Deliver, Types, TypeOK
    <3>. QED
      BY <3>1, Zenon
  <2>5. last'[s].close => closing'[s]
    BY <1>0, <2>1, <2>3, <2>4
  <2>6. ASSUME cid[s] \notin upset, closing'[s] PROVE ~inflight'[s] /\ ~streaming'[s]
    <3>1. ~closing[s]
      BY <1>0, <2>1, <2>6
    <3>2. res.kind = RES_DONE
      BY <2>4, <2>6, <3>1
    <3>. QED
      BY <2>3, <3>2 DEF RES_DONE, RES_STREAM_HEAD
  <2>. QED
    BY <1>0, <2>1, <2>2, <2>5, <2>6, ClosedIs
<1>6. ASSUME NEW s \in Slots, SendsStep(s) PROVE Closed'
  <2>1. /\ live[s] /\ streaming[s] /\ inflight' = [inflight EXCEPT ![s] = TRUE]
        /\ UNCHANGED <<live, cid, last, closing, streaming, results, upset>>
    BY <1>6 DEF SendsStep, slots
  <2>2. Said' = Said /\ \A r \in Slots \ {s} : inflight'[r] = inflight[r]
    BY <2>1 DEF Said, Types, TypeOK
  <2>. QED
    BY <1>0, <2>1, <2>2, ClosedIs
<1>7. ASSUME NEW s \in Slots, SendsRequest(s) PROVE Closed'
  <2>1. /\ UNCHANGED <<live, streaming, closing, cid, last, results>>
        /\ upset \subseteq upset' /\ (closing[s] => cid[s] \in upset')
    BY <1>7, SendsRequestFacts
  <2>2. Said' = Said /\ \A r \in Slots \ {s} : inflight'[r] = inflight[r]
    <3>1. inflight' = [inflight EXCEPT ![s] = TRUE] \/ UNCHANGED inflight
      BY <1>7, SendsRequestFacts DEF SentRequest
    <3>2. Said' = Said
      BY <2>1 DEF Said
    <3>3. inflight \in [Slots -> BOOLEAN]
      BY DEF Types, TypeOK
    <3>4. \A r \in Slots \ {s} : inflight'[r] = inflight[r]
      BY <3>1, <3>3
    <3>. QED
      BY <3>2, <3>4
  <2>. QED
    BY <1>0, <2>1, <2>2, ClosedIs
<1>8. ASSUME NEW t \in Threads, TakeJob(t) PROVE Closed'
  <2>1. UNCHANGED <<live, cid, last, closing, inflight, streaming, upset>> /\ Said' = Said
    BY <1>8, TakePieces DEF TakeJob, loop, conns, history
  <2>. QED
    BY <1>0, <2>1, ClosedIs
<1>9. ASSUME NEW t \in Threads, RunJob(t) PROVE Closed'
  <2>1. UNCHANGED <<live, cid, last, closing, inflight, streaming, upset>>
    BY <1>9 DEF RunJob, loop, conns, history
  <2>2. PICK r \in ResultSet :
          /\ results' = Append(results, r) /\ r.cid = busy[t].cid
          /\ r.close => r.kind = RES_DONE
    BY <1>9, RunResult
  <2>3. Said' = Said \cup {r}
    BY <1>9, <2>2, RunPieces
  <2>. QED
    BY <1>0, <2>1, <2>2, <2>3, ClosedIs
<1>. QED
  BY <1>1, <1>2, <1>3, <1>4, <1>5, <1>6, <1>7, <1>8, <1>9, StepIs, Zenon

LEMMA FirstOf ==
    ASSUME NEW S \in SUBSET Nat, S # {}
    PROVE  \E i \in S : \A j \in S : i <= j
<1>1. IsWellFoundedOn(OpToRel(<, Nat), Nat)
  BY NatLessThanWellFounded
<1>2. OpToRel(<, Nat) = {ss \in Nat \X Nat : ss[1] < ss[2]}
  BY DEF OpToRel
<1>3. PICK i \in S : \A j \in S : <<j, i>> \notin {ss \in Nat \X Nat : ss[1] < ss[2]}
  BY <1>1, <1>2, WFMin
<1>4. ASSUME NEW j \in S PROVE i <= j
  <2>1. <<j, i>> \in Nat \X Nat => ~(j < i)
    BY <1>3
  <2>. QED
    BY <2>1
<1>. QED
  BY <1>4

LEMMA LeavingStep ==
    ASSUME Types, NoneOfElders, Leaving, [Next]_vars
    PROVE  Leaving'
<1>0. /\ stop <=> pc \in {"join", "done"}
      /\ \A t \in Threads : exited[t] => stop
      /\ \A t \in Threads : looked[t] \/ exited[t] => OnlyBelated(t)
      /\ pc = "done" => \A t \in Threads : exited[t]
  BY DEF Leaving
<1>1. ASSUME UNCHANGED <<pc, stop, jobs, belated, busy, looked, exited>> PROVE Leaving'
  BY <1>0, <1>1 DEF Leaving, OnlyBelated
\* While the loop works no thread has gone.
<1>2. ASSUME ~stop, stop' <=> pc' \in {"join", "done"}, pc' # "done",
             UNCHANGED <<jobs, belated, busy, looked, exited>>
      PROVE  Leaving'
  BY <1>0, <1>2 DEF Leaving, OnlyBelated
<1>3. ASSUME pc \in {"events", "collect", "streams", "requests", "raised"} PROVE ~stop
  BY <1>0, <1>3
\* What is pushed then is belated where its thread has looked.
<1>4. ASSUME NEW w \in JobSet, Push(w), pc \in {"streams", "requests"}, pc' = pc,
             UNCHANGED <<stop, busy, looked, exited>>
      PROVE  Leaving'
  <2>1. /\ DOMAIN jobs' = 1 .. Len(jobs) + 1 /\ jobs'[Len(jobs) + 1] = w
        /\ \A i \in 1 .. Len(jobs) : jobs'[i] = jobs[i]
        /\ Len(jobs) \in Nat /\ DOMAIN jobs = 1 .. Len(jobs)
    BY <1>4, PutPlaces, JobsPlaces DEF Push
  <2>2. belated \subseteq belated' /\ (looked[w.thread] => w \in belated')
    BY <1>4 DEF Push
  <2>3. ASSUME NEW t \in Threads, looked[t] PROVE OnlyBelated(t)'
    <3>1. OnlyBelated(t)
      BY <1>0, <2>3
    <3>2. ASSUME NEW k \in DOMAIN jobs', jobs'[k].thread = t PROVE jobs'[k] \in belated'
      <4>1. k = Len(jobs) + 1 \/ (k \in DOMAIN jobs /\ jobs'[k] = jobs[k])
        BY <2>1
      <4>. QED
        BY <2>1, <2>2, <2>3, <3>1, <3>2, <4>1 DEF OnlyBelated
    <3>. QED
      BY <1>4, <3>1, <3>2 DEF OnlyBelated
  <2>. QED
    BY <1>0, <1>3, <1>4, <2>3 DEF Leaving
<1>5. CASE UNCHANGED vars \/ Ended
  BY <1>1, <1>5 DEF Ended, vars, mailbox, threads
<1>6. CASE Accept
  BY <1>2, <1>3, <1>6, <1>0 DEF Accept, Stay, mailbox, threads
<1>7. ASSUME NEW s \in Slots, Receive(s) PROVE Leaving'
  <2>1. pc = "events" /\ UNCHANGED <<stop, jobs, belated, busy, looked, exited>>
    BY <1>7 DEF Receive, mailbox, threads
  <2>2. pc' \in {"events", "raised"}
    BY <1>7, <2>1 DEF Receive, ReceiveRequest, ReceiveEnd, Goto, Stay
  <2>. QED
    BY <1>2, <1>3, <2>1, <2>2
<1>8. ASSUME NEW s \in Slots, Flush(s) \/ Reset(s) PROVE Leaving'
  BY <1>2, <1>3, <1>8 DEF Flush, Reset, Stay, mailbox, threads
<1>9. CASE Polled
  BY <1>2, <1>3, <1>9 DEF Polled, Goto, mailbox, threads
<1>10. CASE Collect
  <2>1. pc = "collect" /\ UNCHANGED <<stop, jobs, belated, busy, looked, exited>>
    BY <1>10 DEF Collect, threads
  <2>2. pc' \in {"collect", "streams"}
    BY <1>10, <2>1, Zenon DEF Collect, Goto, Stay
  <2>. QED
    BY <1>2, <1>3, <2>1, <2>2
<1>11. CASE DispatchStream
  <2>1. PICK s \in Reaches(StreamsDue) :
          IF HasRoom THEN Push(Job(s, JOB_STREAM_STEP, owner[s], number[s]))
          ELSE UNCHANGED <<jobs, belated>>
    BY <1>11 DEF DispatchStream
  <2>2. s \in Slots /\ streaming[s]
    BY DEF Reaches, Ahead, StreamsDue
  <2>3. Job(s, JOB_STREAM_STEP, owner[s], number[s]) \in JobSet
    BY <2>2, JobTyped DEF Types, NoneOfElders, Caught
  <2>4. pc = "streams" /\ pc' = "streams" /\ UNCHANGED <<stop, busy, looked, exited>>
    BY <1>11 DEF DispatchStream, Goto, threads
  <2>. QED
    BY <1>2, <1>3, <1>4, <2>1, <2>3, <2>4
<1>12. CASE DispatchRoom
  BY <1>2, <1>3, <1>12 DEF DispatchRoom, Goto, mailbox, threads
<1>13. CASE DispatchRequest
  <2>1. pc = "requests" /\ pc' = "requests" /\ UNCHANGED <<stop, busy, looked, exited>>
    BY <1>13 DEF DispatchRequest, Goto, threads
  <2>2. PICK s \in Reaches(RequestsDue) : TakeRequest(s) \/ TakeEnd(s)
    BY <1>13 DEF DispatchRequest
  <2>3. s \in Slots /\ live[s]
    BY DEF Reaches, Ahead, RequestsDue, MayDispatch
  <2>4. CASE TakeEnd(s)
    BY <1>2, <1>3, <2>1, <2>4 DEF TakeEnd
  <2>5. CASE TakeRequest(s)
    <3>1. IF HasRoom
          THEN Push(Job(s, JOB_REQUEST, OwnerFor(s).thread, number[s] + 1))
          ELSE UNCHANGED <<jobs, belated>>
      BY <2>5 DEF TakeRequest
    <3>2. Job(s, JOB_REQUEST, OwnerFor(s).thread, number[s] + 1) \in JobSet
      <4>1. OwnerFor(s).thread \in Threads /\ number[s] + 1 \in Nat
        BY <2>3, <2>5, TakeRequestTypes DEF Types
      <4>. QED
        BY <2>3, <4>1, JobTyped
    <3>. QED
      BY <1>2, <1>3, <1>4, <2>1, <3>1, <3>2
  <2>. QED
    BY <2>2, <2>4, <2>5
<1>14. CASE Reap
  BY <1>2, <1>3, <1>14 DEF Reap, Goto, threads
<1>15. CASE Join
  BY <1>0, <1>15 DEF Join, Goto, mailbox, threads, Leaving, OnlyBelated
<1>16. ASSUME NEW t \in Threads, TakeJob(t) PROVE Leaving'
  <2>1. UNCHANGED <<pc, stop, belated, looked, exited>>
    BY <1>16 DEF TakeJob
  <2>2. PICK i \in DOMAIN jobs :
          /\ Ready(t) /\ busy' = [busy EXCEPT ![t] = jobs[i]]
          /\ \A j \in DOMAIN jobs' :
               Was(i, j) \in DOMAIN jobs /\ jobs'[j] = jobs[Was(i, j)]
    BY <1>16, TakePlaces
  <2>3. \A u \in Threads : looked[u] \/ exited[u] => busy'[u] = busy[u]
    BY <2>2 DEF Types, Ready
  <2>. QED
    BY <1>0, <2>1, <2>2, <2>3 DEF Leaving, OnlyBelated
<1>17. ASSUME NEW t \in Threads, RunJob(t) PROVE Leaving'
  <2>1. /\ UNCHANGED <<pc, stop, belated, looked, exited, jobs>>
        /\ busy' = [busy EXCEPT ![t] = NoJob]
    BY <1>17 DEF RunJob
  <2>2. \A u \in Threads : busy[u] = NoJob => busy'[u] = NoJob
    BY <2>1 DEF Types
  <2>. QED
    BY <1>0, <2>1, <2>2 DEF Leaving, OnlyBelated
\* A thread that has found nothing has nothing waiting.
<1>18. ASSUME NEW t \in Threads, FindNone(t) PROVE Leaving'
  <2>1. /\ UNCHANGED <<pc, stop, jobs, belated, busy, exited>>
        /\ Ready(t) /\ NextJob(t) = {} /\ looked' = [looked EXCEPT ![t] = TRUE]
    BY <1>18 DEF FindNone, Spent, mailbox
  <2>2. \A j \in DOMAIN jobs : jobs[j].thread # t
    <3>. DEFINE Mine_ == {j \in DOMAIN jobs : jobs[j].thread = t}
    <3>1. DOMAIN jobs = 1 .. Len(jobs) /\ Len(jobs) \in Nat
      BY JobsPlaces
    <3>2. SUFFICES ASSUME Mine_ # {} PROVE FALSE
      OBVIOUS
    <3>3. PICK i \in Mine_ : \A j \in Mine_ : i <= j
      <4>1. Mine_ \subseteq Nat
        BY <3>1
      <4>. HIDE DEF Mine_
      <4>. QED
        BY <3>2, <4>1, FirstOf
    <3>4. \A j \in 1 .. i - 1 : j \in DOMAIN jobs /\ j \notin Mine_
      BY <3>1, <3>3
    <3>5. i \in NextJob(t)
      BY <3>3, <3>4 DEF NextJob
    <3>. QED
      BY <2>1, <3>5
  <2>3. \A u \in Threads : looked'[u] => u = t \/ looked[u]
    BY <2>1 DEF Types
  <2>4. OnlyBelated(t)
    BY <2>1, <2>2 DEF OnlyBelated, Ready
  <2>5. \A u \in Threads : OnlyBelated(u)' <=> OnlyBelated(u)
    BY <2>1 DEF OnlyBelated
  <2>. QED
    BY <1>0, <2>1, <2>3, <2>4, <2>5 DEF Leaving
<1>19. ASSUME NEW t \in Threads, AskStop(t) PROVE Leaving'
  <2>1. /\ UNCHANGED <<pc, stop, jobs, busy>> /\ looked[t]
        /\ looked' = [looked EXCEPT ![t] = FALSE]
        /\ exited' = [exited EXCEPT ![t] = stop]
        /\ belated' = IF stop THEN belated ELSE {job \in belated : job.thread # t}
    BY <1>19 DEF AskStop
  <2>2. /\ exited'[t] = stop /\ ~looked'[t]
        /\ \A u \in Threads \ {t} : looked'[u] = looked[u] /\ exited'[u] = exited[u]
    BY <2>1 DEF Types
  <2>3. ASSUME NEW u \in Threads, looked'[u] \/ exited'[u] PROVE OnlyBelated(u)'
    <3>1. OnlyBelated(u)
      BY <1>0, <2>1, <2>2, <2>3
    <3>2. stop \/ u # t
      BY <2>2, <2>3
    <3>. QED
      BY <2>1, <3>1, <3>2 DEF OnlyBelated
  <2>4. \A u \in Threads : exited'[u] => stop'
    BY <1>0, <2>1, <2>2
  <2>5. pc' = "done" => \A u \in Threads : exited'[u]
    BY <1>0, <2>1, <2>2
  <2>. QED
    BY <1>0, <2>1, <2>3, <2>4, <2>5 DEF Leaving
<1>. QED
  BY <1>5, <1>6, <1>7, <1>8, <1>9, <1>10, <1>11, <1>12, <1>13, <1>14, <1>15, <1>16,
     <1>17, <1>18, <1>19, Zenon DEF Next, Loop, Engine
-----------------------------------------------------------------------------
(* The invariant                                                           *)

LEMMA InitTypes == Init => Types
<1>. SUFFICES ASSUME Init PROVE Types
  OBVIOUS
<1>. USE DEF Init
<1>1. Nothing \in [cid : Nat, number : Nat, left : Nat, close : BOOLEAN,
                   kind : {RES_STREAM_HEAD, RES_BYTES, RES_DONE}]
      /\ NoStream \in [cid : Nat, number : Nat, left : Nat]
  BY DEF Nothing, NoStream
<1>2. jobs \in Seq(JobSet) /\ results \in Seq(ResultSet) /\ Len(jobs) = 0
  BY EmptySeq
<1>3. /\ 0 \in 0 .. MAX_INBOUND /\ 0 \in 0 .. SEND_HIGH_WATER /\ 0 \in Threads
      /\ 0 <= MAILBOX_CAP
  BY LoopAssumption DEF Threads
<1>4. TypeOK
  BY <1>2, <1>3 DEF TypeOK
<1>5. /\ busy \in [Threads -> JobSet \cup {NoJob}]
      /\ \A t \in Threads : busy[t] = NoJob
      /\ exited \in [Threads -> BOOLEAN]
  OBVIOUS
<1>6. phase \in [Threads -> [Slots -> [cid : Nat, number : Nat, left : Nat]]]
  BY <1>1
<1>7. last \in [Slots -> [cid : Nat, number : Nat, left : Nat, close : BOOLEAN,
                          kind : {RES_STREAM_HEAD, RES_BYTES, RES_DONE}]]
  BY <1>1
<1>8. /\ accepted \in Nat /\ received \in Nat /\ stop \in BOOLEAN
      /\ cid \in [Slots -> Nat] /\ number \in [Slots -> Nat]
      /\ at \in Nat
  OBVIOUS
<1>. QED
  BY <1>2, <1>4, <1>5, <1>6, <1>7, <1>8 DEF Types

LEMMA InitIInv == Init => IInv
<1>. SUFFICES ASSUME Init PROVE IInv
  OBVIOUS
<1>1. Types
  BY InitTypes
<1>2. /\ \A s \in Slots : ~live[s] /\ ~streaming[s] /\ last[s] = Nothing /\ number[s] = 0
      /\ DOMAIN jobs = {} /\ DOMAIN results = {} /\ jobs = <<>>
      /\ \A t \in Threads : busy[t] = NoJob /\ ~looked[t] /\ ~exited[t]
      /\ pc = "events" /\ ~stop
  BY DEF Init
<1>3. Work = {} /\ Said = {}
  BY <1>2 DEF Work, Said
<1>4. Named /\ AllKnown /\ InTurn /\ NoneOfElders
  BY <1>2, <1>3 DEF Named, AllKnown, InTurn, NoneOfElders
<1>5. StepsFind
  <2>1. NoJob.kind # JOB_STREAM_STEP
    BY DEF NoJob, JOB_STREAM_STEP
  <2>. QED
    BY <1>2, <2>1 DEF StepsFind, StepFindsItsStream
<1>6. OneEach /\ Suited /\ Closed
  <2>1. Calm = {} /\ ~Nothing.close
    BY <1>2 DEF Calm, Nothing
  <2>. QED
    BY <1>2, <1>3, <2>1 DEF OneEach, Suited, Closed
<1>7. Leaving
  BY <1>2 DEF Leaving
<1>. QED
  BY <1>1, <1>4, <1>5, <1>6, <1>7 DEF IInv

LEMMA IInvStep == IInv /\ [Next]_vars => IInv'
<1>. SUFFICES ASSUME IInv, [Next]_vars PROVE IInv'
  OBVIOUS
<1>1. /\ Types /\ Named /\ AllKnown /\ InTurn /\ NoneOfElders /\ StepsFind
      /\ OneEach /\ Suited /\ Closed /\ Leaving
  BY DEF IInv
<1>2. Types'
  BY <1>1, TypesStep
<1>3. Named' /\ AllKnown' /\ InTurn' /\ NoneOfElders' /\ Leaving'
  BY <1>1, NamedStep, AllKnownStep, InTurnStep, NoneOfEldersStep, LeavingStep
<1>4. StepsFind' /\ OneEach' /\ Suited' /\ Closed'
  BY <1>1, <1>2, StepsFindStep, OneEachStep, SuitedStep, ClosedStep
<1>. QED
  BY <1>2, <1>3, <1>4 DEF IInv

\* The inductive invariant: types and names, whose a piece of work is, and
\* what each connection has outside of the loop.
THEOREM Invariance == Spec => []IInv
<1>1. Init => IInv
  BY InitIInv
<1>2. IInv /\ [Next]_vars => IInv'
  BY IInvStep
<1>. QED
  BY <1>1, <1>2, PTL DEF Spec

\* Every variable of the loop, of its connections, of the mailbox and of the
\* threads keeps its type, the mailbox its bound, and a free slot is empty.
THEOREM TypeCorrect == Spec => []TypeOK
<1>1. IInv => TypeOK
  BY DEF IInv, Types
<1>. QED
  BY <1>1, Invariance, PTL

\* run_threaded: what is sent to a connection was made for it, and a step of
\* a stream finds, on its thread, the stream it is a step of.
THEOREM GoesHome == Spec => []AnswersGoHome
<1>1. IInv => AnswersGoHome
  <2>. SUFFICES ASSUME IInv PROVE AnswersGoHome
    OBVIOUS
  <2>1. Named /\ StepFindsItsStream
    BY DEF IInv, StepsFind
  <2>. QED
    BY <2>1 DEF Named, AnswersGoHome
<1>. QED
  BY <1>1, Invariance, PTL

\* "At most one thing in flight per slot": a connection has one thing outside
\* of the loop when it is marked and none when it is not, and every request
\* taken from it is answered, being streamed or that one thing.
THEOREM OneThingInFlight == Spec => []OneInFlight
<1>1. IInv => OneInFlight
  <2>. SUFFICES ASSUME IInv PROVE OneInFlight
    OBVIOUS
  <2>1. TypeOK /\ OneEach
    BY DEF IInv, Types
  <2>. QED
    BY <2>1 DEF OneEach, Calm, OneInFlight
<1>. QED
  BY <1>1, Invariance, PTL

\* _engine_main and join_all: when the threads are joined none is at work, and
\* what is left of the jobs came in after its thread had found nothing to do
\* and before it asked whether to stop.
THEOREM WorkIsDoneButForLate == Spec => []OnlyLateWorkIsLeft
<1>1. IInv => OnlyLateWorkIsLeft
  <2>. SUFFICES ASSUME IInv, pc = "done"
                PROVE  /\ \A t \in Threads : busy[t] = NoJob
                       /\ \A i \in DOMAIN jobs : jobs[i] \in belated
    BY DEF OnlyLateWorkIsLeft
  <2>1. \A t \in Threads : OnlyBelated(t)
    BY DEF IInv, Leaving
  <2>2. \A i \in DOMAIN jobs : jobs[i].thread \in Threads
    BY JobsPlaces DEF IInv
  <2>. QED
    BY <2>1, <2>2 DEF OnlyBelated
<1>. QED
  BY <1>1, Invariance, PTL
-----------------------------------------------------------------------------
(* The order of answers, and when a connection may be closed               *)

\* Collect: a client reads its answers in the order of its requests and each
\* stream in one piece, and nothing after what closes the connection.
THEOREM AnswersAreInOrder == Spec => AnswersInOrderUnlessUpset
<1>. DEFINE Step == \A s \in Slots :
              live'[s] /\ last'[s] # last[s] /\ cid[s] \notin upset =>
                Follows(last[s], last'[s]) /\ ~last[s].close
<1>1. ASSUME IInv, [Next]_vars, NEW s \in Slots, live'[s], last'[s] # last[s],
             cid[s] \notin upset
      PROVE  Follows(last[s], last'[s]) /\ ~last[s].close
  <2>1. /\ Types /\ Named /\ AllKnown /\ NoneOfElders /\ OneEach /\ Suited /\ Closed
    BY <1>1 DEF IInv
  <2>2. \E res \in ResultSet : Delivers(s, res)
    <3>1. \A S \in SUBSET Slots : Drops(S) => s \notin S /\ last'[s] = last[s]
      BY <1>1, <2>1, DropFacts DEF Drops
    <3>2. \A r \in Slots, res \in ResultSet : Delivers(r, res) /\ r # s => last'[s] = last[s]
      BY <2>1 DEF Delivers, Deliver, Types
    <3>3. Rests \/ Loses \/ Accept \/ (\E r \in Slots : SendsStep(r) \/ SendsRequest(r))
            \/ (\E t \in Threads : TakeJob(t) \/ RunJob(t)) => last' = last
      BY <2>1, AcceptFacts, SendsRequestFacts
         DEF Rests, Loses, SendsStep, TakeJob, RunJob, slots, history
    <3>. QED
      BY <1>1, <2>1, <3>1, <3>2, <3>3, StepIs
  <2>3. PICK res \in ResultSet : Delivers(s, res)
    BY <2>2
  <2>4. Types'
    BY <1>1, <2>1, TypesStep
  <2>5. res \in Said /\ res.cid = cid[s] /\ live[s] /\ inflight[s]
    BY <1>1, <2>1, <2>3, <2>4, DeliversFacts
  <2>6. ResultSuits(res, s)
    BY <1>1, <2>1, <2>5 DEF Suited, Calm
  <2>7. /\ streaming[s] <=> last[s].kind # RES_DONE
        /\ number[s] = last[s].number + IF inflight[s] /\ ~streaming[s] THEN 1 ELSE 0
    BY <1>1, <2>1, <2>5, CountsAre
  <2>8. /\ last'[s].number = res.number /\ last'[s].kind = res.kind
        /\ last'[s].left = res.left
    BY <2>1, <2>3 DEF Delivers, Deliver, Types
  <2>9. /\ res.kind \in {RES_STREAM_HEAD, RES_BYTES, RES_DONE} /\ res.left \in Nat
        /\ last[s].number \in Nat /\ last[s].left \in Nat
    BY <2>1 DEF ResultSet, Types
  <2>10. Follows(last[s], last'[s])
    <3>1. CASE last[s].kind = RES_DONE
      <4>1. ~streaming[s] /\ res.number = last[s].number + 1
        BY <2>5, <2>6, <2>7, <3>1 DEF ResultSuits
      <4>. QED
        BY <2>6, <2>8, <3>1, <4>1 DEF Follows, ResultSuits
    <3>2. CASE last[s].kind # RES_DONE
      <4>1. streaming[s] /\ res.number = last[s].number
        BY <2>5, <2>6, <2>7, <2>9, <3>2 DEF ResultSuits
      <4>2. \/ res.kind = RES_BYTES /\ last[s].left = res.left + 1
            \/ res.kind = RES_DONE /\ last[s].left = 0
        BY <2>6, <2>9, <4>1 DEF ResultSuits
      <4>. QED
        BY <2>8, <2>9, <3>2, <4>1, <4>2 DEF Follows
    <3>. QED
      BY <3>1, <3>2
  <2>11. ~last[s].close
    BY <1>1, <2>1, <2>5, ClosedIs
  <2>. QED
    BY <2>10, <2>11
<1>2. IInv /\ [Next]_vars => Step
  BY <1>1
<1>3. IInv /\ [Next]_vars => [Step]_vars
  BY <1>2
<1>. QED
  BY <1>3, Invariance, PTL DEF Spec, AnswersInOrderUnlessUpset

\* dispatch and reap: a connection the loop closes of itself is owed nothing,
\* no answer that is outside, no byte that is unsent and no end of a stream.
THEOREM ClosedWhenDone == Spec => NotClosedWhileOwed
<1>. DEFINE Step == \A s \in Slots :
              /\ pc = "requests"
              /\ live[s] /\ ~live'[s] /\ tail[s] # "broken" /\ cid[s] \notin upset'
              => Outstanding(cid[s]) = 0 /\ pending[s] = 0 /\ ~streaming[s]
<1>1. ASSUME IInv, [Next]_vars, NEW s \in Slots, pc = "requests",
             live[s], ~live'[s], tail[s] # "broken", cid[s] \notin upset'
      PROVE  Outstanding(cid[s]) = 0 /\ pending[s] = 0 /\ ~streaming[s]
  <2>1. Types /\ OneEach /\ Closed
    BY <1>1 DEF IInv
  <2>2. DispatchRequest \/ Reap
    <3>1. UNCHANGED live \/ DispatchRequest \/ Reap
      <4>1. CASE UNCHANGED vars
        BY <4>1 DEF vars, loop
      <4>2. \A t \in Threads : Engine(t) => UNCHANGED live
        BY DEF Engine, TakeJob, RunJob, FindNone, AskStop, loop
      <4>3. ~Accept /\ ~Join /\ ~Polled /\ ~Collect /\ ~DispatchStream /\ ~Ended
        BY <1>1 DEF Accept, Join, Polled, Collect, DispatchStream, Ended
      <4>4. \A r \in Slots : ~Receive(r) /\ ~Flush(r) /\ ~Reset(r)
        BY <1>1 DEF Receive, Flush, Reset
      <4>5. DispatchRoom => UNCHANGED live
        BY DEF DispatchRoom, loop
      <4>. QED
        BY <1>1, <4>1, <4>2, <4>3, <4>4, <4>5 DEF Next, Loop
    <3>. QED
      BY <1>1, <3>1
  <2>3. CASE DispatchRequest
    <3>1. PICK r \in Reaches(RequestsDue) :
            /\ TakeRequest(r) \/ TakeEnd(r)
            /\ upset' = IF OutOfTurn(r) THEN upset \cup {cid[r]} ELSE upset
      BY <2>3 DEF DispatchRequest
    <3>2. r \in Slots /\ live[r] /\ ~inflight[r]
      BY DEF Reaches, Ahead, RequestsDue, MayDispatch
    <3>3. ~TakeRequest(r)
      BY <1>1 DEF TakeRequest
    <3>4. drop({r}) /\ (tail[r] = "broken" \/ pending[r] = 0)
      BY <1>1, <3>1, <3>3 DEF TakeEnd, loop
    <3>5. r = s
      BY <1>1, <2>1, <3>2, <3>4, DropFacts
    <3>6. ~OutOfTurn(s) /\ cid[s] \notin upset
      BY <1>1, <3>1, <3>5
    <3>7. ~streaming[s] /\ pending[s] = 0 /\ ~inflight[s]
      BY <1>1, <3>2, <3>4, <3>5, <3>6 DEF OutOfTurn
    <3>. QED
      BY <1>1, <2>1, <3>6, <3>7 DEF OneEach, Calm
  <2>4. CASE Reap
    <3>1. PICK late \in SUBSET {r \in Slots : Idle(r)} :
            drop(late \cup {r \in Slots : live[r] /\ closing[r] /\ pending[r] = 0})
      BY <2>4 DEF Reap
    <3>2. upset' = upset
      BY <2>4 DEF Reap
    <3>3. Idle(s) \/ (closing[s] /\ pending[s] = 0)
      <4>1. late \cup {r \in Slots : live[r] /\ closing[r] /\ pending[r] = 0} \in SUBSET Slots
        OBVIOUS
      <4>2. s \in late \cup {r \in Slots : live[r] /\ closing[r] /\ pending[r] = 0}
        BY <1>1, <2>1, <3>1, <4>1, DropFacts
      <4>. QED
        BY <4>2
    <3>4. pending[s] = 0 /\ ~streaming[s] /\ ~inflight[s]
      BY <1>1, <2>1, <3>2, <3>3 DEF Idle, Closed, Calm
    <3>. QED
      BY <1>1, <2>1, <3>2, <3>4 DEF OneEach, Calm
  <2>. QED
    BY <2>2, <2>3, <2>4
<1>2. IInv /\ [Next]_vars => Step
  BY <1>1
<1>3. IInv /\ [Next]_vars => [Step]_vars
  BY <1>2
<1>. QED
  BY <1>3, Invariance, PTL DEF Spec, NotClosedWhileOwed
=============================================================================
