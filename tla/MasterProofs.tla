---------------------------- MODULE MasterProofs ----------------------------
(***************************************************************************)
(* For any number of workers: the master's report is honest, and it stops  *)
(* a fleet for a reason.  Both rest on what has been reaped: a worker that *)
(* was counted has met its fate and keeps it.                              *)
(***************************************************************************)
EXTENDS Master, FiniteSetTheorems, TLAPS

States == Fates \cup {"none", "forked", "starting", "serving", "draining"}

Types ==
    /\ opts \in [max_requests : BOOLEAN, run_seconds : BOOLEAN]
    /\ worker \in [Workers -> States]
    /\ n \in 0 .. WORKERS
    /\ exited \subseteq Workers
    /\ pc \in {"fork", "sleep", "scan", "decide", "done", "raised"}
    /\ at \in Nat
    /\ interrupted \in BOOLEAN /\ alive \in Nat /\ do_stop \in BOOLEAN
    /\ stopping \in BOOLEAN /\ killed \in BOOLEAN
    /\ abnormal \in Nat /\ forced \in Nat
    /\ timeup \in BOOLEAN /\ graceup \in BOOLEAN
    /\ signals \in Nat /\ strays \in Nat

\* A round that found nobody alive has reaped all it has passed, and the
\* master leaves after such a round only.
Rounds ==
    /\ pc = "fork" => exited = {}
    /\ pc \in {"sleep", "scan", "decide", "done"} => n = WORKERS
    /\ pc = "scan" => at \in 1 .. n + 1
    /\ pc = "scan" /\ alive = 0 => \A w \in Workers : w < at => w \in exited
    /\ pc = "decide" /\ alive = 0 => Workers \subseteq exited
    /\ pc = "done" => Workers \subseteq exited

\* What is reaped is gone.
Reaped == (\A w \in exited : Gone(w)) /\ Rounds

Bad  == {w \in exited : worker[w] # "clean"}
Shot == {w \in exited : worker[w] = "killed"}

\* The two counts are the unclean deaths reaped so far, those by SIGKILL among
\* the forced: the master only kills while it stops.
Counted ==
    /\ abnormal + forced = Cardinality(Bad)
    /\ Cardinality(Shot) <= forced
    /\ \A w \in Workers : worker[w] = "killed" => stopping

Reason == \E w \in exited : worker[w] # "clean" \/ ~opts.max_requests

Reasoned ==
    /\ do_stop => Reason
    /\ interrupted => signals > 0
    /\ StopsForAReason

IInv == Types /\ Reaped /\ Counted /\ Reasoned
-----------------------------------------------------------------------------
(* Lemmas about the steps *)

\* There are finitely many workers, so what is counted can be counted.
LEMMA ExitedFinite ==
    ASSUME Types
    PROVE  IsFiniteSet(exited) /\ IsFiniteSet(Bad) /\ IsFiniteSet(Shot)
<1>1. IsFiniteSet(Workers)
  BY MasterAssumption, FS_Interval DEF Workers
<1>2. IsFiniteSet(exited)
  BY <1>1, FS_Subset DEF Types
<1>. QED
  BY <1>2, FS_Subset DEF Bad, Shot

\* A SIGTERM does something to the workers that serve, and to no other.
LEMMA TermedOnlyServing ==
    ASSUME Types, NEW S
    PROVE  /\ Termed(S) \in [Workers -> States]
           /\ \A w \in Workers :
                \/ Termed(S)[w] = worker[w]
                \/ worker[w] = "serving" /\ Termed(S)[w] = "draining"
BY DEF Types, Termed, States, Fates

\* A step of a worker is that of one that lives, and never its killing.
LEMMA WorkerMoves ==
    ASSUME Types, NEW w \in Workers, WorkerStep(w)
    PROVE  /\ ~Gone(w)
           /\ \E state \in States \ {"killed"} : worker' = [worker EXCEPT ![w] = state]
           /\ UNCHANGED <<opts, n, exited, pc, at, round, stopping, killed, report,
                          clock, world>>
BY DEF WorkerStep, prctl, arm, finish, fail, crash, Becomes, Gone, Fates, States

\* Types and counters of every step.
LEMMA TypesStep ==
    ASSUME Types, Reaped, [Next]_vars
    PROVE  Types'
<1>. USE DEF vars, round, report, clock, world
<1>1. CASE UNCHANGED vars
  BY <1>1 DEF Types
<1>2. CASE fork
  <2>1. worker' \in [Workers -> States]
    BY <1>2 DEF fork, Types, States
  <2>. QED
    BY <1>2, <2>1, MasterAssumption DEF fork, Types
<1>3. CASE fork_fails
  BY <1>3, TermedOnlyServing DEF fork_fails, Types
<1>4. CASE usleep
  BY <1>4 DEF usleep, Wakes, Types
<1>5. CASE scan
  <2>1. abnormal' \in Nat /\ forced' \in Nat /\ alive' \in Nat /\ at' \in Nat
    BY <1>5 DEF scan, Count, Types
  <2>4. do_stop' \in BOOLEAN
    BY <1>5, Zenon DEF scan, Types
  <2>2. exited' \subseteq Workers
    <3>1. at <= n => at \in Workers
      BY <1>5 DEF scan, Types, Reaped, Rounds, Workers
    <3>2. CASE at > n \/ at \in exited
      BY <1>5, <3>2, Zenon DEF scan, Types
    <3>3. CASE ~(at > n) /\ at \notin exited
      <4>1. exited' = exited \/ exited' = exited \cup {at}
        BY <1>5, <3>3, Zenon DEF scan
      <4>2. at \in Workers
        BY <3>1, <3>3 DEF Types
      <4>. QED
        BY <4>1, <4>2, Zenon DEF Types
    <3>. QED
      BY <3>2, <3>3, Zenon
  <2>3. pc' \in {"scan", "decide"}
    BY <1>5 DEF scan
  <2>. QED
    BY <1>5, <2>1, <2>2, <2>3, <2>4 DEF scan, Types
<1>6. CASE decide
  <2>1. worker' \in [Workers -> States]
    <3>1. CASE begin_stop
      BY <3>1, TermedOnlyServing DEF begin_stop
    <3>2. CASE escalate
      BY <3>2 DEF escalate, Types, States, Fates
    <3>. QED
      BY <1>6, <3>1, <3>2 DEF decide, go_on, leave, Types
  <2>. QED
    BY <1>6, <2>1 DEF decide, begin_stop, escalate, go_on, leave, Types
<1>7. CASE signal
  <2>1. signals' \in Nat
    BY <1>7 DEF signal, Types
  <2>2. interrupted' \in BOOLEAN /\ do_stop' \in BOOLEAN
    BY <1>7, Zenon DEF signal, Wakes, Types
  <2>3. /\ at' = at \/ at' = 1
        /\ alive' = alive \/ alive' = 0
        /\ pc' = pc \/ pc' = "scan"
        /\ UNCHANGED <<opts, worker, n, exited, stopping, killed, abnormal, forced,
                       timeup, graceup, strays>>
    BY <1>7, Zenon DEF signal, Wakes
  <2>. QED
    BY <2>1, <2>2, <2>3 DEF Types
<1>8. ASSUME NEW w \in Workers, WorkerStep(w)
      PROVE  Types'
  <2>1. worker' \in [Workers -> States]
    BY <1>8, WorkerMoves DEF Types
  <2>. QED
    BY <1>8, <2>1, WorkerMoves DEF Types
<1>9. ASSUME NEW w \in Workers, stray(w)
      PROVE  Types'
  BY <1>9, TermedOnlyServing DEF stray, Types
<1>10. CASE run_time
  BY <1>10 DEF run_time, Types
<1>11. CASE grace
  BY <1>11 DEF grace, Types
<1>. QED
  BY <1>1, <1>2, <1>3, <1>4, <1>5, <1>6, <1>7, <1>8, <1>9, <1>10, <1>11 DEF Next, Supervise

\* A worker that has been reaped stays what it was.
LEMMA FateStays ==
    ASSUME Types, Reaped, [Next]_vars
    PROVE  /\ opts' = opts /\ exited \subseteq exited'
           /\ \A w \in exited : worker'[w] = worker[w]
<1>. USE DEF vars, round, report, clock, world
<1>0. \A w \in exited : w \in Workers /\ worker[w] \in Fates
  BY DEF Types, Reaped, Gone
<1>1. CASE UNCHANGED vars
  BY <1>1
<1>2. CASE fork
  BY <1>2, <1>0 DEF fork, Reaped, Rounds
<1>3. CASE fork_fails
  BY <1>3, <1>0, TermedOnlyServing DEF fork_fails, Fates
<1>4. CASE usleep
  BY <1>4 DEF usleep, Wakes
<1>5. CASE scan
  BY <1>5 DEF scan
<1>6. CASE decide
  <2>1. CASE begin_stop
    BY <1>6, <2>1, <1>0, TermedOnlyServing DEF decide, begin_stop, Fates
  <2>2. CASE escalate
    BY <1>6, <2>2, <1>0 DEF decide, escalate, Types
  <2>. QED
    BY <1>6, <2>1, <2>2 DEF decide, go_on, leave
<1>7. CASE signal
  BY <1>7 DEF signal, Wakes
<1>8. ASSUME NEW w \in Workers, WorkerStep(w)
      PROVE  opts' = opts /\ exited' = exited /\ \A v \in exited : worker'[v] = worker[v]
  BY <1>8, <1>0, WorkerMoves DEF Gone, Types
<1>9. ASSUME NEW w \in Workers, stray(w)
      PROVE  opts' = opts /\ exited' = exited /\ \A v \in exited : worker'[v] = worker[v]
  BY <1>9, <1>0, TermedOnlyServing DEF stray, Fates
<1>10. CASE run_time
  BY <1>10 DEF run_time
<1>11. CASE grace
  BY <1>11 DEF grace
<1>. QED
  BY <1>1, <1>2, <1>3, <1>4, <1>5, <1>6, <1>7, <1>8, <1>9, <1>10, <1>11 DEF Next, Supervise

\* Only a scan reaps.
LEMMA OnlyScanReaps ==
    ASSUME [Next]_vars, ~scan
    PROVE  exited' = exited /\ abnormal' = abnormal /\ forced' = forced
BY DEF vars, round, report, clock, world, Next, Supervise, fork, fork_fails, usleep, Wakes,
       decide, signal, WorkerStep, prctl, arm, finish, fail, crash, Becomes, stray,
       run_time, grace
-----------------------------------------------------------------------------
(* The invariant *)

\* What a round has found of those alive and those gone.
LEMMA RoundsStep ==
    ASSUME Types, Rounds, [Next]_vars
    PROVE  Rounds'
<1>. USE DEF vars, round, report, clock, world
<1>1. CASE UNCHANGED <<n, exited, pc, at, alive>>
  BY <1>1 DEF Rounds
<1>2. CASE fork
  BY <1>2, MasterAssumption DEF fork, Types, Rounds
<1>3. CASE fork_fails
  BY <1>3 DEF fork_fails, Rounds
<1>4. ASSUME NEW b \in BOOLEAN, Wakes(b)
      PROVE  Rounds'
  <2>1. pc' = "scan" /\ at' = 1 /\ n' = WORKERS
    BY <1>4, Zenon DEF Wakes, Rounds
  <2>2. \A w \in Workers : ~(w < 1)
    BY MasterAssumption DEF Workers
  <2>. QED
    BY <2>1, <2>2, MasterAssumption DEF Rounds
<1>5. CASE scan
  <2>1. CASE at > n
    BY <1>5, <2>1 DEF scan, Rounds, Workers, Types
  <2>2. CASE ~(at > n)
    <3>1. /\ pc = "scan" /\ pc' = "scan" /\ at' = at + 1 /\ n' = n /\ n = WORKERS
          /\ at \in 1 .. n
      BY <1>5, <2>2 DEF scan, Types, Rounds
    <3>2. alive' = 0 => alive = 0 /\ at \in exited'
      BY <1>5, <2>2, <3>1 DEF scan, Types, Count
    <3>3. exited \subseteq exited'
      BY <1>5 DEF scan
    <3>4. alive' = 0 => \A w \in Workers : w < at' => w \in exited'
      BY <3>1, <3>2, <3>3 DEF Rounds, Workers
    <3>. QED
      BY <3>1, <3>4, MasterAssumption DEF Rounds
  <2>. QED
    BY <2>1, <2>2
<1>6. CASE decide
  BY <1>6 DEF decide, begin_stop, escalate, go_on, leave, Types, Rounds
<1>. QED
  BY <1>1, <1>2, <1>3, <1>4, <1>5, <1>6
     DEF Next, Supervise, usleep, signal, WorkerStep, prctl, arm, finish, fail, crash,
         Becomes, stray, run_time, grace

\* Only who is gone is reaped, and who is gone stays so.
LEMMA ReapedStep ==
    ASSUME Types, Reaped, [Next]_vars
    PROVE  Reaped'
<1>. USE DEF round, report, clock, world
<1>1. \A w \in exited' : Gone(w)'
  <2>1. CASE scan
    BY <2>1 DEF scan, Reaped, Gone
  <2>2. CASE ~scan
    BY <2>2, OnlyScanReaps, FateStays DEF Reaped, Gone
  <2>. QED
    BY <2>1, <2>2
<1>. QED
  BY <1>1, RoundsStep DEF Reaped

\* What the master does not reap does not change what it has counted.
LEMMA CountsStand ==
    ASSUME Types, Reaped, [Next]_vars, ~scan
    PROVE  Bad' = Bad /\ Shot' = Shot
BY OnlyScanReaps, FateStays DEF Bad, Shot

\* One more reaped is one more in a count, if its death was not a clean one.
LEMMA ScanCounts ==
    ASSUME Types, Reaped, Counted, scan
    PROVE  /\ abnormal' + forced' = Cardinality(Bad')
           /\ Cardinality(Shot') <= forced'
<1>. USE DEF round, report, clock, world
<1>0. worker' = worker /\ stopping' = stopping
  BY DEF scan
<1>1. CASE exited' = exited
  <2>1. Bad' = Bad /\ Shot' = Shot
    BY <1>0, <1>1 DEF Bad, Shot
  <2>2. abnormal' = abnormal /\ forced' = forced
    BY <1>1 DEF scan, Types, Abnormal, Forced, Signaled, Gone, Fates, Count
  <2>. QED
    BY <2>1, <2>2 DEF Counted
<1>2. CASE exited' # exited
  <2>1. /\ at \notin exited /\ Gone(at) /\ at \in Workers
        /\ exited' = exited \cup {at}
        /\ abnormal' = abnormal + Count(Abnormal(at))
        /\ forced' = forced + Count(Forced(at))
    BY <1>2 DEF scan, Types, Reaped, Rounds, Workers
  <2>2. worker[at] = "killed" => stopping
    BY <2>1 DEF Counted
  <2>3. /\ Cardinality(Bad \cup {at}) = Cardinality(Bad) + 1
        /\ Cardinality(Shot \cup {at}) = Cardinality(Shot) + 1
        /\ Cardinality(Bad) \in Nat /\ Cardinality(Shot) \in Nat
    BY <2>1, ExitedFinite, FS_AddElement, FS_CardinalityType DEF Bad, Shot
  <2>4. abnormal \in Nat /\ forced \in Nat /\ stopping \in BOOLEAN
    BY DEF Types
  <2>5. CASE worker[at] = "clean"
    <3>1. Bad' = Bad /\ Shot' = Shot
      BY <1>0, <2>1, <2>5 DEF Bad, Shot
    <3>2. abnormal' = abnormal /\ forced' = forced
      BY <2>1, <2>4, <2>5 DEF Count, Abnormal, Forced, Signaled
    <3>. QED
      BY <3>1, <3>2 DEF Counted
  <2>6. CASE worker[at] # "clean"
    <3>1. Bad' = Bad \cup {at}
      BY <1>0, <2>1, <2>6 DEF Bad
    <3>2. Shot' = IF worker[at] = "killed" THEN Shot \cup {at} ELSE Shot
      BY <1>0, <2>1 DEF Shot
    <3>3. abnormal' + forced' = abnormal + forced + 1
      BY <2>1, <2>4, <2>6 DEF Count, Abnormal, Forced, Signaled, Gone, Fates
    <3>4. forced' = IF worker[at] = "killed" THEN forced + 1 ELSE forced'
      BY <2>1, <2>2, <2>4 DEF Count, Forced, Signaled
    <3>5. forced' >= forced /\ forced' \in Nat
      BY <2>1, <2>4 DEF Count
    <3>. QED
      BY <2>3, <2>4, <3>1, <3>2, <3>3, <3>4, <3>5 DEF Counted
  <2>. QED
    BY <2>5, <2>6
<1>. QED
  BY <1>1, <1>2

\* Nobody but a master that stops its fleet kills a worker.
LEMMA KillsWhileStopping ==
    ASSUME Types, Reaped, Counted, [Next]_vars
    PROVE  \A w \in Workers : worker'[w] = "killed" => stopping'
<1>. USE DEF vars, round, report, clock, world
<1>0. \A w \in Workers : worker[w] = "killed" => stopping
  BY DEF Counted
<1>1. CASE UNCHANGED <<worker, stopping>>
  BY <1>0, <1>1
<1>2. CASE fork
  BY <1>0, <1>2 DEF fork, Types
<1>3. CASE fork_fails
  BY <1>0, <1>3, TermedOnlyServing DEF fork_fails
<1>4. CASE decide
  BY <1>0, <1>4 DEF decide, begin_stop, escalate, go_on, leave
<1>5. ASSUME NEW v \in Workers, WorkerStep(v)
      PROVE  \A w \in Workers : worker'[w] = "killed" => stopping'
  BY <1>0, <1>5, WorkerMoves DEF Types
<1>6. ASSUME NEW v \in Workers, stray(v)
      PROVE  \A w \in Workers : worker'[w] = "killed" => stopping'
  BY <1>0, <1>6, TermedOnlyServing DEF stray
<1>. QED
  BY <1>1, <1>2, <1>3, <1>4, <1>5, <1>6
     DEF Next, Supervise, usleep, signal, Wakes, scan, run_time, grace

\* The counts are right after every step.
LEMMA CountedStep ==
    ASSUME Types, Reaped, Counted, [Next]_vars
    PROVE  Counted'
<1>1. CASE scan
  BY <1>1, ScanCounts, KillsWhileStopping DEF Counted
<1>2. CASE ~scan
  BY <1>2, CountsStand, OnlyScanReaps, KillsWhileStopping DEF Counted
<1>. QED
  BY <1>1, <1>2

\* A reason does not go away.
LEMMA ReasonStays ==
    ASSUME Types, Reaped, [Next]_vars, Reason
    PROVE  Reason'
BY FateStays DEF Reason

\* A fleet that begins to stop has a reason in the round that found it.
LEMMA ReasonedStep ==
    ASSUME Types, Reaped, Reasoned, [Next]_vars
    PROVE  Reasoned'
<1>. USE DEF vars, round, report, clock, world
<1>1. do_stop' => Reason'
  <2>1. CASE scan
    <3>1. CASE do_stop
      BY <3>1, ReasonStays DEF Reasoned
    <3>2. CASE ~do_stop /\ do_stop'
      <4>1. /\ at \in exited' /\ opts' = opts /\ worker' = worker
            /\ Abnormal(at) \/ Unexpected(at)
        BY <2>1, <3>2 DEF scan, Abnormal, Unexpected, Signaled, Gone, Fates
      <4>. QED
        BY <4>1 DEF Reason, Abnormal, Unexpected, Signaled
    <3>. QED
      BY <3>1, <3>2
  <2>2. CASE ~scan
    <3>1. do_stop' => do_stop
      BY <2>2 DEF Next, Supervise, fork, fork_fails, usleep, Wakes, decide, signal,
                  WorkerStep, prctl, arm, finish, fail, crash, Becomes, stray, run_time, grace
    <3>. QED
      BY <3>1, ReasonStays DEF Reasoned
  <2>. QED
    BY <2>1, <2>2
<1>2. signals' >= signals /\ (interrupted' => signals' > 0)
  <2>1. CASE signal
    <3>1. signals \in Nat /\ signals' = signals + 1
      BY <2>1 DEF signal, Types
    <3>. QED
      BY <3>1
  <2>2. CASE ~signal
    <3>1. CASE usleep
      BY <3>1 DEF usleep, Wakes, Types
    <3>2. CASE scan
      BY <3>2 DEF scan, Types, Reasoned
    <3>3. CASE ~usleep /\ ~scan
      <4>1. UNCHANGED <<signals, interrupted>>
        BY <2>2, <3>3
           DEF Next, Supervise, fork, fork_fails, decide, WorkerStep, prctl, arm, finish,
               fail, crash, Becomes, stray, run_time, grace
      <4>. QED
        BY <4>1 DEF Types, Reasoned
    <3>. QED
      BY <3>1, <3>2, <3>3
  <2>. QED
    BY <2>1, <2>2
<1>3. timeup => timeup'
  BY DEF Next, Supervise, fork, fork_fails, usleep, Wakes, scan, decide,
         signal, WorkerStep, prctl, arm, finish, fail, crash, Becomes, stray, run_time, grace
<1>4. StopsForAReason'
  <2>1. CASE stopping
    <3>1. signals' = 0 /\ ~timeup' => signals = 0 /\ ~timeup
      BY <1>2, <1>3 DEF Types
    <3>. QED
      BY <2>1, <3>1, ReasonStays DEF Reasoned, StopsForAReason, Reason
  <2>2. CASE ~stopping /\ stopping'
    <3>1. Calls /\ UNCHANGED <<exited, opts, signals, timeup, interrupted, do_stop>>
      BY <2>2 DEF Next, Supervise, fork, fork_fails, usleep, Wakes, scan, decide, begin_stop,
              escalate, go_on, leave, signal, WorkerStep, prctl, arm, finish, fail, crash,
              Becomes, stray, run_time, grace
    <3>2. do_stop \/ signals' # 0 \/ timeup'
      BY <3>1, <1>2 DEF Calls, Reasoned, Types
    <3>. QED
      BY <3>2, <3>1, <1>1 DEF StopsForAReason, Reason
  <2>. QED
    BY <2>1, <2>2 DEF StopsForAReason
<1>. QED
  BY <1>1, <1>2, <1>4 DEF Reasoned

\* The master begins with nobody forked, reaped or counted.
LEMMA MasterInit == Init => IInv
<1>. SUFFICES ASSUME Init PROVE IInv
  OBVIOUS
<1>1. Types
  <2>1. worker \in [Workers -> States]
    BY DEF Init, States
  <2>2. /\ interrupted \in BOOLEAN /\ do_stop \in BOOLEAN
        /\ stopping \in BOOLEAN /\ killed \in BOOLEAN
        /\ timeup \in BOOLEAN /\ graceup \in BOOLEAN
    BY Zenon DEF Init
  <2>3. n \in 0 .. WORKERS
    BY MasterAssumption DEF Init
  <2>4. /\ opts \in [max_requests : BOOLEAN, run_seconds : BOOLEAN]
        /\ exited = {} /\ pc = "fork" /\ at = 0 /\ alive = 0
        /\ abnormal = 0 /\ forced = 0 /\ signals = 0 /\ strays = 0
    BY Zenon DEF Init
  <2>. QED
    BY <2>1, <2>2, <2>3, <2>4 DEF Types
<1>2. Reaped
  BY DEF Init, Reaped, Rounds
<1>3. Bad = {} /\ Shot = {}
  BY DEF Init, Bad, Shot
<1>4. Counted
  BY <1>3, FS_EmptySet DEF Init, Counted, Workers
<1>5. Reasoned
  BY DEF Init, Reasoned, StopsForAReason
<1>. QED
  BY <1>1, <1>2, <1>4, <1>5 DEF IInv
-----------------------------------------------------------------------------
\* The inductive invariant of the master: what it has reaped, what it has
\* counted and why it stops, whatever its workers and signals do.
THEOREM MasterInvariant == Spec => []IInv
<1>1. IInv /\ [Next]_vars => IInv'
  BY TypesStep, ReapedStep, CountedStep, ReasonedStep DEF IInv
<1>. QED
  BY <1>1, MasterInit, PTL DEF Spec

\* The master's report is honest for any number of workers: when it returns,
\* everybody has left and each unclean death has been counted exactly once.
THEOREM ReportAlwaysHonest == Spec => []ReportIsHonest
<1>1. IInv => ReportIsHonest
  <2>. SUFFICES ASSUME IInv, pc = "done" PROVE ReportIsHonest
    BY DEF ReportIsHonest
  <2>1. exited = Workers
    BY DEF IInv, Types, Reaped, Rounds
  <2>. QED
    BY <2>1 DEF IInv, Reaped, Counted, Bad, Shot, ReportIsHonest
<1>. QED
  BY <1>1, MasterInvariant, PTL

\* And it does not stop a fleet unless told to, or one left that should not.
THEOREM StopsOnlyForAReason == Spec => []StopsForAReason
<1>1. IInv => StopsForAReason
  BY DEF IInv, Reasoned
<1>. QED
  BY <1>1, MasterInvariant, PTL
=============================================================================
