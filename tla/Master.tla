------------------------------- MODULE Master -------------------------------
(***************************************************************************)
(* srv/master.mojo: the master forks its workers, looks at them after      *)
(* every sleep and stops them all when one dies, when a signal cuts the    *)
(* sleep short or when the time is up; what has not left after the grace   *)
(* period is killed.                                                       *)
(*                                                                         *)
(* A worker inherits the master's handler, which does nothing, and has its *)
(* own only when it serves: a SIGTERM before that is lost.  Workers drain  *)
(* by themselves, or never.  The wake-up connections of begin_stop change  *)
(* no state here: the loop looks at its marker anyway.                     *)
(***************************************************************************)
EXTENDS Naturals, FiniteSets

CONSTANTS WORKERS,   \* workers to fork
          SIGNALS    \* bound: signals to the master, and to single workers

ASSUME MasterAssumption == WORKERS \in Nat \ {0} /\ SIGNALS \in Nat

Workers == 1 .. WORKERS

VARIABLES opts,       \* [max_requests, run_seconds : BOOLEAN], whether positive
          worker,     \* "none", "forked", "starting", "serving", "draining" or a fate
          n,          \* workers forked, pids 1 .. n
          exited,     \* reaped
          pc, at,     \* "fork", "sleep", "scan" (at worker at), "decide",
                      \* "done" or "raised"
          interrupted, alive, do_stop,     \* this round's findings
          stopping, killed, abnormal, forced,
          timeup, graceup,                 \* the clock, as far as it is read
          signals, strays                  \* signals sent so far

round  == <<interrupted, alive, do_stop>>
report == <<abnormal, forced>>
clock  == <<timeup, graceup>>
world  == <<signals, strays>>
vars   == <<opts, worker, n, exited, pc, at, round, stopping, killed, report,
            clock, world>>

\* The status wait4 reads: exit code 0, another one, or a signal - of its own
\* making or the master's SIGKILL.
Fates == {"clean", "error", "crashed", "killed"}
Gone(w) == worker[w] \in Fates

Init ==
    /\ opts \in [max_requests : BOOLEAN, run_seconds : BOOLEAN]
    /\ worker = [w \in Workers |-> "none"]
    /\ n = 0 /\ exited = {}
    /\ pc = "fork" /\ at = 0
    /\ interrupted = FALSE /\ alive = 0 /\ do_stop = FALSE
    /\ stopping = FALSE /\ killed = FALSE /\ abnormal = 0 /\ forced = 0
    /\ timeup = FALSE /\ graceup = FALSE
    /\ signals = 0 /\ strays = 0

\* on_worker_stop closes the marker; without the handler nothing happens.
Termed(S) ==
    [w \in Workers |-> IF w \in S /\ worker[w] = "serving" THEN "draining" ELSE worker[w]]
-----------------------------------------------------------------------------
(* worker_main *)

Becomes(w, from, to) ==
    /\ worker[w] \in from
    /\ \E state \in to : worker' = [worker EXCEPT ![w] = state]
    /\ UNCHANGED <<opts, n, exited, pc, at, round, stopping, killed, report, clock, world>>

prctl(w)  == Becomes(w, {"forked"}, {"starting"})
arm(w)    == Becomes(w, {"starting"}, {"serving", "error"})
finish(w) == Becomes(w, {"draining"} \cup IF opts.max_requests THEN {"serving"} ELSE {},
                     {"clean"})
fail(w)   == Becomes(w, {"serving", "draining"}, {"error"})
crash(w)  == Becomes(w, {"forked", "starting", "serving", "draining"}, {"crashed"})

WorkerStep(w) == prctl(w) \/ arm(w) \/ finish(w) \/ fail(w) \/ crash(w)

\* Somebody else's SIGTERM or SIGINT for one worker.
stray(w) ==
    /\ strays < SIGNALS /\ strays' = strays + 1
    /\ worker[w] \in {"forked", "starting", "serving"}
    /\ worker' = Termed({w})
    /\ UNCHANGED <<opts, n, exited, pc, at, round, stopping, killed, report, clock, signals>>
-----------------------------------------------------------------------------
(* run_workers *)

fork ==
    /\ pc = "fork"
    /\ \/ /\ n < WORKERS
          /\ n' = n + 1
          /\ worker' = [worker EXCEPT ![n + 1] = "forked"]
          /\ UNCHANGED pc
       \/ /\ n = WORKERS
          /\ pc' = "sleep"
          /\ UNCHANGED <<n, worker>>
    /\ UNCHANGED <<opts, exited, at, round, stopping, killed, report, clock, world>>

\* The master leaves; the kernel sends its SIGTERM to those that asked for it.
fork_fails ==
    /\ pc = "fork" /\ n < WORKERS
    /\ pc' = "raised"
    /\ worker' = Termed(Workers)
    /\ UNCHANGED <<opts, n, exited, at, round, stopping, killed, report, clock, world>>
-----------------------------------------------------------------------------
(* supervise *)

Wakes(by_signal) ==
    /\ pc = "sleep" /\ pc' = "scan" /\ at' = 1
    /\ interrupted' = by_signal /\ alive' = 0 /\ do_stop' = FALSE
    /\ UNCHANGED <<opts, worker, n, exited, stopping, killed, report, clock, strays>>

usleep == Wakes(FALSE) /\ UNCHANGED signals

\* A signal is only noticed by the sleep it cuts short.
signal ==
    /\ signals < SIGNALS /\ signals' = signals + 1
    /\ \/ Wakes(TRUE)
       \/ /\ pc \in {"fork", "scan", "decide"}
          /\ UNCHANGED <<opts, worker, n, exited, pc, at, round, stopping, killed,
                         report, clock, strays>>

Signaled(w) == worker[w] \in {"crashed", "killed"}

AbnormalUntilStopping(w) == ~stopping /\ (Signaled(w) \/ worker[w] = "error")
Abnormal(w)   == (Signaled(w) /\ ~stopping) \/ worker[w] = "error"
Forced(w)     == Signaled(w) /\ stopping

UnexpectedAlways(w) == worker[w] = "clean"
Unexpected(w) == worker[w] = "clean" /\ ~opts.max_requests /\ ~stopping

Count(b) == IF b THEN 1 ELSE 0

scan ==
    /\ pc = "scan"
    /\ IF at > n
       THEN /\ pc' = "decide"
            /\ UNCHANGED <<at, exited, alive, do_stop, report>>
       ELSE /\ at' = at + 1
            /\ UNCHANGED pc
            /\ IF at \in exited THEN UNCHANGED <<exited, alive, do_stop, report>>
               ELSE /\ alive' = alive + Count(~Gone(at))
                    /\ exited' = IF Gone(at) THEN exited \cup {at} ELSE exited
                    /\ abnormal' = abnormal + Count(Abnormal(at))
                    /\ forced' = forced + Count(Forced(at))
                    /\ do_stop' = (do_stop \/ Abnormal(at) \/ Unexpected(at))
    /\ UNCHANGED <<opts, worker, n, interrupted, stopping, killed, clock, world>>

Calls == do_stop \/ interrupted \/ timeup

begin_stop ==
    /\ ~stopping /\ Calls
    /\ stopping' = TRUE
    /\ worker' = Termed(Workers \ exited)
    /\ pc' = "sleep"
    /\ UNCHANGED killed

EscalatesOnSignal == ~killed /\ graceup /\ interrupted
Escalates == ~killed /\ graceup

escalate ==
    /\ stopping /\ alive > 0 /\ Escalates
    /\ worker' = [w \in Workers |->
          IF w \in 1 .. n \ exited /\ ~Gone(w) THEN "killed" ELSE worker[w]]
    /\ killed' = TRUE
    /\ pc' = "sleep"
    /\ UNCHANGED stopping

go_on ==
    /\ alive > 0
    /\ IF stopping THEN ~Escalates ELSE ~Calls
    /\ pc' = "sleep"
    /\ UNCHANGED <<worker, stopping, killed>>

leave ==
    /\ alive = 0 /\ (stopping \/ ~Calls)
    /\ pc' = "done"
    /\ UNCHANGED <<worker, stopping, killed>>

decide ==
    /\ pc = "decide"
    /\ begin_stop \/ escalate \/ go_on \/ leave
    /\ UNCHANGED <<opts, n, exited, at, round, report, clock, world>>

\* run_seconds and grace_ms pass.
run_time ==
    /\ opts.run_seconds /\ pc \in {"sleep", "scan", "decide"} /\ ~timeup /\ timeup' = TRUE
    /\ UNCHANGED <<opts, worker, n, exited, pc, at, round, stopping, killed, report,
                   graceup, world>>

grace ==
    /\ stopping /\ ~graceup /\ graceup' = TRUE
    /\ UNCHANGED <<opts, worker, n, exited, pc, at, round, stopping, killed, report,
                   timeup, world>>

Supervise == fork \/ fork_fails \/ usleep \/ scan \/ decide

Next ==
    \/ Supervise
    \/ signal
    \/ \E w \in Workers : WorkerStep(w) \/ stray(w)
    \/ run_time \/ grace

\* The master runs and its clock with it; nothing is assumed of the workers.
Spec == Init /\ [][Next]_vars /\ WF_vars(Supervise) /\ WF_vars(grace)
-----------------------------------------------------------------------------
\* What the exit code is made of: when the master returns, no worker is left
\* behind, every death but a clean exit is in one of the two counts - once,
\* whenever it happened and whenever it was seen - and every worker the
\* master had to kill is among the forced.
ReportIsHonest ==
    pc = "done" =>
      /\ exited = Workers /\ \A w \in Workers : Gone(w)
      /\ abnormal + forced = Cardinality({w \in Workers : worker[w] # "clean"})
      /\ Cardinality({w \in Workers : worker[w] = "killed"}) <= forced

\* A fleet is not stopped for nothing: it was told to, or a worker left that
\* should not have.
StopsForAReason ==
    stopping /\ signals = 0 /\ ~timeup =>
      \E w \in exited : worker[w] # "clean" \/ ~opts.max_requests

\* Fail fast, and no longer than the grace period: a worker that dies, or any
\* other reason to stop, ends the run whatever the other workers do.
FleetEnds ==
    stopping \/ (\E w \in Workers : Gone(w) /\ worker[w] # "clean")
        ~> pc \in {"done", "raised"}
=============================================================================
