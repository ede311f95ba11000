----------------------------- MODULE ServerLoop -----------------------------
(***************************************************************************)
(* srv/loop.mojo run_threaded with srv/engine_thread.mojo and the queues   *)
(* of srv/conn.mojo: one I/O loop, ENGINES engine threads and the mailbox  *)
(* between them.  A step of the loop is what it does between two uses of   *)
(* the mailbox's lock, so the threads move between any two of them.  The   *)
(* loop's parallel lists are functions on Slots.                           *)
(*                                                                         *)
(* A connection's bytes are requests (queued, then what follows them) and  *)
(* units of output.  cid, number, last, upset and belated are history: they *)
(* name the connection on a slot, its requests, what was last sent to it   *)
(* and the jobs that came in while their thread was about to ask whether   *)
(* to stop.                                                                *)
(*                                                                         *)
(* Left out: max_requests (its end is a stop), the clock (an idle          *)
(* connection may be closed at any time), `Expect: 100-continue`, and      *)
(* failing system calls other than read and write.                         *)
(***************************************************************************)
EXTENDS Integers, Sequences, FiniteSets

CONSTANTS MAX_CONNS, ENGINES, MAILBOX_CAP,
          SEND_HIGH_WATER,    \* in units: a frame is 1, a whole answer 2
          MAX_INBOUND,        \* in requests
          CONNECTIONS,        \* bound: connections ever accepted
          REQUESTS,           \* bound: requests ever received
          MALFORMED,          \* bound: connections that may send anything else
          FRAMES              \* bound: the lengths of a stream, in frames

ASSUME LoopAssumption ==
    /\ MAX_CONNS \in Nat \ {0} /\ ENGINES \in Nat \ {0}
    /\ MAILBOX_CAP \in Nat \ {0} /\ SEND_HIGH_WATER \in Nat \ {0}
    /\ MAX_INBOUND \in Nat \ {0}
    /\ CONNECTIONS \in Nat /\ REQUESTS \in Nat /\ FRAMES \subseteq Nat

Slots   == 0 .. MAX_CONNS - 1
Threads == 0 .. ENGINES - 1
JOB_REQUEST     == "JOB_REQUEST"
JOB_STREAM_STEP == "JOB_STREAM_STEP"
RES_STREAM_HEAD == "RES_STREAM_HEAD"
RES_BYTES       == "RES_BYTES"
RES_DONE        == "RES_DONE"

VARIABLES
    live, gen, inflight, streaming, owner,    \* Loop, per slot
    next_engine, pc, at,
    queued, tail, pending, closing,           \* Conn, per slot
    jobs, results, stop,                      \* Mailbox
    busy, looked, exited, phase,              \* engine threads
    accepted, received, cid, number, last, upset, belated   \* history

loop    == <<live, gen, inflight, streaming, owner>>
conns   == <<queued, tail, pending, closing>>
mailbox == <<jobs, belated, results, stop>>
threads == <<busy, looked, exited, phase>>
history == <<accepted, received, cid, number, last>>
vars    == <<loop, next_engine, pc, at, conns, mailbox, threads, history, upset>>

Job(s, kind, thread, n) ==
    [slot |-> s, gen |-> gen[s], kind |-> kind, thread |-> thread,
     cid |-> cid[s], number |-> n]

\* left: the frames its stream still has, which tells its frames apart.
Result(job, kind, close, size, left) ==
    [slot |-> job.slot, gen |-> job.gen, kind |-> kind, close |-> close,
     size |-> size, cid |-> job.cid, number |-> job.number, left |-> left]

NoJob    == [slot |-> -1, gen |-> -1, kind |-> "", thread |-> -1,
             cid |-> 0, number |-> 0]
NoStream == [cid |-> 0, number |-> 0, left |-> 0]
Nothing  == [cid |-> 0, number |-> 0, kind |-> RES_DONE, close |-> FALSE, left |-> 0]
-----------------------------------------------------------------------------
Init ==
    /\ live = [s \in Slots |-> FALSE]
    /\ gen = [s \in Slots |-> 0]
    /\ inflight = [s \in Slots |-> FALSE]
    /\ streaming = [s \in Slots |-> FALSE]
    /\ owner = [s \in Slots |-> -1]
    /\ next_engine = 0 /\ pc = "events" /\ at = 0
    /\ queued = [s \in Slots |-> 0]
    /\ tail = [s \in Slots |-> "open"]
    /\ pending = [s \in Slots |-> 0]
    /\ closing = [s \in Slots |-> FALSE]
    /\ jobs = <<>> /\ belated = {} /\ results = <<>> /\ stop = FALSE
    /\ busy = [t \in Threads |-> NoJob]
    /\ looked = [t \in Threads |-> FALSE]
    /\ exited = [t \in Threads |-> FALSE]
    /\ phase = [t \in Threads |-> [s \in Slots |-> NoStream]]
    /\ accepted = 0 /\ received = 0
    /\ cid = [s \in Slots |-> 0]
    /\ number = [s \in Slots |-> 0]
    /\ last = [s \in Slots |-> Nothing]
    /\ upset = {}

Goto(phase_, first) == pc' = phase_ /\ at' = first
Stay == UNCHANGED <<pc, at>>

backpressure(s) == pending[s] >= SEND_HIGH_WATER

On(f, S, v) == [s \in Slots |-> IF s \in S THEN v ELSE f[s]]

\* drop, of each slot of S: the next owner starts with a new generation.
Bumped(S) == [s \in Slots |-> IF s \in S THEN gen[s] + 1 ELSE gen[s]]

drop(S) ==
    /\ live' = On(live, S, FALSE)
    /\ gen' = Bumped(S)
    /\ inflight' = On(inflight, S, FALSE)
    /\ streaming' = On(streaming, S, FALSE)
    /\ owner' = On(owner, S, -1)
    /\ queued' = On(queued, S, 0)
    /\ tail' = On(tail, S, "open")
    /\ pending' = On(pending, S, 0)
    /\ closing' = On(closing, S, FALSE)
    /\ cid' = On(cid, S, 0)
    /\ number' = On(number, S, 0)
    /\ last' = On(last, S, Nothing)
    /\ UNCHANGED <<accepted, received>>
-----------------------------------------------------------------------------
\* accept_ready and adopt.  A connection that finds no room is closed at once.
Accept ==
    /\ pc = "events" /\ Stay
    /\ accepted < CONNECTIONS
    /\ accepted' = accepted + 1
    /\ \E s \in Slots :
         /\ ~live[s] /\ \A t \in Slots : ~live[t] => s <= t
         /\ live' = [live EXCEPT ![s] = TRUE]
         /\ cid' = [cid EXCEPT ![s] = accepted + 1]
    /\ UNCHANGED <<gen, inflight, streaming, owner, next_engine, conns, mailbox,
                   threads, received, number, last, upset>>

\* read_ready, by what the read returned: a request more (feed raises when the
\* buffer is full, and nothing catches it), bytes no request can be cut from,
\* the end of the stream.
ReceiveRequest(s) ==
    /\ tail[s] = "open" /\ received < REQUESTS
    /\ received' = received + 1
    /\ IF queued[s] + 1 > MAX_INBOUND
       THEN Goto("raised", 0) /\ UNCHANGED queued
       ELSE Stay /\ queued' = [queued EXCEPT ![s] = @ + 1]
    /\ UNCHANGED <<loop, tail, pending, closing, accepted, cid, number, last>>

ReceiveEnd(s) ==
    /\ tail[s] = "open"
    /\ \E how \in {"closed", "broken"} :
         /\ how = "broken" => cid[s] \in MALFORMED
         /\ tail' = [tail EXCEPT ![s] = how]
    /\ Stay
    /\ UNCHANGED <<loop, queued, pending, closing, history>>

Receive(s) ==
    /\ pc = "events" /\ live[s] /\ ~backpressure(s)
    /\ ReceiveRequest(s) \/ ReceiveEnd(s)
    /\ UNCHANGED <<next_engine, mailbox, threads, upset>>

\* flush: one send, of some of what is pending.
Flush(s) ==
    /\ pc = "events" /\ live[s] /\ Stay
    /\ \E n \in 1 .. pending[s] : pending' = [pending EXCEPT ![s] = @ - n]
    /\ UNCHANGED <<loop, next_engine, queued, tail, closing, mailbox, threads,
                   history, upset>>

\* A read or a write fails.
Reset(s) ==
    /\ pc = "events" /\ live[s] /\ Stay
    /\ drop({s})
    /\ UNCHANGED <<next_engine, mailbox, threads, upset>>

Polled ==
    /\ pc = "events" /\ Goto("collect", 0)
    /\ UNCHANGED <<loop, next_engine, conns, mailbox, threads, history, upset>>
-----------------------------------------------------------------------------
\* collect, one result at a time.
UnmarkNot(s) == UNCHANGED inflight
Unmark(s) == inflight' = [inflight EXCEPT ![s] = FALSE]

MineAlways(res) == TRUE
Mine(res) == res.gen = gen[res.slot]

Deliver(s, res) ==
    /\ pending' = [pending EXCEPT ![s] = @ + res.size]
    /\ last' = [last EXCEPT ![s] =
          [cid |-> res.cid, number |-> res.number, kind |-> res.kind,
           close |-> res.close, left |-> res.left]]
    /\ streaming' = [streaming EXCEPT ![s] =
          CASE res.kind = RES_STREAM_HEAD -> TRUE
            [] res.kind = RES_DONE -> FALSE
            [] OTHER -> @]
    /\ closing' = [closing EXCEPT ![s] = @ \/ (res.kind = RES_DONE /\ res.close)]
    /\ Unmark(s)
    /\ UNCHANGED <<live, gen, owner, queued, tail, accepted, received, cid,
                   number>>

\* The mark comes off before the generation is looked at.
Discard(s) ==
    /\ Unmark(s)
    /\ UNCHANGED <<live, gen, streaming, owner, conns, history>>

MarkLost ==
    /\ results # <<>>
    /\ LET res == Head(results)
       IN  /\ res.gen # gen[res.slot]
           /\ inflight[res.slot] /\ ~backpressure(res.slot)

Collect ==
    /\ pc = "collect"
    /\ UNCHANGED <<next_engine, jobs, belated, stop, threads>>
    /\ upset' = IF MarkLost THEN upset \cup {cid[Head(results).slot]} ELSE upset
    /\ IF results = <<>>
       THEN /\ Goto("streams", 0)
            /\ UNCHANGED <<loop, conns, results, history>>
       ELSE LET res == Head(results)
                s   == res.slot
            IN  \/ /\ ~live[s]
                   /\ results' = Tail(results) /\ Stay
                   /\ UNCHANGED <<loop, conns, history>>
                \/ /\ live[s] /\ backpressure(s)
                   /\ Goto("streams", 0)
                   /\ UNCHANGED <<loop, conns, results, history>>
                \/ /\ live[s] /\ ~backpressure(s)
                   /\ results' = Tail(results) /\ Stay
                   /\ \/ ~Mine(res) /\ Discard(s)
                      \/ /\ Mine(res) /\ pending[s] + res.size > SEND_HIGH_WATER
                         /\ drop({s})
                      \/ /\ Mine(res) /\ pending[s] + res.size <= SEND_HIGH_WATER
                         /\ Deliver(s, res)
-----------------------------------------------------------------------------
HasRoomAlways == TRUE
HasRoom == Len(jobs) < MAILBOX_CAP

\* push_job
Push(job) ==
    /\ jobs' = Append(jobs, job)
    /\ belated' = IF looked[job.thread] THEN belated \cup {job} ELSE belated

MayDispatchAnyway(s) == live[s] /\ ~backpressure(s)
MayDispatch(s) == live[s] /\ ~inflight[s] /\ ~backpressure(s)

\* A scan goes from slot to slot of S, and on from `at`.
Ahead(S)   == {s \in S : s >= at}
Reaches(S) == {s \in Ahead(S) : \A t \in Ahead(S) : s <= t}

\* dispatch 1): the next frame of each stream.
StreamsDue == {s \in Slots : streaming[s] /\ MayDispatch(s)}

DispatchStream ==
    /\ pc = "streams"
    /\ \E s \in Reaches(StreamsDue) :
         /\ Goto("streams", s + 1)
         /\ IF HasRoom
            THEN /\ Push(Job(s, JOB_STREAM_STEP, owner[s], number[s]))
                 /\ inflight' = [inflight EXCEPT ![s] = TRUE]
            ELSE UNCHANGED <<jobs, belated, inflight>>
    /\ UNCHANGED <<live, gen, streaming, owner, next_engine, conns, results, stop,
                   threads, history, upset>>

\* The one question for all the requests of this round.
DispatchRoom ==
    /\ pc = "streams" /\ Ahead(StreamsDue) = {}
    /\ Goto("requests", IF HasRoom THEN 0 ELSE MAX_CONNS)
    /\ UNCHANGED <<loop, next_engine, conns, mailbox, threads, history, upset>>

\* owner_for: the thread, and whether the cursor moves on.
OwnerFor(s) == IF owner[s] >= 0 THEN [thread |-> owner[s], new |-> FALSE]
               ELSE [thread |-> next_engine, new |-> TRUE]

\* The request leaves the connection's buffer whether or not it fits.
TakeRequest(s) ==
    LET o == OwnerFor(s)
    IN  /\ queued[s] > 0
        /\ queued' = [queued EXCEPT ![s] = @ - 1]
        /\ number' = [number EXCEPT ![s] = @ + 1]
        /\ owner' = [owner EXCEPT ![s] = o.thread]
        /\ next_engine' = IF o.new THEN (next_engine + 1) % ENGINES ELSE next_engine
        /\ IF HasRoom
           THEN /\ Push(Job(s, JOB_REQUEST, o.thread, number[s] + 1))
                /\ inflight' = [inflight EXCEPT ![s] = TRUE]
           ELSE UNCHANGED <<jobs, belated, inflight>>
        /\ UNCHANGED <<live, gen, streaming, tail, pending, closing,
                       accepted, received, cid, last>>

TakeEnd(s) ==
    /\ queued[s] = 0
    /\ \/ /\ tail[s] = "broken" \/ (tail[s] = "closed" /\ pending[s] = 0)
          /\ drop({s})
       \/ /\ tail[s] = "closed" /\ pending[s] > 0
          /\ closing' = [closing EXCEPT ![s] = TRUE]
          /\ UNCHANGED <<loop, queued, tail, pending, history>>
    /\ UNCHANGED <<next_engine, jobs, belated>>

\* A request is lost, or the pass reaches a connection that is not done with
\* its stream or that has said its last.
OutOfTurn(s) == streaming[s] \/ (queued[s] > 0 /\ (closing[s] \/ ~HasRoom))

\* dispatch 2): one request of each connection that has nothing in flight.
RequestsDue == {s \in Slots : MayDispatch(s) /\ (queued[s] > 0 \/ tail[s] # "open")}

DispatchRequest ==
    /\ pc = "requests"
    /\ \E s \in Reaches(RequestsDue) :
         /\ Goto("requests", s + 1)
         /\ TakeRequest(s) \/ TakeEnd(s)
         /\ upset' = IF OutOfTurn(s) THEN upset \cup {cid[s]} ELSE upset
    /\ UNCHANGED <<results, stop, threads>>

\* reap: every connection that is to be closed and is drained, and any idle
\* one whose time is up.  Then the stop flag, at the top of the loop.
IdleWhileInFlight(s) == live[s] /\ queued[s] = 0 /\ pending[s] = 0 /\ ~streaming[s]
Idle(s) == /\ live[s] /\ queued[s] = 0 /\ pending[s] = 0
           /\ ~streaming[s] /\ ~inflight[s]

Reap ==
    /\ pc = "requests" /\ Ahead(RequestsDue) = {}
    /\ \/ Goto("events", 0) /\ UNCHANGED stop
       \/ Goto("join", 0) /\ stop' = TRUE
    /\ \E late \in SUBSET {s \in Slots : Idle(s)} :
         drop(late \cup {s \in Slots : live[s] /\ closing[s] /\ pending[s] = 0})
    /\ UNCHANGED <<next_engine, jobs, belated, results, threads, upset>>

\* join_all, then drain_all and drop_all: what is still a result stays one.
Join ==
    /\ pc = "join" /\ \A t \in Threads : exited[t]
    /\ Goto("done", 0)
    /\ drop({s \in Slots : live[s]})
    /\ UNCHANGED <<next_engine, mailbox, threads, upset>>

Loop == \/ Polled \/ Collect \/ DispatchStream \/ DispatchRoom
        \/ DispatchRequest \/ Reap \/ Join
-----------------------------------------------------------------------------
\* _engine_main: the oldest job that is this thread's.
NextJobOfAny(t) == {i \in DOMAIN jobs : i = 1}
NextJob(t) == {i \in DOMAIN jobs :
                 /\ jobs[i].thread = t
                 /\ \A j \in 1 .. i - 1 : jobs[j].thread # t}

\* The thread is back at the top of its loop.
Ready(t) == busy[t] = NoJob /\ ~exited[t] /\ ~looked[t]

TakeJob(t) ==
    /\ Ready(t)
    /\ \E i \in NextJob(t) :
         /\ busy' = [busy EXCEPT ![t] = jobs[i]]
         /\ jobs' = SubSeq(jobs, 1, i - 1) \o SubSeq(jobs, i + 1, Len(jobs))
    /\ UNCHANGED <<loop, next_engine, pc, at, conns, belated, results, stop, looked,
                   exited, phase, history, upset>>

\* _answer: a whole answer, or the head of a stream the handler now holds.
Answer(t) ==
    LET job == busy[t]
    IN  \/ \E close \in BOOLEAN :
             /\ results' = Append(results, Result(job, RES_DONE, close, 2, 0))
             /\ UNCHANGED phase
        \/ \E n \in FRAMES :
             /\ results' = Append(results, Result(job, RES_STREAM_HEAD, FALSE, 1, n))
             /\ phase' = [phase EXCEPT ![t][job.slot] =
                            [cid |-> job.cid, number |-> job.number, left |-> n]]

\* _stream_step: a frame, or the empty end of the stream.
StreamStep(t) ==
    LET job == busy[t]
        held == phase[t][job.slot]
    IN  IF held.left > 0
        THEN /\ results' = Append(results,
                           Result(job, RES_BYTES, FALSE, 1, held.left - 1))
             /\ phase' = [phase EXCEPT ![t][job.slot] =
                  [cid |-> held.cid, number |-> held.number, left |-> held.left - 1]]
        ELSE /\ results' = Append(results, Result(job, RES_DONE, TRUE, 0, 0))
             /\ phase' = [phase EXCEPT ![t][job.slot] = NoStream]

RunJob(t) ==
    /\ busy[t] # NoJob
    /\ IF busy[t].kind = JOB_REQUEST THEN Answer(t) ELSE StreamStep(t)
    /\ busy' = [busy EXCEPT ![t] = NoJob]
    /\ UNCHANGED <<loop, next_engine, pc, at, conns, jobs, belated, stop, looked, exited,
                   history, upset>>

\* Work first, the flag only when there is none: take_job comes back empty, ...
SpentAlways(t) == TRUE
Spent(t) == NextJob(t) = {}

FindNone(t) ==
    /\ Ready(t) /\ Spent(t)
    /\ looked' = [looked EXCEPT ![t] = TRUE]
    /\ UNCHANGED <<loop, next_engine, pc, at, conns, mailbox, busy, exited, phase,
                   history, upset>>

\* ... and stopped() takes the lock anew.  The loop has moved in between.
AskStop(t) ==
    /\ looked[t]
    /\ looked' = [looked EXCEPT ![t] = FALSE]
    /\ exited' = [exited EXCEPT ![t] = stop]
    /\ belated' = IF stop THEN belated ELSE {job \in belated : job.thread # t}
    /\ UNCHANGED <<loop, next_engine, pc, at, conns, jobs, results, stop, busy, phase,
                   history, upset>>

Engine(t) == TakeJob(t) \/ RunJob(t) \/ FindNone(t) \/ AskStop(t)

\* The process is over.
Ended == pc \in {"done", "raised"} /\ UNCHANGED vars

Next ==
    \/ Loop \/ Accept \/ Ended
    \/ \E s \in Slots : Receive(s) \/ Flush(s) \/ Reset(s)
    \/ \E t \in Threads : Engine(t)

\* The loop and the threads run; a client that stays reads what it is sent
\* (poll reports its socket in every round until it is drained).  The subscripts
\* are what a step of each always changes.
Fairness ==
    /\ WF_<<pc, at, results>>(Loop)
    /\ \A t \in Threads : WF_<<busy, looked>>(Engine(t))
    /\ \A s \in Slots : SF_pending(Flush(s))

Spec == Init /\ [][Next]_vars /\ Fairness
-----------------------------------------------------------------------------
TypeOK ==
    /\ live \in [Slots -> BOOLEAN] /\ gen \in [Slots -> Nat]
    /\ inflight \in [Slots -> BOOLEAN] /\ streaming \in [Slots -> BOOLEAN]
    /\ owner \in [Slots -> Threads \cup {-1}] /\ next_engine \in Threads
    /\ queued \in [Slots -> 0 .. MAX_INBOUND]
    /\ tail \in [Slots -> {"open", "closed", "broken"}]
    /\ pending \in [Slots -> 0 .. SEND_HIGH_WATER]
    /\ closing \in [Slots -> BOOLEAN]
    /\ Len(jobs) <= MAILBOX_CAP
    /\ pc \in {"events", "collect", "streams", "requests", "join", "done", "raised"}
    /\ \A s \in Slots : ~live[s] =>
         /\ ~inflight[s] /\ ~streaming[s] /\ owner[s] = -1
         /\ queued[s] = 0 /\ pending[s] = 0 /\ ~closing[s]

\* stream_next is only called where handle opened that stream: on the thread
\* that holds it, though the slot may have changed hands since.
StepFindsItsStream ==
    \A t \in Threads :
      busy[t].kind = JOB_STREAM_STEP /\ busy[t].cid \notin upset =>
        LET held == phase[t][busy[t].slot]
        IN  held.cid = busy[t].cid /\ held.number = busy[t].number

\* What is sent to a connection was made for it, and a stream's step finds its
\* own stream: the generation of a slot and the thread that owns it tell its
\* connections apart, however late an answer or a step is.
AnswersGoHome ==
    /\ \A s \in Slots : last[s] # Nothing => live[s] /\ last[s].cid = cid[s]
    /\ StepFindsItsStream

\* The work of a connection that is outside the loop.
Outstanding(c) ==
    Cardinality({i \in DOMAIN jobs : jobs[i].cid = c})
      + Cardinality({i \in DOMAIN results : results[i].cid = c})
      + Cardinality({t \in Threads : busy[t].cid = c})

\* "At most one thing in flight per slot", and exactly one when it is marked;
\* a request that was taken is answered, streaming or in flight: none is lost
\* and none is answered twice.  What is kept for a slot has its type, and a
\* slot that is free keeps nothing.
OneInFlight ==
    /\ TypeOK
    /\ \A s \in Slots : live[s] /\ cid[s] \notin upset =>
         /\ Outstanding(cid[s]) = IF inflight[s] THEN 1 ELSE 0
         /\ streaming[s] <=> last[s].kind # RES_DONE
         /\ number[s] = last[s].number + IF inflight[s] /\ ~streaming[s] THEN 1 ELSE 0

\* What a client reads is its answers one after the other in the order of the
\* requests, and each stream in one piece, frame after frame.
Follows(old, new) ==
    IF old.kind = RES_DONE
    THEN new.number = old.number + 1 /\ new.kind # RES_BYTES
    ELSE /\ new.number = old.number
         /\ \/ new.kind = RES_BYTES /\ new.left = old.left - 1
            \/ new.kind = RES_DONE /\ old.left = 0

AnswersInOrder ==
    [][\A s \in Slots : live'[s] /\ last'[s] # last[s] => Follows(last[s], last'[s])]_vars

\* It is so, and nothing comes after what closes the connection, unless two
\* requests of the connection got under way at once.
AnswersInOrderUnlessUpset ==
    [][\A s \in Slots : live'[s] /\ last'[s] # last[s] /\ cid[s] \notin upset =>
         Follows(last[s], last'[s]) /\ ~last[s].close]_vars

\* A connection that the loop itself closes, for being idle, answered or at
\* its end, is owed nothing: no answer outside, no byte unsent, no stream.
NotClosedWhileOwed ==
    [][\A s \in Slots :
         /\ pc = "requests"
         /\ live[s] /\ ~live'[s] /\ tail[s] # "broken" /\ cid[s] \notin upset'
         => Outstanding(cid[s]) = 0 /\ pending[s] = 0 /\ ~streaming[s]]_vars

\* A request in flight comes back: its slot is marked only until its answer
\* is in, its connection is closed or the process is over.
InFlightReturns ==
    \A s \in Slots : []<>(~inflight[s] \/ pc = "raised")

\* A thread finishes what there is before it goes: what is left when they are
\* joined was pushed after its thread had found nothing to do and before it asked
\* whether to stop, and nothing is left half done.
OnlyLateWorkIsLeft ==
    pc = "done" => /\ \A t \in Threads : busy[t] = NoJob
                   /\ \A i \in DOMAIN jobs : jobs[i] \in belated
=============================================================================
