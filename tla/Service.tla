------------------------------- MODULE Service -------------------------------
(***************************************************************************)
(* serve.mojo (ModelService) under srv/openai.mojo (ChatHandler): one      *)
(* handler, one thread, the streams of many connections.  A stream's       *)
(* number is its connection slot.  A stream lives in a row of the batch    *)
(* table, in the queue for one, or is the single stream of the serial      *)
(* path, which shares the model's KV with complete().                      *)
(*                                                                         *)
(* A call of the handler is one step but for the ticks _batch_next takes.  *)
(* A connection may go away in between: nobody tells the handler.  The     *)
(* engine is what EngineCore promises: a tick lands every cancel, gives    *)
(* each running request one token, or raises.  An answer is its tokens     *)
(* 1, 2, ...; FOREIGN is one that is not in it.                            *)
(***************************************************************************)
EXTENDS Naturals, FiniteSets, SequencesExt

CONSTANTS MAX_STREAMS,  \* connection slots
          MAX_BATCH,    \* rows of the batch table, and of the engine
          MAX_CONNS,    \* places in the queue
          Asks,         \* what the clients of a slot ask: sets of [steps, fits, temp];
                        \* fits: within the engine's limits
          FAULTS        \* bound: ticks that raise or preempt

ASSUME ServiceAssumption ==
    /\ MAX_STREAMS \in Nat \ {0} /\ MAX_BATCH \in Nat \ {0} /\ MAX_CONNS \in Nat
    /\ FAULTS \in Nat
    /\ \A r \in 0 .. MAX_STREAMS - 1 :
         Asks[r] \subseteq [steps : Nat \ {0}, fits : BOOLEAN, temp : Nat]

Streams    == 0 .. MAX_STREAMS - 1
NO_REQUEST == MAX_STREAMS
Rows       == 0 .. MAX_BATCH - 1
FOREIGN    == 0

VARIABLES svc,       \* the service: [ask, row, queue, eng, cancels, serial,
                     \* err, faults, upset]
          phase,     \* stream_phase of ChatHandler: "idle", "role", "text", "done"
          call,      \* the stream a _batch_next is ticking for, or NO_REQUEST
          conn,      \* "idle" or "streaming"
          got,       \* the tokens sent on the connection
          ended      \* "no", "finish" or "error": the last frame but [DONE]

vars == <<svc, phase, call, conn, got, ended>>

NoAsk    == [steps |-> 0, fits |-> FALSE, temp |-> 0]   \* also: a prompt that is refused
NoRow    == [req |-> NO_REQUEST, n |-> 0, emitted |-> 0]
NoSerial == [req |-> NO_REQUEST, count |-> 0, started |-> FALSE,
             kv |-> "empty", temp |-> 0]
NoEntry  == [st |-> "none", out |-> 0]

\* Steps and temperature are kept once per stream, in ask.  What the model's
\* own KV holds ("empty", the serial stream's "own", or "other") and what the
\* sampler is set to (temp) matter while there is a serial stream: it begins
\* by setting both.
NewService ==
    [ ask |-> [r \in Streams |-> NoAsk],
      row |-> [i \in Rows |-> NoRow], queue |-> <<>>,
      eng |-> [r \in Streams |-> NoEntry], cancels |-> {},
      serial |-> NoSerial,
      err |-> FALSE, faults |-> 0, upset |-> {} ]

Init ==
    /\ svc = NewService
    /\ phase = [r \in Streams |-> "idle"]
    /\ call = NO_REQUEST
    /\ conn = [r \in Streams |-> "idle"]
    /\ got = [r \in Streams |-> <<>>]
    /\ ended = [r \in Streams |-> "no"]

Raise(v) == [v EXCEPT !.err = TRUE]

InRow(v, r)   == \E i \in Rows : v.row[i].req = r
slot_of(v, r) == CHOOSE i \in Rows : v.row[i].req = r
FreeRows(v)   == {i \in Rows : v.row[i].req = NO_REQUEST}
Serial(v)     == {v.serial.req} \ {NO_REQUEST}
Waits(v, r)   == \E k \in DOMAIN v.queue : v.queue[k] = r
-----------------------------------------------------------------------------
(* The engine: submit, and one _batch_tick with what it may come to *)

Entries(v)  == {r \in Streams : v.eng[r].st # "none"}
has_work(v) == \E r \in Streams : v.eng[r].st \in {"new", "prefill", "run"}

Landed(v) ==
    [v EXCEPT !.cancels = {},
              !.eng = [r \in Streams |->
                  IF r \in v.cancels \cap Entries(v) THEN [v.eng[r] EXCEPT !.st = "done"]
                  ELSE v.eng[r]]]

\* One token; the last one makes the answer complete.
Answered(v, r) ==
    [st |-> IF v.eng[r].out + 1 = v.ask[r].steps THEN "done" ELSE "run",
     out |-> v.eng[r].out + 1]

\* The requests in still are in their prompt or wait for blocks.  A sampled
\* answer sets the sampler's temperature, and leaves it; which comes last is up
\* to the engine's slots.
Step(v, still) ==
    LET served  == {r \in Streams \ still : v.eng[r].st \in {"new", "prefill", "run"}}
        sampled == {v.ask[r].temp : r \in served} \ {0}
        moved   == [v EXCEPT !.eng = [r \in Streams |->
                      IF r \in served THEN Answered(v, r)
                      ELSE IF r \in still THEN [st |-> "prefill", out |-> 0]
                      ELSE v.eng[r]]]
    IN  IF sampled = {} \/ Serial(v) = {} THEN {moved}
        ELSE {[moved EXCEPT !.serial.temp = t,
                            !.upset = IF t = v.serial.temp THEN @ ELSE @ \cup Serial(v)] :
                t \in sampled}

Arriving(v) == {r \in Streams : v.eng[r].st = "new"}

\* The scheduler refuses what has just arrived; or the step fails later on.
Faults(v) ==
    LET landed == Landed(v)
        failed == [v EXCEPT !.faults = @ + 1, !.err = TRUE]
    IN  IF v.faults = FAULTS THEN {} ELSE
        { [failed EXCEPT !.eng = [r \in Streams |->
              IF r \in Arriving(v) THEN NoEntry ELSE v.eng[r]]],
          [failed EXCEPT !.cancels = {},
              !.eng = [r \in Streams |->
                  IF r \in Arriving(landed) THEN [st |-> "prefill", out |-> 0]
                  ELSE landed.eng[r]]] }
        \cup UNION { Step([landed EXCEPT !.faults = @ + 1, !.upset = @ \cup {r}], {r}) :
                       r \in {s \in Streams : landed.eng[s].st = "run"} }

Ticks(v) ==
    IF \E r \in Entries(v) : v.eng[r].st = "run" /\ ~InRow(v, r) THEN {Raise(v)}
    ELSE Faults(v) \cup
         UNION { Step(Landed(v), still) : still \in SUBSET Arriving(Landed(v)) }

Submit(v, i, r) ==
    IF r \in Entries(v) \/ Cardinality(Entries(v)) = MAX_BATCH THEN Raise(v)
    ELSE [v EXCEPT !.eng[r] = [st |-> "new", out |-> 0],
                   !.row[i] = [req |-> r, n |-> 0, emitted |-> 0]]
-----------------------------------------------------------------------------
(* The service's calls, as sets of what they may come to *)

Smallest(S) == CHOOSE i \in S : \A j \in S : i <= j

\* The head of the queue: skipped when it has been crossed out.
AdmitHead(v) ==
    LET r == Head(v.queue)
        w == Submit(v, Smallest(FreeRows(v)), r)
    IN  IF w.err THEN w ELSE [w EXCEPT !.queue = Tail(@)]

AdmitNobody(v) == v

AdmitOne(v) ==
    IF v.err \/ v.queue = <<>> THEN v
    ELSE IF Head(v.queue) = NO_REQUEST THEN [v EXCEPT !.queue = Tail(@)]
    ELSE IF FreeRows(v) = {} THEN v ELSE AdmitHead(v)

\* Once for each place of the queue is often enough.
Admitted(v) ==
    LET after[k \in 0 .. Len(v.queue)] ==
          IF k = 0 THEN v ELSE AdmitOne(after[k - 1])
    IN  after[Len(v.queue)]

\* When the engine is full though the table is not, the head stays and a tick
\* is spent; every other error is the caller's.
Admits(v) ==
    LET w == Admitted(v)
    IN  IF w.err /\ Head(w.queue) \notin Entries(w)
        THEN Ticks([w EXCEPT !.err = FALSE]) ELSE {w}

\* The serial stream of another connection is let go first, so that there is
\* room for one - and even when the prompt is then refused.
stream_begin(v, r, q) ==
    LET alone == [v EXCEPT !.ask[r] = q, !.upset = @ \ {r},
                    !.serial = IF v.serial.req = r THEN @ ELSE NoSerial]
    IN  IF q = NoAsk THEN Raise(alone)
        ELSE IF q.fits /\ FreeRows(v) # {} THEN Submit(alone, Smallest(FreeRows(v)), r)
        ELSE IF q.fits /\ Len(v.queue) < MAX_CONNS
        THEN [alone EXCEPT !.queue = Append(@, r)]
        ELSE [alone EXCEPT !.serial = [NoSerial EXCEPT !.req = r, !.temp = q.temp]]

ReleasedRow(v, r) == [v EXCEPT !.row[slot_of(v, r)] = NoRow]

\* The row goes back when the engine has let go; a tick that raises keeps it.
Released(v, r) ==
    [v EXCEPT !.eng[r] = NoEntry, !.row[slot_of(v, r)] = NoRow]

stream_end(v, r) ==
    IF InRow(v, r)
    THEN UNION { IF w.err THEN {w} ELSE Admits(Released(w, r)) :
                   w \in IF v.eng[r].st \in {"none", "done"} THEN {v}
                         ELSE Ticks([v EXCEPT !.cancels = @ \cup {r}]) }
    ELSE IF Waits(v, r)
    THEN Admits([v EXCEPT !.queue = [k \in DOMAIN @ |-> IF @[k] = r THEN NO_REQUEST ELSE @[k]]])
    ELSE IF v.serial.req = r THEN {[v EXCEPT !.serial = NoSerial]} ELSE {v}

\* prefill wants an empty KV; step goes on from whatever is there.
SerialToken(v, r) ==
    IF /\ v.serial.started => v.serial.kv = "own"
       /\ v.ask[r].temp # 0 => v.serial.temp = v.ask[r].temp
    THEN v.serial.count + 1 ELSE FOREIGN

SerialStep(v, r) ==
    IF v.serial.req # r \/ (~v.serial.started /\ v.serial.kv # "empty") THEN Raise(v)
    ELSE [v EXCEPT !.serial.started = TRUE, !.serial.count = @ + 1,
                   !.serial.kv = IF v.serial.started THEN @ ELSE "own"]
-----------------------------------------------------------------------------
(* ChatHandler, called by the loop for one connection after another *)

Ready(r, state) == call = NO_REQUEST /\ conn[r] = state

Keep(v) == [v EXCEPT !.err = FALSE]

\* The connection is gone, and what was sent on it.
Hangs(r) ==
    /\ conn' = [conn EXCEPT ![r] = "idle"]
    /\ got' = [got EXCEPT ![r] = <<>>]
    /\ ended' = [ended EXCEPT ![r] = "no"]

\* 500 when what the slot held cannot be ended, 400 when the service refuses.
begin_stream(r, q) ==
    /\ Ready(r, "idle")
    /\ \E v \in IF phase[r] = "idle" THEN {svc} ELSE stream_end(svc, r) :
         LET w == stream_begin(v, r, q)
         IN  IF v.err THEN svc' = Keep(v) /\ UNCHANGED <<phase, conn, got, ended>>
             ELSE /\ svc' = Keep(w)
                  /\ phase' = [phase EXCEPT ![r] = IF w.err THEN "idle" ELSE "role"]
                  /\ conn' = [conn EXCEPT ![r] = IF w.err THEN "idle" ELSE "streaming"]
                  /\ got' = [got EXCEPT ![r] = <<>>]
                  /\ ended' = [ended EXCEPT ![r] = "no"]
    /\ UNCHANGED call

\* The model is reset first, whoever's KV it holds; a prompt that is refused
\* leaves it empty.
complete(r) ==
    /\ Ready(r, "idle")
    /\ Serial(svc) # {}
    /\ \E kv \in {"empty", "other"} :
         svc' = [svc EXCEPT !.serial.kv = kv, !.upset = @ \cup Serial(svc)]
    /\ UNCHANGED <<phase, call, conn, got, ended>>

role(r) ==
    /\ Ready(r, "streaming") /\ phase[r] = "role"
    /\ phase' = [phase EXCEPT ![r] = "text"]
    /\ UNCHANGED <<svc, call, conn, got, ended>>

\* What the handler makes of a token, or of an error (how = "error").  The
\* text of a token that is the last one is not sent.
Frame(r, tokens, last, how) ==
    LET over == how = "error" \/ last \/ tokens = <<>>
    IN  /\ phase' = [phase EXCEPT ![r] = IF over THEN "done" ELSE @]
        /\ got' = [got EXCEPT ![r] = IF over \/ conn[r] = "idle" THEN @ ELSE @ \o tokens]
        /\ ended' = [ended EXCEPT ![r] =
                       IF over /\ conn[r] # "idle" THEN how ELSE @]

\* stream_next up to the path it takes: in a row, the ticks come next.
text(r) ==
    /\ Ready(r, "streaming") /\ phase[r] = "text"
    /\ \E v \in Admits(svc) :
         \/ v.err /\ svc' = Keep(v) /\ Frame(r, <<>>, TRUE, "error") /\ UNCHANGED call
         \/ /\ ~v.err /\ Waits(v, r)
            /\ svc' = v /\ UNCHANGED <<phase, call, got, ended>>
         \/ /\ ~v.err /\ InRow(v, r)
            /\ svc' = v /\ call' = r /\ UNCHANGED <<phase, got, ended>>
         \/ /\ ~v.err /\ ~Waits(v, r) /\ ~InRow(v, r)
            /\ LET w == SerialStep(v, r)
               IN  IF v.serial.req = r /\ v.serial.count = v.ask[r].steps
                   THEN svc' = v /\ Frame(r, <<>>, TRUE, "finish")
                   ELSE svc' = Keep(w) /\
                        IF w.err THEN Frame(r, <<>>, TRUE, "error")
                        ELSE Frame(r, <<SerialToken(v, r)>>, FALSE, "finish")
            /\ UNCHANGED call
    /\ UNCHANGED conn

\* The [DONE] frame; without it, when the service raises.
done(r) ==
    /\ Ready(r, "streaming") /\ phase[r] = "done"
    /\ \E v \in stream_end(svc, r) :
         IF v.err THEN svc' = Keep(v) /\ UNCHANGED phase /\ Hangs(r)
         ELSE /\ svc' = [v EXCEPT !.ask[r] = NoAsk, !.upset = @ \ {r}]
              /\ phase' = [phase EXCEPT ![r] = "idle"]
              /\ got' = [got EXCEPT ![r] = <<>>]
              /\ ended' = [ended EXCEPT ![r] = "no"]
              /\ UNCHANGED conn
    /\ UNCHANGED call

close(r) ==
    /\ Ready(r, "streaming") /\ phase[r] = "idle"
    /\ Hangs(r)
    /\ UNCHANGED <<svc, phase, call>>

stream_next(r) == role(r) \/ text(r) \/ done(r) \/ close(r)

Wants(r) == svc.row[slot_of(svc, r)].n

\* _batch_next: ticks until the engine has a token more than were asked for.
batch_tick(r) ==
    /\ call = r
    /\ r \in Entries(svc) /\ svc.eng[r].out <= Wants(r) /\ has_work(svc)
    /\ \E v \in Ticks(svc) :
         /\ svc' = Keep(v)
         /\ IF v.err THEN call' = NO_REQUEST /\ Frame(r, <<>>, TRUE, "error")
                     ELSE UNCHANGED <<call, phase, got, ended>>
    /\ UNCHANGED conn

\* All the text there is and has not been sent; from the start when there is
\* less than that.
NewToken(emitted, out) == <<out>>

NewText(emitted, out) ==
    LET sent == IF emitted > out THEN 0 ELSE emitted
    IN  [k \in 1 .. out - sent |-> sent + k]

\* Whatever the text, one token is counted.
batch_next(r) ==
    /\ call = r
    /\ ~(r \in Entries(svc) /\ svc.eng[r].out <= Wants(r) /\ has_work(svc))
    /\ LET i    == slot_of(svc, r)
           out  == svc.eng[r].out
       IN  IF r \notin Entries(svc) THEN Frame(r, <<>>, TRUE, "error") /\ UNCHANGED svc
           ELSE IF out <= Wants(r) THEN Frame(r, <<>>, TRUE, "finish") /\ UNCHANGED svc
           ELSE /\ svc' = [svc EXCEPT !.row[i].n = @ + 1, !.row[i].emitted = out]
                /\ Frame(r, NewText(svc.row[i].emitted, out),
                         Wants(r) + 1 >= svc.ask[r].steps, "finish")
    /\ call' = NO_REQUEST
    /\ UNCHANGED conn

\* The loop drops a connection.  One that goes during a call is one that goes
\* right after it, when nothing but got and ended tell of the call's frame.
drop(r) ==
    /\ Ready(r, "streaming")
    /\ Hangs(r)
    /\ svc' = [svc EXCEPT !.upset = @ \ {r}]
    /\ UNCHANGED <<phase, call>>

Next ==
    \E r \in Streams :
        \/ \E q \in Asks[r] : begin_stream(r, q)
        \/ begin_stream(r, NoAsk) \/ complete(r)
        \/ stream_next(r) \/ batch_tick(r) \/ batch_next(r)
        \/ drop(r)

\* The loop asks for every stream, its jobs are taken in order and the
\* thread runs: a stream is asked again and again while it is open.
Spec ==
    /\ Init /\ [][Next]_vars
    /\ \A r \in Streams : SF_vars(stream_next(r)) /\ WF_vars(batch_tick(r) \/ batch_next(r))
-----------------------------------------------------------------------------
InService(v) ==
    ({v.row[i].req : i \in Rows} \cup Range(v.queue) \cup {v.serial.req}) \ {NO_REQUEST}

\* The engine serves nobody the table does not know - a tick that finds such
\* a request raises for everybody - no stream is in two places, nothing is
\* kept for a stream its connection's slot has closed, and nobody waits, or
\* is overtaken, while a row is free.
TablesAgree ==
    /\ Entries(svc) \subseteq {svc.row[i].req : i \in Rows}
    /\ \A r \in Streams :
         Cardinality({i \in Rows : svc.row[i].req = r})
           + Cardinality({k \in DOMAIN svc.queue : svc.queue[k] = r})
           + (IF svc.serial.req = r THEN 1 ELSE 0) <= 1
    /\ \A r \in InService(svc) : phase[r] # "idle"
    /\ Len(svc.queue) <= MAX_CONNS
    /\ (\E k \in DOMAIN svc.queue : svc.queue[k] # NO_REQUEST) => FreeRows(svc) = {}

IsOwn(r) == \A k \in DOMAIN got[r] : got[r][k] = k

\* What a client is sent is its own answer, from the first token on, without a
\* gap and without a repetition, unless one of three things that the code does
\* not prevent happened to it: the model was reset under a serial stream, its
\* temperature was set by a batch, or a preemption took back a row's answer.
OwnAnswerUnlessUpset ==
    \A r \in Streams : r \notin svc.upset => IsOwn(r)

\* serve.mojo: resetting for every request is what keeps step from "quietly
\* stitching two requests together".
OwnAnswer == \A r \in Streams : IsOwn(r)

\* README: a streamed answer is, put together, the one that is not streamed.
AnswersAreWhole ==
    \A r \in Streams : ended[r] = "finish" => Len(got[r]) = svc.ask[r].steps

Abandoned == \E r \in Streams : conn[r] = "idle" /\ phase[r] # "idle"

\* Every stream has an end, the one that waits for a row too, if from some
\* time on no stream is left behind by its connection.
EveryStreamEnds ==
    <>[]~Abandoned => \A r \in Streams : conn[r] = "streaming" ~> conn[r] = "idle"
=============================================================================
