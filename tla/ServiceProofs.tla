--------------------------- MODULE ServiceProofs ---------------------------
(* Theorems about ModelService under ChatHandler.  The inductive invariant *)
(* says what the tables know of a stream (Sound), that nobody in the queue *)
(* is overtaken (InTurn), and, for a stream whose answer is being sent,    *)
(* how far its place in the service and its connection are (Matches).      *)
EXTENDS Service, FiniteSetTheorems, WellFoundedInduction, TLAPS

Requests == 0 .. MAX_STREAMS
States   == {"none", "new", "prefill", "run", "done"}
Places   == [req : Requests, n : Nat, emitted : Nat]
Serials  == [req : Requests, count : Nat, started : BOOLEAN,
             kv : {"empty", "own", "other"}, temp : Nat]
Books    == [ ask : [Streams -> [steps : Nat, fits : BOOLEAN, temp : Nat]],
              row : [Rows -> Places], queue : Seq(Requests),
              eng : [Streams -> [st : States, out : Nat]], cancels : SUBSET Streams,
              serial : Serials, err : BOOLEAN, faults : Nat, upset : SUBSET Streams ]

TypeOK ==
    /\ svc \in Books
    /\ phase \in [Streams -> {"idle", "role", "text", "done"}]
    /\ call \in Requests
    /\ conn \in [Streams -> {"idle", "streaming"}]
    /\ got \in [Streams -> Seq(Nat)]
    /\ ended \in [Streams -> {"no", "finish", "error"}]

Held(v, r) == InRow(v, r) \/ Waits(v, r) \/ v.serial.req = r

\* A stream is in one place at most.
OnePlace(v) ==
    /\ \A i, j \in Rows : v.row[i].req = v.row[j].req /\ v.row[i].req # NO_REQUEST => i = j
    /\ \A k, l \in DOMAIN v.queue : v.queue[k] = v.queue[l] /\ v.queue[k] # NO_REQUEST => k = l
    /\ \A i \in Rows : \A k \in DOMAIN v.queue :
         v.queue[k] # NO_REQUEST => v.row[i].req # v.queue[k]
    /\ v.serial.req # NO_REQUEST => ~InRow(v, v.serial.req) /\ ~Waits(v, v.serial.req)

\* The engine serves the rows, and has said nothing for whom it has not begun.
Known(v) ==
    \A r \in Streams : /\ v.eng[r].st # "none" => InRow(v, r)
                       /\ v.eng[r].st \in {"none", "new"} => v.eng[r].out = 0

Sound(v)  == OnePlace(v) /\ Known(v) /\ Len(v.queue) <= MAX_CONNS
InTurn(v) == (\E k \in DOMAIN v.queue : v.queue[k] # NO_REQUEST) => FreeRows(v) = {}

\* g is the part of r's answer that its place in the service has been asked for.
RowMatches(v, r, g) ==
    \A i \in Rows : v.row[i].req = r =>
        v.row[i].emitted = Len(g) /\ Len(g) <= v.eng[r].out

SerialMatches(v, r, g) ==
    v.serial.req = r =>
        /\ v.serial.count = Len(g)
        /\ v.serial.started => v.serial.kv = "own"
        /\ v.ask[r].temp # 0 => v.serial.temp = v.ask[r].temp

Matches(v, r, g) ==
    r \notin v.upset => /\ RowMatches(v, r, g)
                        /\ Waits(v, r) => g = <<>>
                        /\ SerialMatches(v, r, g)

Telling(r) == conn[r] = "streaming" /\ phase[r] \in {"role", "text"}

\* A stream, its place in the service and its connection are in step.
InStep(r) ==
    /\ Held(svc, r) => phase[r] # "idle"
    /\ Telling(r) => Matches(svc, r, got[r])
    /\ r \notin svc.upset => IsOwn(r)

CallHasRow == call # NO_REQUEST => InRow(svc, call) /\ phase[call] = "text"

Tables == ~svc.err /\ Sound(svc) /\ InTurn(svc)

IInv == TypeOK /\ Tables /\ CallHasRow /\ \A r \in Streams : InStep(r)
-----------------------------------------------------------------------------
(* The engine *)

Fresh(e) == e.st \in {"none", "new"} => e.out = 0

EngMoves(v, w) ==
    \A r \in Streams :
        /\ w.eng[r].st # "none" => v.eng[r].st # "none"
        /\ Fresh(v.eng[r]) => Fresh(w.eng[r]) /\ (r \notin w.upset => v.eng[r].out <= w.eng[r].out)

SerialStays(v, w) ==
    /\ w.serial.req = v.serial.req /\ w.serial.count = v.serial.count
    /\ w.serial.started = v.serial.started /\ w.serial.kv = v.serial.kv
    /\ w.serial.temp # v.serial.temp /\ v.serial.req # NO_REQUEST => v.serial.req \in w.upset

\* What a tick leaves alone, and how it moves what the engine has.
Ticked(v, w) ==
    /\ w.row = v.row /\ w.queue = v.queue /\ w.ask = v.ask
    /\ v.upset \subseteq w.upset
    /\ SerialStays(v, w)
    /\ EngMoves(v, w)

LEMMA TheStreams ==
    /\ MAX_STREAMS \in Nat /\ MAX_BATCH \in Nat /\ MAX_CONNS \in Nat
    /\ Requests = Streams \cup {NO_REQUEST} /\ NO_REQUEST \notin Streams
BY ServiceAssumption DEF Requests, Streams, NO_REQUEST

\* Ticks follow one another.
LEMMA TickedTwice ==
    ASSUME NEW u \in Books, NEW v \in Books, NEW w \in Books, Ticked(u, v), Ticked(v, w)
    PROVE  Ticked(u, w)
<1>1. SerialStays(u, w)
    BY DEF Ticked, SerialStays
<1>2. ASSUME NEW r \in Streams
      PROVE  /\ w.eng[r].st # "none" => u.eng[r].st # "none"
             /\ Fresh(u.eng[r]) => /\ Fresh(w.eng[r])
                                   /\ r \notin w.upset => u.eng[r].out <= w.eng[r].out
    <2>1. u.eng[r].out \in Nat /\ v.eng[r].out \in Nat /\ w.eng[r].out \in Nat
        BY DEF Books
    <2> QED
        BY <2>1 DEF Ticked, EngMoves
<1> QED
    BY <1>1, <1>2 DEF Ticked, EngMoves

\* A cancel that lands makes an answer complete, and changes nothing else.
LEMMA LandedTicked ==
    ASSUME NEW v \in Books
    PROVE  /\ Landed(v) \in Books /\ Ticked(v, Landed(v))
           /\ Landed(v).err = v.err /\ Landed(v).upset = v.upset
<1> DEFINE e == [r \in Streams |->
                  IF r \in v.cancels \cap Entries(v) THEN [v.eng[r] EXCEPT !.st = "done"]
                  ELSE v.eng[r]]
<1>1. Landed(v) = [v EXCEPT !.cancels = {}, !.eng = e]
    BY DEF Landed
<1>2. ASSUME NEW r \in Streams
      PROVE  /\ e[r] \in [st : States, out : Nat] /\ e[r].out = v.eng[r].out
             /\ e[r].st = v.eng[r].st \/ (e[r].st = "done" /\ v.eng[r].st # "none")
    BY DEF Books, Entries, States
<1>3. e \in [Streams -> [st : States, out : Nat]]
    BY <1>2
<1> HIDE DEF e
<1>4. /\ Landed(v).row = v.row /\ Landed(v).queue = v.queue /\ Landed(v).ask = v.ask
      /\ Landed(v).upset = v.upset /\ Landed(v).serial = v.serial /\ Landed(v).eng = e
      /\ Landed(v).err = v.err
    BY <1>1 DEF Books
<1>5. Landed(v) \in Books
    BY <1>1, <1>3 DEF Books
<1>6. EngMoves(v, Landed(v))
    BY <1>2, <1>4 DEF EngMoves, Fresh, Books
<1> QED
    BY <1>4, <1>5, <1>6 DEF Ticked, SerialStays

\* A step gives tokens, and takes back only what an upset request had.
LEMMA StepTicked ==
    ASSUME NEW v \in Books, NEW still \in SUBSET Streams, NEW w \in Step(v, still),
           \A r \in still : v.eng[r].st # "none" /\ (v.eng[r].st = "new" \/ r \in v.upset)
    PROVE  w \in Books /\ Ticked(v, w)
<1> DEFINE served  == {r \in Streams \ still : v.eng[r].st \in {"new", "prefill", "run"}}
           sampled == {v.ask[r].temp : r \in served} \ {0}
           e == [r \in Streams |-> IF r \in served THEN Answered(v, r)
                                   ELSE IF r \in still THEN [st |-> "prefill", out |-> 0]
                                   ELSE v.eng[r]]
           moved == [v EXCEPT !.eng = e]
<1>1. ASSUME NEW r \in Streams
      PROVE  /\ e[r] \in [st : States, out : Nat]
             /\ e[r].st # "none" => v.eng[r].st # "none"
             /\ Fresh(v.eng[r]) => /\ Fresh(e[r])
                                   /\ r \notin v.upset => v.eng[r].out <= e[r].out
    <2>1. v.eng[r] \in [st : States, out : Nat]
        BY DEF Books
    <2>2. CASE r \in served
        BY <2>1, <2>2 DEF Answered, States, Fresh
    <2>3. CASE r \notin served /\ r \in still
        BY <2>1, <2>3 DEF States, Fresh
    <2>4. CASE r \notin served /\ r \notin still
        BY <2>1, <2>4
    <2> QED
        BY <2>2, <2>3, <2>4
<1>2. e \in [Streams -> [st : States, out : Nat]]
    BY <1>1
<1>3. sampled \subseteq Nat
    BY DEF Books
<1>4. w = moved \/ \E t \in sampled :
          w = [moved EXCEPT !.serial.temp = t,
                            !.upset = IF t = v.serial.temp THEN @ ELSE @ \cup Serial(v)]
    BY DEF Step
<1> HIDE DEF e, sampled
<1>5. /\ moved \in Books /\ moved.row = v.row /\ moved.queue = v.queue /\ moved.ask = v.ask
      /\ moved.serial = v.serial /\ moved.upset = v.upset /\ moved.eng = e
    BY <1>2 DEF Books
<1>6. CASE w = moved
    BY <1>1, <1>5, <1>6 DEF Ticked, SerialStays, EngMoves
<1>7. ASSUME NEW t \in sampled,
             w = [moved EXCEPT !.serial.temp = t,
                               !.upset = IF t = v.serial.temp THEN @ ELSE @ \cup Serial(v)]
      PROVE  w \in Books /\ Ticked(v, w)
    <2> HIDE DEF moved
    <2>1. t \in Nat /\ Serial(v) \subseteq Streams
        BY <1>3, TheStreams DEF Serial, Books, Serials
    <2> DEFINE s == [moved.serial EXCEPT !.temp = t]
               u == IF t = v.serial.temp THEN moved.upset ELSE moved.upset \cup Serial(v)
    <2>2. s \in Serials /\ u \in SUBSET Streams
        BY <1>5, <2>1 DEF Books, Serials
    <2>3. /\ s.req = v.serial.req /\ s.count = v.serial.count /\ s.started = v.serial.started
          /\ s.kv = v.serial.kv /\ s.temp = t
        BY <1>5 DEF Books, Serials
    <2>4. w = [moved EXCEPT !.serial = s, !.upset = u]
        BY <1>7, <1>5 DEF Books
    <2>5. /\ v.upset \subseteq u
          /\ t # v.serial.temp => v.serial.req \in u \/ v.serial.req = NO_REQUEST
        BY <1>5 DEF Serial
    <2> HIDE DEF s, u
    <2>6. /\ w \in Books /\ w.row = v.row /\ w.queue = v.queue /\ w.ask = v.ask /\ w.eng = e
          /\ w.serial = s /\ w.upset = u
        BY <1>5, <2>2, <2>4 DEF Books
    <2>7. SerialStays(v, w)
        BY <2>3, <2>5, <2>6 DEF SerialStays
    <2>8. EngMoves(v, w)
        BY <1>1, <2>5, <2>6 DEF EngMoves
    <2> QED
        BY <2>5, <2>6, <2>7, <2>8 DEF Ticked
<1> QED
    BY <1>4, <1>6, <1>7

\* What a tick may come to, when it fails too.
LEMMA FaultTicked ==
    ASSUME NEW v \in Books, NEW w \in Faults(v)
    PROVE  w \in Books /\ Ticked(v, w)
<1> DEFINE landed == Landed(v)
           failed == [v EXCEPT !.faults = @ + 1, !.err = TRUE]
           refused == [r \in Streams |-> IF r \in Arriving(v) THEN NoEntry ELSE v.eng[r]]
           begun == [r \in Streams |->
                       IF r \in Arriving(landed) THEN [st |-> "prefill", out |-> 0]
                       ELSE landed.eng[r]]
           turned(r) == [landed EXCEPT !.faults = @ + 1, !.upset = @ \cup {r}]
<1>1. landed \in Books /\ Ticked(v, landed) /\ landed.upset = v.upset
    BY LandedTicked
<1>2. /\ failed \in Books /\ failed.row = v.row /\ failed.queue = v.queue /\ failed.ask = v.ask
      /\ failed.serial = v.serial /\ failed.upset = v.upset /\ failed.eng = v.eng
    <2>1. v.faults \in Nat
        BY DEF Books
    <2>2. PICK n \in Nat : n = v.faults + 1
        BY <2>1
    <2>3. failed = [v EXCEPT !.faults = n, !.err = TRUE]
        BY <2>2
    <2> QED
        BY <2>3 DEF Books
<1>3. \/ w = [failed EXCEPT !.eng = refused]
      \/ w = [failed EXCEPT !.cancels = {}, !.eng = begun]
      \/ \E r \in {s \in Streams : landed.eng[s].st = "run"} : w \in Step(turned(r), {r})
    BY DEF Faults
<1> HIDE DEF landed, failed
<1>4. CASE w = [failed EXCEPT !.eng = refused]
    <2>1. ASSUME NEW r \in Streams
          PROVE  /\ refused[r] \in [st : States, out : Nat]
                 /\ refused[r] = v.eng[r]
                    \/ (refused[r].st = "none" /\ refused[r].out = 0 /\ v.eng[r].st = "new")
        BY DEF Books, NoEntry, States, Arriving
    <2>2. refused \in [Streams -> [st : States, out : Nat]]
        BY <2>1
    <2> HIDE DEF refused
    <2>3. /\ w \in Books /\ w.row = v.row /\ w.queue = v.queue /\ w.ask = v.ask
          /\ w.serial = v.serial /\ w.upset = v.upset /\ w.eng = refused
        BY <1>2, <1>4, <2>2 DEF Books
    <2>4. EngMoves(v, w)
        BY <2>1, <2>3 DEF EngMoves, Fresh, Books
    <2> QED
        BY <2>3, <2>4 DEF Ticked, SerialStays
<1>5. CASE w = [failed EXCEPT !.cancels = {}, !.eng = begun]
    <2>1. ASSUME NEW r \in Streams
          PROVE  /\ begun[r] \in [st : States, out : Nat]
                 /\ begun[r] = landed.eng[r]
                    \/ (begun[r].st = "prefill" /\ begun[r].out = 0 /\ landed.eng[r].st = "new")
        BY <1>1 DEF Books, States, Arriving
    <2>2. begun \in [Streams -> [st : States, out : Nat]]
        BY <2>1
    <2> HIDE DEF begun
    <2>3. /\ w \in Books /\ w.row = v.row /\ w.queue = v.queue /\ w.ask = v.ask
          /\ w.serial = v.serial /\ w.upset = v.upset /\ w.eng = begun
        BY <1>2, <1>5, <2>2 DEF Books
    <2>4. EngMoves(landed, w)
        BY <1>1, <2>1, <2>3 DEF EngMoves, Fresh, Books
    <2>5. Ticked(landed, w)
        BY <1>1, <2>3, <2>4 DEF Ticked, SerialStays
    <2> QED
        BY <1>1, <2>3, <2>5, TickedTwice
<1>6. ASSUME NEW r \in Streams, landed.eng[r].st = "run", w \in Step(turned(r), {r})
      PROVE  w \in Books /\ Ticked(v, w)
    <2> DEFINE t == turned(r)
    <2>1. /\ t \in Books /\ t.row = landed.row /\ t.queue = landed.queue /\ t.ask = landed.ask
          /\ t.serial = landed.serial /\ t.upset = landed.upset \cup {r} /\ t.eng = landed.eng
        <3>1. landed.faults \in Nat
            BY <1>1 DEF Books
        <3>2. PICK n \in Nat : n = landed.faults + 1
            BY <3>1
        <3>3. t = [landed EXCEPT !.faults = n, !.upset = landed.upset \cup {r}]
            BY <3>2
        <3> QED
            BY <1>1, <3>3 DEF Books
    <2> HIDE DEF t
    <2>2. Ticked(landed, t)
        BY <1>1, <2>1 DEF Ticked, SerialStays, EngMoves, Books
    <2>3. \A s \in {r} : t.eng[s].st # "none" /\ (t.eng[s].st = "new" \/ s \in t.upset)
        BY <1>6, <2>1
    <2>4. w \in Books /\ Ticked(t, w)
        <3>1. w \in Step(t, {r})
            BY <1>6 DEF t
        <3> QED
            BY <2>1, <2>3, <3>1, StepTicked
    <2> QED
        BY <1>1, <2>1, <2>2, <2>4, TickedTwice
<1> QED
    BY <1>3, <1>4, <1>5, <1>6

LEMMA TicksTicked ==
    ASSUME NEW v \in Books, NEW w \in Ticks(v)
    PROVE  w \in Books /\ Ticked(v, w)
<1>1. \/ w = Raise(v) \/ w \in Faults(v)
      \/ \E still \in SUBSET Arriving(Landed(v)) : w \in Step(Landed(v), still)
    BY DEF Ticks
<1>2. CASE w = Raise(v)
    <2>1. /\ w \in Books /\ w.row = v.row /\ w.queue = v.queue /\ w.ask = v.ask
          /\ w.serial = v.serial /\ w.upset = v.upset /\ w.eng = v.eng
        BY <1>2 DEF Raise, Books
    <2> QED
        BY <2>1 DEF Ticked, SerialStays, EngMoves, Books
<1>3. CASE w \in Faults(v)
    BY <1>3, FaultTicked
<1>4. ASSUME NEW still \in SUBSET Arriving(Landed(v)), w \in Step(Landed(v), still)
      PROVE  w \in Books /\ Ticked(v, w)
    <2>1. Landed(v) \in Books /\ Ticked(v, Landed(v))
        BY LandedTicked
    <2>2. still \in SUBSET Streams /\ \A r \in still : Landed(v).eng[r].st = "new"
        BY DEF Arriving
    <2>3. w \in Books /\ Ticked(Landed(v), w)
        BY <1>4, <2>1, <2>2, StepTicked
    <2> QED
        BY <2>1, <2>3, TickedTwice
<1> QED
    BY <1>1, <1>2, <1>3, <1>4
-----------------------------------------------------------------------------
(* What one call of the service keeps for a stream it is not about *)

Kept(v, w, s) ==
    /\ Held(w, s) => Held(v, s)
    /\ InRow(v, s) => InRow(w, s)
    /\ s \in v.upset => s \in w.upset
    /\ \A g \in Seq(Nat) : Matches(v, s, g) => Matches(w, s, g)

LEMMA KeptTwice ==
    ASSUME NEW u, NEW v, NEW w, NEW s, Kept(u, v, s), Kept(v, w, s)
    PROVE  Kept(u, w, s)
BY DEF Kept

LEMMA TickedKeeps ==
    ASSUME NEW v \in Books, NEW w \in Books, Ticked(v, w), Sound(v)
    PROVE  /\ Sound(w) /\ (InTurn(v) => InTurn(w))
           /\ \A s \in Streams : Kept(v, w, s)
<1>1. /\ w.row = v.row /\ w.queue = v.queue /\ w.ask = v.ask /\ w.serial.req = v.serial.req
      /\ v.upset \subseteq w.upset
    BY DEF Ticked, SerialStays
<1>2. \A s : /\ InRow(w, s) <=> InRow(v, s)
             /\ Waits(w, s) <=> Waits(v, s)
             /\ Held(w, s) <=> Held(v, s)
    BY <1>1 DEF InRow, Waits, Held
<1>3. OnePlace(w) /\ Len(w.queue) <= MAX_CONNS
    BY <1>1, <1>2 DEF Sound, OnePlace
<1>4. Known(w)
    BY <1>2 DEF Sound, Known, Ticked, EngMoves, Fresh
<1>5. InTurn(v) => InTurn(w)
    BY <1>1 DEF InTurn, FreeRows
<1>6. ASSUME NEW s \in Streams, NEW g \in Seq(Nat), Matches(v, s, g), s \notin w.upset
      PROVE  /\ RowMatches(w, s, g)
             /\ Waits(w, s) => g = <<>>
             /\ SerialMatches(w, s, g)
    <2>1. s \notin v.upset /\ RowMatches(v, s, g) /\ (Waits(v, s) => g = <<>>) /\ SerialMatches(v, s, g)
        BY <1>1, <1>6 DEF Matches
    <2>2. RowMatches(w, s, g)
        <3>1. v.eng[s].out \in Nat /\ w.eng[s].out \in Nat /\ Len(g) \in Nat
            BY DEF Books
        <3>2. v.eng[s].out <= w.eng[s].out
            BY <1>6 DEF Sound, Known, Ticked, EngMoves, Fresh
        <3> QED
            BY <1>1, <2>1, <3>1, <3>2 DEF RowMatches
    <2>3. SerialMatches(w, s, g)
        BY <1>1, <1>6, <2>1, TheStreams DEF SerialMatches, Ticked, SerialStays
    <2> QED
        BY <1>2, <2>1, <2>2, <2>3
<1>7. ASSUME NEW s \in Streams PROVE Kept(v, w, s)
    BY <1>1, <1>2, <1>6 DEF Kept, Matches
<1> QED
    BY <1>3, <1>4, <1>5, <1>7 DEF Sound

\* The engine has room when the table has: each of its requests is in a row.
LEMMA RoomInEngine ==
    ASSUME NEW v \in Books, Known(v), NEW i \in FreeRows(v)
    PROVE  Cardinality(Entries(v)) # MAX_BATCH
<1> DEFINE Taken == Rows \ {i}
           f == [r \in Entries(v) |-> slot_of(v, r)]
<1>1. i \in Rows /\ v.row[i].req = NO_REQUEST
    BY DEF FreeRows
<1>2. IsFiniteSet(Rows) /\ Cardinality(Rows) = MAX_BATCH
    <2>1. 0 \in Int /\ MAX_BATCH - 1 \in Int
        BY TheStreams
    <2> QED
        BY <2>1, FS_Interval, TheStreams DEF Rows
<1>3. IsFiniteSet(Taken) /\ Cardinality(Taken) = MAX_BATCH - 1
    BY <1>1, <1>2, FS_RemoveElement
<1>4. ASSUME NEW r \in Entries(v)
      PROVE  f[r] \in Taken /\ v.row[f[r]].req = r
    <2>1. r \in Streams /\ InRow(v, r)
        BY DEF Entries, Known
    <2>2. slot_of(v, r) \in Rows /\ v.row[slot_of(v, r)].req = r
        BY <2>1 DEF InRow, slot_of
    <2> QED
        BY <1>1, <2>1, <2>2, TheStreams
<1>5. f \in Injection(Entries(v), Taken)
    BY <1>4 DEF Injection, IsInjective
<1>6. Cardinality(Entries(v)) <= Cardinality(Taken) /\ IsFiniteSet(Entries(v))
    BY <1>3, <1>5, FS_Injection
<1>7. Cardinality(Entries(v)) \in Nat
    BY <1>6, FS_CardinalityType
<1> QED
    BY <1>3, <1>6, <1>7, TheStreams

\* A row is taken from its first token on, and the engine has just heard of it.
Seated(v, w, i, r) ==
    /\ w \in Books /\ ~w.err
    /\ w.row = [v.row EXCEPT ![i] = [req |-> r, n |-> 0, emitted |-> 0]]
    /\ w.eng = [v.eng EXCEPT ![r] = [st |-> "new", out |-> 0]]
    /\ w.queue = v.queue /\ w.serial = v.serial /\ w.ask = v.ask /\ w.upset = v.upset

LEMMA SubmitSeats ==
    ASSUME NEW v \in Books, Known(v), ~v.err, NEW i \in FreeRows(v), NEW r \in Streams,
           ~InRow(v, r)
    PROVE  Seated(v, Submit(v, i, r), i, r)
<1>1. r \notin Entries(v) /\ Cardinality(Entries(v)) # MAX_BATCH
    BY RoomInEngine DEF Known, Entries
<1>2. Submit(v, i, r) = [v EXCEPT !.eng[r] = [st |-> "new", out |-> 0],
                                  !.row[i] = [req |-> r, n |-> 0, emitted |-> 0]]
    BY <1>1 DEF Submit
<1>3. i \in Rows /\ r \in Requests
    BY TheStreams DEF FreeRows
<1> DEFINE p == [req |-> r, n |-> 0, emitted |-> 0]
           e == [st |-> "new", out |-> 0]
<1>4. p \in Places /\ e \in [st : States, out : Nat]
    BY <1>3 DEF Places, States
<1> DEFINE row == [v.row EXCEPT ![i] = p]
           eng == [v.eng EXCEPT ![r] = e]
<1>5. row \in [Rows -> Places] /\ eng \in [Streams -> [st : States, out : Nat]]
    BY <1>3, <1>4 DEF Books
<1>6. Submit(v, i, r) = [v EXCEPT !.eng = eng, !.row = row]
    BY <1>2
<1> HIDE DEF p, e, row, eng
<1>7. LET w == Submit(v, i, r)
      IN  /\ w \in Books /\ ~w.err /\ w.row = row /\ w.eng = eng
          /\ w.queue = v.queue /\ w.serial = v.serial /\ w.ask = v.ask /\ w.upset = v.upset
    BY <1>5, <1>6 DEF Books
<1> QED
    BY <1>7 DEF Seated, row, eng, p, e
-----------------------------------------------------------------------------
(* The queue and the rows *)

\* Places leave the queue, or are crossed out, and nothing else is touched.
Thinned(v, w) ==
    /\ w.row = v.row /\ w.eng = v.eng /\ w.serial = v.serial /\ w.ask = v.ask
    /\ w.upset = v.upset
    /\ Len(w.queue) <= Len(v.queue)
    /\ \E m \in [DOMAIN w.queue -> DOMAIN v.queue] :
         /\ \A k, l \in DOMAIN w.queue : m[k] = m[l] => k = l
         /\ \A k \in DOMAIN w.queue : w.queue[k] \in {v.queue[m[k]], NO_REQUEST}

LEMMA ThinnedKeeps ==
    ASSUME NEW v \in Books, NEW w \in Books, Sound(v), Thinned(v, w)
    PROVE  Sound(w) /\ \A s \in Streams : Kept(v, w, s)
<1>1. PICK m \in [DOMAIN w.queue -> DOMAIN v.queue] :
         /\ \A k, l \in DOMAIN w.queue : m[k] = m[l] => k = l
         /\ \A k \in DOMAIN w.queue : w.queue[k] \in {v.queue[m[k]], NO_REQUEST}
    BY DEF Thinned
<1>2. ASSUME NEW s, s # NO_REQUEST
      PROVE  /\ InRow(w, s) <=> InRow(v, s)
             /\ Waits(w, s) => Waits(v, s)
             /\ w.serial = v.serial
    BY <1>1, <1>2 DEF Thinned, InRow, Waits
<1>3. Len(w.queue) <= MAX_CONNS
    BY TheStreams DEF Thinned, Sound, Books
<1>4. \A k, l \in DOMAIN w.queue : w.queue[k] = w.queue[l] /\ w.queue[k] # NO_REQUEST => k = l
    BY <1>1 DEF Sound, OnePlace
<1>5. \A i \in Rows : \A k \in DOMAIN w.queue :
         w.queue[k] # NO_REQUEST => w.row[i].req # w.queue[k]
    BY <1>1 DEF Sound, OnePlace, Thinned
<1>6. OnePlace(w)
    BY <1>2, <1>4, <1>5 DEF Sound, OnePlace, Thinned
<1>7. Known(w)
    BY <1>2, TheStreams DEF Sound, Known, Thinned
<1>8. ASSUME NEW s \in Streams PROVE Kept(v, w, s)
    <2>1. /\ InRow(w, s) <=> InRow(v, s)
          /\ Waits(w, s) => Waits(v, s)
        BY <1>2, TheStreams
    <2>2. \A g \in Seq(Nat) : Matches(v, s, g) => Matches(w, s, g)
        BY <2>1 DEF Thinned, Matches, RowMatches, SerialMatches
    <2> QED
        BY <2>1, <2>2 DEF Kept, Held, Thinned
<1> QED
    BY <1>3, <1>6, <1>7, <1>8 DEF Sound

LEMMA TailIs ==
    ASSUME NEW q \in Seq(Requests), q # <<>>
    PROVE  /\ Tail(q) \in Seq(Requests) /\ Len(q) \in Nat \ {0} /\ Len(Tail(q)) = Len(q) - 1
           /\ Head(q) = q[1] /\ 1 \in DOMAIN q /\ Head(q) \in Requests
           /\ \A k \in DOMAIN Tail(q) : k + 1 \in DOMAIN q /\ Tail(q)[k] = q[k + 1]
OBVIOUS

\* The head of the queue goes.
LEMMA HeadGoes ==
    ASSUME NEW v \in Books, NEW w \in Books, Sound(v), v.queue # <<>>,
           w = [v EXCEPT !.queue = Tail(@)]
    PROVE  /\ Sound(w) /\ Thinned(v, w) /\ w.queue = Tail(v.queue) /\ w.err = v.err
           /\ Head(v.queue) # NO_REQUEST => ~Waits(w, Head(v.queue))
<1>1. v.queue \in Seq(Requests)
    BY DEF Books
<1>2. /\ w.row = v.row /\ w.eng = v.eng /\ w.serial = v.serial /\ w.ask = v.ask
      /\ w.upset = v.upset /\ w.queue = Tail(v.queue) /\ w.err = v.err
    BY DEF Books
<1> DEFINE m == [k \in DOMAIN w.queue |-> k + 1]
<1>3. /\ m \in [DOMAIN w.queue -> DOMAIN v.queue]
      /\ \A k \in DOMAIN w.queue : m[k] = k + 1 /\ w.queue[k] = v.queue[m[k]]
      /\ DOMAIN w.queue \subseteq Nat \ {0}
      /\ Len(w.queue) <= Len(v.queue)
    BY <1>1, <1>2, TailIs
<1> HIDE DEF m
<1>4. \A k, l \in DOMAIN w.queue : m[k] = m[l] => k = l
    BY <1>3
<1>5. Thinned(v, w)
    BY <1>2, <1>3, <1>4 DEF Thinned
<1>6. ASSUME Head(v.queue) # NO_REQUEST, NEW k \in DOMAIN w.queue, w.queue[k] = Head(v.queue)
      PROVE  FALSE
    <2>1. v.queue[m[k]] = v.queue[1] /\ 1 \in DOMAIN v.queue /\ m[k] \in DOMAIN v.queue /\ m[k] # 1
        BY <1>1, <1>3, <1>6, TailIs
    <2> QED
        BY <1>1, <1>6, <2>1, TailIs DEF Sound, OnePlace
<1> QED
    BY <1>2, <1>5, <1>6, ThinnedKeeps DEF Waits

\* A stream that is nowhere gets a row.
LEMMA SeatKeeps ==
    ASSUME NEW v \in Books, NEW w, Sound(v), NEW i \in FreeRows(v), NEW r \in Streams,
           ~Held(v, r), Seated(v, w, i, r)
    PROVE  /\ Sound(w) /\ Matches(w, r, <<>>) /\ InRow(w, r)
           /\ \A s \in Streams \ {r} : Kept(v, w, s)
<1>1. i \in Rows /\ v.row[i].req = NO_REQUEST /\ r # NO_REQUEST
    BY TheStreams DEF FreeRows
<1>2. /\ w.row[i].req = r /\ w.row[i].emitted = 0
      /\ \A j \in Rows : j # i => w.row[j] = v.row[j]
    BY <1>1 DEF Seated, Books
<1>3. /\ w.eng[r].st = "new" /\ w.eng[r].out = 0
      /\ \A s \in Streams \ {r} : w.eng[s] = v.eng[s]
    BY DEF Seated, Books
<1>4. /\ w.queue = v.queue /\ w.serial = v.serial /\ w.ask = v.ask /\ w.upset = v.upset
      /\ w \in Books
    BY DEF Seated
<1>5. /\ InRow(w, r)
      /\ \A s : s # r /\ s # NO_REQUEST => (InRow(w, s) <=> InRow(v, s))
    BY <1>1, <1>2 DEF InRow
<1>6. \A s : Waits(w, s) <=> Waits(v, s)
    BY <1>4 DEF Waits
<1>7. ~InRow(v, r) /\ ~Waits(v, r) /\ v.serial.req # r
    BY DEF Held
<1>8. OnePlace(w)
    <2>1. \A j, k \in Rows : w.row[j].req = w.row[k].req /\ w.row[j].req # NO_REQUEST => j = k
        BY <1>1, <1>2, <1>7 DEF Sound, OnePlace, InRow
    <2>2. \A j \in Rows : \A k \in DOMAIN w.queue :
            w.queue[k] # NO_REQUEST => w.row[j].req # w.queue[k]
        BY <1>1, <1>2, <1>4, <1>7 DEF Sound, OnePlace, Waits
    <2>3. w.serial.req # NO_REQUEST => ~InRow(w, w.serial.req) /\ ~Waits(w, w.serial.req)
        BY <1>4, <1>5, <1>6, <1>7 DEF Sound, OnePlace
    <2> QED
        BY <1>4, <2>1, <2>2, <2>3 DEF Sound, OnePlace
<1>9. Known(w)
    BY <1>3, <1>5, TheStreams DEF Sound, Known
<1>10. Matches(w, r, <<>>)
    <2>1. RowMatches(w, r, <<>>)
        <3>1. \A j \in Rows : w.row[j].req = r => j = i
            BY <1>2, <1>7 DEF InRow
        <3> QED
            BY <1>2, <1>3, <3>1 DEF RowMatches
    <2> QED
        BY <1>4, <1>6, <1>7, <2>1 DEF Matches, SerialMatches
<1>11. ASSUME NEW s \in Streams \ {r} PROVE Kept(v, w, s)
    <2>1. s # NO_REQUEST /\ (InRow(w, s) <=> InRow(v, s)) /\ (Waits(w, s) <=> Waits(v, s))
        BY <1>5, <1>6, TheStreams
    <2>2. ASSUME NEW g, RowMatches(v, s, g) PROVE RowMatches(w, s, g)
        BY <1>1, <1>2, <1>3, <2>2 DEF RowMatches
    <2> QED
        BY <1>4, <2>1, <2>2 DEF Kept, Held, Matches, SerialMatches
<1> QED
    BY <1>4, <1>5, <1>8, <1>9, <1>10, <1>11 DEF Sound
-----------------------------------------------------------------------------
(* Admission from the queue *)

LEMMA LeastOf ==
    ASSUME NEW S \in SUBSET Nat, S # {}
    PROVE  \E i \in S : \A j \in S : i <= j
<1>1. PICK i \in S : \A j \in S : ~ (<<j, i>> \in OpToRel(<, Nat))
    <2>1. IsWellFoundedOn(OpToRel(<, Nat), Nat)
        BY NatLessThanWellFounded
    <2> HIDE DEF OpToRel
    <2> QED
        BY <2>1, WFMin
<1>2. OpToRel(<, Nat) = {p \in Nat \X Nat : p[1] < p[2]}
    BY DEF OpToRel
<1>3. ASSUME NEW j \in S PROVE i <= j
    <2>1. ~ (<<j, i>> \in {p \in Nat \X Nat : p[1] < p[2]})
        BY <1>1, <1>2
    <2>2. j \in Nat /\ i \in Nat
        OBVIOUS
    <2>3. ~ (j < i)
        BY <2>1, <2>2
    <2> QED
        BY <2>2, <2>3
<1> QED
    BY <1>3

LEMMA SmallestFree ==
    ASSUME NEW v, FreeRows(v) # {}
    PROVE  Smallest(FreeRows(v)) \in FreeRows(v)
<1>1. FreeRows(v) \in SUBSET Nat
    BY TheStreams DEF FreeRows, Rows
<1>2. \E i \in FreeRows(v) : \A j \in FreeRows(v) : i <= j
    BY <1>1, LeastOf
<1> QED
    BY <1>2 DEF Smallest

Stuck(v) == v.queue # <<>> /\ Head(v.queue) # NO_REQUEST /\ FreeRows(v) = {}

\* One turn of the loop of _admit; it never fails, for a row in the table
\* means room in the engine.
LEMMA OneTurn ==
    ASSUME NEW v \in Books, Sound(v), ~v.err
    PROVE  LET w == AdmitOne(v)
           IN  /\ w \in Books /\ Sound(w) /\ ~w.err
               /\ \A s \in Streams : Kept(v, w, s)
               /\ IF v.queue = <<>> \/ Stuck(v) THEN w = v ELSE Len(w.queue) = Len(v.queue) - 1
<1> DEFINE w == AdmitOne(v)
           u == [v EXCEPT !.queue = Tail(@)]
<1>1. CASE v.queue = <<>> \/ Stuck(v)
    <2>1. w = v
        BY <1>1 DEF AdmitOne, Stuck
    <2> QED
        BY <1>1, <2>1 DEF Kept
<1>2. CASE v.queue # <<>> /\ ~Stuck(v)
    <2>1. /\ Tail(v.queue) \in Seq(Requests) /\ Len(Tail(v.queue)) = Len(v.queue) - 1
          /\ Head(v.queue) \in Requests /\ 1 \in DOMAIN v.queue /\ Head(v.queue) = v.queue[1]
        <3>1. v.queue \in Seq(Requests)
            BY DEF Books
        <3> QED
            BY <1>2, <3>1, TailIs
    <2>2. u \in Books /\ u.queue = Tail(v.queue) /\ u.row = v.row
        BY <2>1 DEF Books
    <2>3. /\ Sound(u) /\ Thinned(v, u) /\ ~u.err
          /\ Head(v.queue) # NO_REQUEST => ~Waits(u, Head(v.queue))
        BY <1>2, <2>2, HeadGoes
    <2>4. \A s \in Streams : Kept(v, u, s)
        BY <2>2, <2>3, ThinnedKeeps
    <2>5. CASE Head(v.queue) = NO_REQUEST
        <3>1. w = u
            BY <1>2, <2>5 DEF AdmitOne
        <3> QED
            BY <1>2, <2>1, <2>2, <2>3, <2>4, <3>1
    <2>6. CASE Head(v.queue) # NO_REQUEST
        <3> DEFINE r == Head(v.queue)
                   i == Smallest(FreeRows(v))
                   x == Submit(v, i, r)
        <3>1. r \in Streams
            BY <2>1, <2>6, TheStreams
        <3>2. FreeRows(v) # {} /\ i \in FreeRows(v)
            BY <1>2, <2>6, SmallestFree DEF Stuck
        <3>3. Waits(v, r) /\ ~InRow(v, r) /\ v.serial.req # r
            BY <2>1, <2>6 DEF Sound, OnePlace, InRow, Waits
        <3> HIDE DEF i
        <3>4. Seated(v, x, i, r)
            BY <3>1, <3>2, <3>3, SubmitSeats DEF Sound
        <3>5. w = [x EXCEPT !.queue = Tail(@)]
            BY <1>2, <2>6, <3>2, <3>4 DEF AdmitOne, AdmitHead, Seated, i
        <3> HIDE DEF x, r, u
        <3>6. /\ w \in Books /\ w.queue = Tail(v.queue) /\ w.row = x.row /\ w.eng = x.eng
              /\ w.serial = x.serial /\ w.ask = x.ask /\ w.upset = x.upset /\ ~w.err
            <4>1. x \in Books /\ x.queue = v.queue /\ ~x.err
                BY <3>4 DEF Seated
            <4>2. w = [x EXCEPT !.queue = Tail(v.queue)]
                BY <3>5, <4>1
            <4> HIDE DEF w
            <4> QED
                BY <2>1, <4>1, <4>2 DEF Books
        <3>7. Seated(u, w, i, r)
            <4>1. u.row = v.row /\ u.eng = v.eng /\ u.serial = v.serial /\ u.ask = v.ask /\ u.upset = v.upset
                BY <2>3 DEF Thinned
            <4> QED
                BY <2>2, <3>4, <3>6, <4>1 DEF Seated
        <3>8. ~Held(u, r) /\ i \in FreeRows(u)
            <4>1. u.row = v.row /\ u.serial = v.serial
                BY <2>3 DEF Thinned
            <4> QED
                BY <2>3, <2>6, <3>2, <3>3, <4>1 DEF Held, InRow, FreeRows, r
        <3>9. /\ Sound(w) /\ Matches(w, r, <<>>) /\ InRow(w, r)
              /\ \A s \in Streams \ {r} : Kept(u, w, s)
            BY <2>2, <2>3, <3>1, <3>7, <3>8, SeatKeeps
        <3>10. Kept(v, w, r)
            <4>1. w.upset = v.upset
                BY <3>4, <3>6 DEF Seated
            <4>2. ASSUME NEW g \in Seq(Nat), Matches(v, r, g) PROVE Matches(w, r, g)
                <5>1. r \in v.upset \/ g = <<>>
                    BY <3>3, <4>2 DEF Matches
                <5> QED
                    BY <3>9, <4>1, <5>1 DEF Matches
            <4> QED
                BY <3>3, <3>9, <4>1, <4>2 DEF Kept, Held
        <3>11. \A s \in Streams : Kept(v, w, s)
            BY <2>4, <3>9, <3>10, KeptTwice
        <3>12. w \in Books /\ Sound(w) /\ ~w.err /\ Len(w.queue) = Len(v.queue) - 1
            BY <2>1, <3>6, <3>9
        <3> QED
            BY <1>2, <3>11, <3>12
    <2> QED
        BY <2>5, <2>6
<1> QED
    BY <1>1, <1>2

\* What holds at 0 and goes from m to m + 1 holds up to n.
LEMMA UpTo ==
    ASSUME NEW n \in Nat, NEW S, 0 \in S, \A m \in 0 .. n - 1 : m \in S => m + 1 \in S
    PROVE  \A m \in 0 .. n : m \in S
<1> DEFINE Bad == {m \in 0 .. n : m \notin S}
<1> SUFFICES ASSUME Bad # {} PROVE FALSE
    OBVIOUS
<1>1. Bad \in SUBSET Nat
    OBVIOUS
<1>2. PICK m \in Bad : \A y \in Bad : m <= y
    <2> HIDE DEF Bad
    <2> QED
        BY <1>1, LeastOf
<1>3. m \in 0 .. n /\ m \notin S /\ m # 0
    OBVIOUS
<1>4. m - 1 \in Bad
    BY <1>3
<1> QED
    BY <1>2, <1>3, <1>4

LEMMA TurnsExist ==
    ASSUME NEW v, NEW n \in Nat
    PROVE  \E f : f = [k \in 0 .. n |-> IF k = 0 THEN v ELSE AdmitOne(f[k - 1])]
<1> DEFINE Turns(f, m) == f = [k \in 0 .. m |-> IF k = 0 THEN v ELSE AdmitOne(f[k - 1])]
           S == {m \in 0 .. n : \E f : Turns(f, m)}
<1>1. 0 \in S
    <2> DEFINE g == [k \in 0 .. 0 |-> v]
    <2>1. \A k \in 0 .. 0 : k = 0
        OBVIOUS
    <2>2. Turns(g, 0)
        BY <2>1
    <2>3. \E f : Turns(f, 0)
        BY <2>2
    <2> QED
        BY <2>3
<1>2. ASSUME NEW m \in 0 .. n - 1, m \in S
      PROVE  m + 1 \in S
    <2>1. PICK f : Turns(f, m)
        BY <1>2
    <2> DEFINE g == [k \in 0 .. m + 1 |-> IF k <= m THEN f[k] ELSE AdmitOne(f[m])]
    <2>2. ASSUME NEW k \in 0 .. m + 1
          PROVE  g[k] = IF k = 0 THEN v ELSE AdmitOne(g[k - 1])
        <3>1. CASE k = m + 1
            <4>1. k # 0 /\ ~(k <= m) /\ k - 1 = m /\ m \in 0 .. m + 1 /\ m <= m
                BY <3>1
            <4>2. g[m] = f[m]
                BY <4>1
            <4> QED
                BY <4>1, <4>2
        <3>2. CASE k # m + 1
            <4>1. k <= m /\ k \in 0 .. m
                BY <3>2
            <4>2. k # 0 => k - 1 <= m /\ k - 1 \in 0 .. m + 1
                BY <4>1
            <4>3. f[k] = IF k = 0 THEN v ELSE AdmitOne(f[k - 1])
                BY <2>1, <4>1
            <4>4. k # 0 => g[k - 1] = f[k - 1]
                BY <4>2
            <4> QED
                BY <4>1, <4>3, <4>4
        <3> QED
            BY <3>1, <3>2
    <2>3. Turns(g, m + 1)
        BY <2>2
    <2>4. m + 1 \in 0 .. n
        OBVIOUS
    <2> QED
        BY <2>3, <2>4
<1>3. \A m \in 0 .. n : m \in S
    <2> HIDE DEF S
    <2> QED
        BY <1>1, <1>2, UpTo
<1> QED
    BY <1>3

LEMMA AdmittedKeeps ==
    ASSUME NEW v \in Books, Sound(v), ~v.err
    PROVE  LET w == Admitted(v)
           IN  /\ w \in Books /\ Sound(w) /\ ~w.err /\ InTurn(w)
               /\ \A s \in Streams : Kept(v, w, s)
<1> DEFINE n == Len(v.queue)
<1>1. n \in Nat
    BY DEF Books
<1>2. PICK f : /\ f = [k \in 0 .. n |-> IF k = 0 THEN v ELSE AdmitOne(f[k - 1])]
               /\ Admitted(v) = f[n]
    BY <1>1, TurnsExist DEF Admitted
<1> HIDE DEF n
<1> DEFINE Good(k) == /\ f[k] \in Books /\ Sound(f[k]) /\ ~f[k].err
                      /\ \A s \in Streams : Kept(v, f[k], s)
                      /\ f[k].queue = <<>> \/ Stuck(f[k]) \/ Len(f[k].queue) + k <= n
           S == {k \in 0 .. n : Good(k)}
<1>3. 0 \in S
    <2>1. f[0] = v
        BY <1>1, <1>2
    <2> QED
        BY <1>1, <2>1 DEF Kept, n
<1>4. ASSUME NEW k \in 0 .. n - 1, k \in S
      PROVE  k + 1 \in S
    <2>1. k \in Nat /\ k + 1 \in 0 .. n /\ k \in 0 .. n
        BY <1>1
    <2>2. f[k + 1] = AdmitOne(f[k])
        BY <1>2, <2>1
    <2>3. Good(k)
        BY <1>4
    <2>4. /\ f[k + 1] \in Books /\ Sound(f[k + 1]) /\ ~f[k + 1].err
          /\ \A s \in Streams : Kept(f[k], f[k + 1], s)
          /\ IF f[k].queue = <<>> \/ Stuck(f[k]) THEN f[k + 1] = f[k]
             ELSE Len(f[k + 1].queue) = Len(f[k].queue) - 1
        BY <2>2, <2>3, OneTurn
    <2>5. \A s \in Streams : Kept(v, f[k + 1], s)
        BY <2>3, <2>4, KeptTwice
    <2>6. f[k + 1].queue = <<>> \/ Stuck(f[k + 1]) \/ Len(f[k + 1].queue) + (k + 1) <= n
        <3>1. Len(f[k].queue) \in Nat
            BY <2>3 DEF Books
        <3>2. CASE f[k].queue = <<>> \/ Stuck(f[k])
            BY <2>4, <3>2
        <3>3. CASE ~(f[k].queue = <<>> \/ Stuck(f[k]))
            <4>1. Len(f[k].queue) + k <= n /\ Len(f[k + 1].queue) = Len(f[k].queue) - 1
                BY <2>3, <2>4, <3>3
            <4>2. \A a \in Nat : \A b : a + k <= n /\ b = a - 1 => b + (k + 1) <= n
                BY <1>1, <2>1
            <4>3. Len(f[k + 1].queue) + (k + 1) <= n
                <5> HIDE DEF Good, S
                <5> QED
                    BY <3>1, <4>1, <4>2
            <4> QED
                BY <4>3
        <3> QED
            BY <3>2, <3>3
    <2> QED
        BY <2>1, <2>4, <2>5, <2>6
<1>5. Good(n)
    <2>1. \A k \in 0 .. n : k \in S
        <3> HIDE DEF S
        <3> QED
            BY <1>1, <1>3, <1>4, UpTo
    <2> QED
        BY <1>1, <2>1
<1>6. InTurn(f[n])
    <2>1. f[n].queue \in Seq(Requests)
        BY <1>5 DEF Books
    <2>2. f[n].queue = <<>> \/ Stuck(f[n])
        BY <1>1, <1>5, <2>1
    <2> QED
        BY <2>1, <2>2 DEF Stuck, InTurn
<1> QED
    BY <1>2, <1>5, <1>6

LEMMA AdmitsKeeps ==
    ASSUME NEW v \in Books, Sound(v), ~v.err, NEW w \in Admits(v)
    PROVE  /\ w \in Books /\ Sound(w) /\ ~w.err /\ InTurn(w)
           /\ \A s \in Streams : Kept(v, w, s)
<1>1. ~Admitted(v).err
    BY AdmittedKeeps
<1>2. w = Admitted(v)
    BY <1>1 DEF Admits
<1> QED
    BY <1>2, AdmittedKeeps
-----------------------------------------------------------------------------
(* The calls of the service *)

LEMMA SameTables ==
    ASSUME NEW v \in Books, NEW w \in Books, w.row = v.row, w.queue = v.queue, w.eng = v.eng,
           w.serial.req \in {v.serial.req, NO_REQUEST}
    PROVE  /\ Sound(v) => Sound(w)
           /\ InTurn(v) => InTurn(w)
           /\ \A s : InRow(w, s) <=> InRow(v, s)
           /\ \A s : Waits(w, s) <=> Waits(v, s)
           /\ \A s \in Streams : Held(w, s) => Held(v, s)
<1>1. \A s : (InRow(w, s) <=> InRow(v, s)) /\ (Waits(w, s) <=> Waits(v, s))
    BY DEF InRow, Waits
<1>2. OnePlace(v) => OnePlace(w)
    BY <1>1 DEF OnePlace
<1>3. Known(v) => Known(w)
    BY <1>1 DEF Known
<1> QED
    BY <1>1, <1>2, <1>3, TheStreams DEF Sound, InTurn, FreeRows, Held

\* Whatever a call made of the others' asks, upsets and of the error.
LEMMA SameOthers ==
    ASSUME NEW v \in Books, NEW w \in Books, w.row = v.row, w.queue = v.queue, w.eng = v.eng,
           NEW s \in Streams, w.ask[s] = v.ask[s], s \in v.upset => s \in w.upset,
           w.serial = v.serial \/ w.serial.req # s \/ s \in w.upset,
           w.serial.req \in {v.serial.req, NO_REQUEST}
    PROVE  Kept(v, w, s)
<1>1. /\ InRow(w, s) <=> InRow(v, s)
      /\ Waits(w, s) <=> Waits(v, s)
      /\ Held(w, s) => Held(v, s)
    BY SameTables
<1>2. ASSUME NEW g \in Seq(Nat), Matches(v, s, g), s \notin w.upset
      PROVE  RowMatches(w, s, g) /\ (Waits(w, s) => g = <<>>) /\ SerialMatches(w, s, g)
    BY <1>1, <1>2 DEF Matches, RowMatches, SerialMatches
<1> QED
    BY <1>1, <1>2 DEF Kept, Matches

LEMMA Caught ==
    ASSUME NEW v \in Books
    PROVE  /\ Keep(v) \in Books /\ ~Keep(v).err
           /\ Sound(v) => Sound(Keep(v))
           /\ InTurn(v) => InTurn(Keep(v))
           /\ \A s : InRow(Keep(v), s) <=> InRow(v, s)
           /\ \A s \in Streams : Held(Keep(v), s) => Held(v, s)
           /\ \A s \in Streams : Kept(v, Keep(v), s)
<1> DEFINE w == Keep(v)
<1>1. /\ w \in Books /\ ~w.err /\ w.row = v.row /\ w.queue = v.queue /\ w.eng = v.eng
      /\ w.serial = v.serial /\ w.ask = v.ask /\ w.upset = v.upset
    BY DEF Keep, Books
<1> HIDE DEF w
<1>2. \A s \in Streams : Kept(v, w, s)
    BY <1>1, SameOthers
<1>3. /\ Sound(v) => Sound(w)
      /\ InTurn(v) => InTurn(w)
      /\ \A s : InRow(w, s) <=> InRow(v, s)
      /\ \A s \in Streams : Held(w, s) => Held(v, s)
    BY <1>1, SameTables
<1> QED
    BY <1>1, <1>2, <1>3 DEF w

\* A row goes back, and with it what the engine had of its stream.
LEMMA ReleaseKeeps ==
    ASSUME NEW v \in Books, Sound(v), NEW r \in Streams, InRow(v, r)
    PROVE  LET w == Released(v, r)
           IN  /\ w \in Books /\ Sound(w) /\ w.err = v.err /\ ~Held(w, r)
               /\ \A s \in Streams \ {r} : Kept(v, w, s)
<1> DEFINE i == slot_of(v, r)
           row == [v.row EXCEPT ![i] = NoRow]
           eng == [v.eng EXCEPT ![r] = NoEntry]
           w == Released(v, r)
<1>1. i \in Rows /\ v.row[i].req = r
    BY DEF InRow, slot_of
<1> HIDE DEF i
<1>2. NoRow \in Places /\ NoEntry \in [st : States, out : Nat] /\ r # NO_REQUEST
    BY TheStreams DEF NoRow, NoEntry, Places, States
<1>3. row \in [Rows -> Places] /\ eng \in [Streams -> [st : States, out : Nat]]
    BY <1>1, <1>2 DEF Books
<1>4. /\ row[i] = NoRow /\ eng[r] = NoEntry
      /\ \A j \in Rows \ {i} : row[j] = v.row[j]
      /\ \A s \in Streams \ {r} : eng[s] = v.eng[s]
    BY <1>1 DEF Books
<1>5. w = [v EXCEPT !.eng = eng, !.row = row]
    BY DEF Released, i
<1> HIDE DEF w, row, eng
<1>6. /\ w \in Books /\ w.row = row /\ w.eng = eng /\ w.queue = v.queue /\ w.serial = v.serial
      /\ w.ask = v.ask /\ w.upset = v.upset /\ w.err = v.err
    BY <1>3, <1>5 DEF Books
<1>7. ~InRow(w, r)
    BY <1>1, <1>2, <1>4, <1>6 DEF Sound, OnePlace, InRow, NoRow
<1>8. \A s : s # r /\ s # NO_REQUEST => (InRow(w, s) <=> InRow(v, s))
    BY <1>1, <1>4, <1>6 DEF InRow, NoRow
<1>9. \A s : Waits(w, s) <=> Waits(v, s)
    BY <1>6 DEF Waits
<1>10. ~Waits(v, r) /\ v.serial.req # r
    BY <1>1, <1>2 DEF Sound, OnePlace, Waits, InRow
<1>11. ~Held(w, r)
    BY <1>6, <1>7, <1>9, <1>10 DEF Held
<1>12. OnePlace(w)
    <2>1. \A j, k \in Rows : w.row[j].req = w.row[k].req /\ w.row[j].req # NO_REQUEST => j = k
        BY <1>4, <1>6 DEF Sound, OnePlace, NoRow
    <2>2. \A j \in Rows : \A k \in DOMAIN w.queue :
            w.queue[k] # NO_REQUEST => w.row[j].req # w.queue[k]
        BY <1>4, <1>6 DEF Sound, OnePlace, NoRow
    <2>3. w.serial.req # NO_REQUEST => ~InRow(w, w.serial.req) /\ ~Waits(w, w.serial.req)
        BY <1>6, <1>8, <1>9, <1>10 DEF Sound, OnePlace
    <2> QED
        BY <1>6, <2>1, <2>2, <2>3 DEF Sound, OnePlace
<1>13. Known(w)
    BY <1>4, <1>6, <1>8, TheStreams DEF Sound, Known, NoEntry
<1>14. ASSUME NEW s \in Streams \ {r} PROVE Kept(v, w, s)
    <2>1. s # NO_REQUEST /\ (InRow(w, s) <=> InRow(v, s)) /\ (Waits(w, s) <=> Waits(v, s))
        BY <1>8, <1>9, TheStreams
    <2>2. ASSUME NEW g, RowMatches(v, s, g) PROVE RowMatches(w, s, g)
        <3>1. ASSUME NEW j \in Rows, w.row[j].req = s
              PROVE  w.row[j] = v.row[j]
            BY <1>4, <1>6, <2>1, <3>1 DEF NoRow
        <3> QED
            BY <1>4, <1>6, <2>2, <3>1 DEF RowMatches
    <2> QED
        BY <1>6, <2>1, <2>2 DEF Kept, Held, Matches, SerialMatches
<1> QED
    BY <1>6, <1>11, <1>12, <1>13, <1>14 DEF Sound, w

\* What stream_end comes to: r is gone, unless a tick raised - and then
\* everything is as it was for it.
LEMMA EndKeeps ==
    ASSUME NEW v \in Books, Sound(v), InTurn(v), ~v.err, NEW r \in Streams,
           NEW w \in stream_end(v, r)
    PROVE  /\ w \in Books /\ Sound(w) /\ InTurn(w)
           /\ \A s \in Streams \ {r} : Kept(v, w, s)
           /\ IF w.err THEN Kept(v, w, r) ELSE ~Held(w, r)
<1>1. r # NO_REQUEST
    BY TheStreams
<1>2. CASE InRow(v, r)
    <2>1. PICK x : /\ x = v \/ x \in Ticks([v EXCEPT !.cancels = @ \cup {r}])
                   /\ IF x.err THEN w = x ELSE w \in Admits(Released(x, r))
        BY <1>2 DEF stream_end
    <2>2. /\ x \in Books /\ Sound(x) /\ InTurn(x)
          /\ \A s \in Streams : Kept(v, x, s)
        <3>1. CASE x = v
            BY <3>1 DEF Kept
        <3>2. CASE x \in Ticks([v EXCEPT !.cancels = @ \cup {r}])
            <4> DEFINE u == [v EXCEPT !.cancels = @ \cup {r}]
            <4>1. /\ u \in Books /\ u.row = v.row /\ u.queue = v.queue /\ u.eng = v.eng
                  /\ u.serial = v.serial /\ u.ask = v.ask /\ u.upset = v.upset
                BY DEF Books
            <4>2. x \in Ticks(u)
                BY <3>2
            <4> HIDE DEF u
            <4>3. Sound(u) /\ InTurn(u) /\ \A s \in Streams : Kept(v, u, s)
                BY <4>1, SameTables, SameOthers
            <4>4. x \in Books /\ Ticked(u, x)
                BY <4>1, <4>2, TicksTicked
            <4>5. Sound(x) /\ InTurn(x) /\ \A s \in Streams : Kept(u, x, s)
                BY <4>1, <4>3, <4>4, TickedKeeps
            <4> QED
                BY <4>3, <4>4, <4>5, KeptTwice
        <3> QED
            BY <2>1, <3>1, <3>2
    <2>3. CASE x.err
        BY <2>1, <2>2, <2>3
    <2>4. CASE ~x.err
        <3> DEFINE y == Released(x, r)
        <3>1. InRow(x, r)
            BY <1>2, <2>2 DEF Kept
        <3>2. /\ y \in Books /\ Sound(y) /\ ~y.err /\ ~Held(y, r)
              /\ \A s \in Streams \ {r} : Kept(x, y, s)
            BY <2>2, <2>4, <3>1, ReleaseKeeps
        <3>3. w \in Admits(y)
            BY <2>1, <2>4
        <3> HIDE DEF y
        <3>4. /\ w \in Books /\ Sound(w) /\ ~w.err /\ InTurn(w)
              /\ \A s \in Streams : Kept(y, w, s)
            BY <3>2, <3>3, AdmitsKeeps
        <3>5. ~Held(w, r)
            BY <3>2, <3>4 DEF Kept
        <3> QED
            BY <2>2, <3>2, <3>4, <3>5, KeptTwice
    <2> QED
        BY <2>3, <2>4
<1>3. CASE ~InRow(v, r) /\ Waits(v, r)
    <2> DEFINE q == [k \in DOMAIN v.queue |-> IF v.queue[k] = r THEN NO_REQUEST ELSE v.queue[k]]
               y == [v EXCEPT !.queue = q]
    <2>1. q \in Seq(Requests) /\ Len(q) = Len(v.queue) /\ DOMAIN q = DOMAIN v.queue
        <3>1. v.queue \in Seq(Requests) /\ NO_REQUEST \in Requests
            BY TheStreams DEF Books
        <3> QED
            BY <3>1
    <2>2. \A k \in DOMAIN q : q[k] \in {v.queue[k], NO_REQUEST} /\ q[k] # r
        BY <1>1
    <2>3. w \in Admits(y)
        BY <1>3 DEF stream_end
    <2> HIDE DEF q
    <2>4. /\ y \in Books /\ y.row = v.row /\ y.eng = v.eng /\ y.serial = v.serial
          /\ y.ask = v.ask /\ y.upset = v.upset /\ y.queue = q /\ ~y.err
        BY <2>1 DEF Books
    <2> HIDE DEF y
    <2>5. Thinned(v, y)
        <3> DEFINE m == [k \in DOMAIN q |-> k]
        <3>1. m \in [DOMAIN y.queue -> DOMAIN v.queue]
            BY <2>1, <2>4
        <3>2. Len(y.queue) <= Len(v.queue)
            BY <2>1, <2>4 DEF Books
        <3> QED
            BY <2>2, <2>4, <3>1, <3>2 DEF Thinned
    <2>6. Sound(y) /\ \A s \in Streams : Kept(v, y, s)
        BY <2>4, <2>5, ThinnedKeeps
    <2>7. ~Held(y, r)
        <3>1. v.serial.req # r
            BY <1>1, <1>3 DEF Sound, OnePlace
        <3> QED
            BY <1>3, <2>2, <2>4, <3>1 DEF Held, InRow, Waits
    <2>8. /\ w \in Books /\ Sound(w) /\ ~w.err /\ InTurn(w)
          /\ \A s \in Streams : Kept(y, w, s)
        BY <2>3, <2>4, <2>6, AdmitsKeeps
    <2>9. ~Held(w, r)
        BY <2>7, <2>8 DEF Kept
    <2> QED
        BY <2>6, <2>8, <2>9, KeptTwice
<1>4. CASE ~InRow(v, r) /\ ~Waits(v, r) /\ v.serial.req = r
    <2>1. w = [v EXCEPT !.serial = NoSerial]
        BY <1>4 DEF stream_end
    <2>2. NoSerial \in Serials /\ NoSerial.req = NO_REQUEST
        BY TheStreams DEF NoSerial, Serials
    <2>3. /\ w \in Books /\ w.row = v.row /\ w.queue = v.queue /\ w.eng = v.eng /\ ~w.err
          /\ w.serial = NoSerial /\ w.ask = v.ask /\ w.upset = v.upset
        BY <2>1, <2>2 DEF Books
    <2>4. /\ Sound(w) /\ InTurn(w)
          /\ \A s \in Streams \ {r} : Kept(v, w, s)
        <3>1. \A s \in Streams : w.serial.req # s
            BY <2>2, <2>3, TheStreams
        <3> QED
            BY <2>2, <2>3, <3>1, SameTables, SameOthers
    <2>5. ~Held(w, r)
        BY <1>1, <1>4, <2>2, <2>3 DEF Held, InRow, Waits
    <2> QED
        BY <2>3, <2>4, <2>5
<1>5. CASE ~Held(v, r)
    <2>1. w = v
        BY <1>5 DEF stream_end, Held
    <2> QED
        BY <1>5, <2>1 DEF Kept
<1> QED
    BY <1>2, <1>3, <1>4, <1>5 DEF Held

LEMMA TheAsks ==
    ASSUME NEW r \in Streams, NEW q \in Asks[r] \cup {NoAsk}
    PROVE  q \in [steps : Nat, fits : BOOLEAN, temp : Nat]
<1>1. CASE q = NoAsk
    BY <1>1 DEF NoAsk
<1>2. CASE q \in Asks[r]
    <2>1. q \in [steps : Nat \ {0}, fits : BOOLEAN, temp : Nat]
        BY <1>2, ServiceAssumption DEF Streams
    <2> QED
        BY <2>1
<1> QED
    BY <1>1, <1>2

\* What stream_begin comes to for a stream that is nowhere: a place from which
\* its answer starts, or none.
LEMMA BeginKeeps ==
    ASSUME NEW v \in Books, Sound(v), InTurn(v), ~v.err, NEW r \in Streams, ~Held(v, r),
           NEW q \in Asks[r] \cup {NoAsk}
    PROVE  LET w == stream_begin(v, r, q)
           IN  /\ w \in Books /\ Sound(w) /\ InTurn(w)
               /\ \A s \in Streams \ {r} : Kept(v, w, s)
               /\ IF w.err THEN ~Held(w, r) ELSE Matches(w, r, <<>>)
<1> DEFINE w == stream_begin(v, r, q)
           alone == [v EXCEPT !.ask[r] = q, !.upset = @ \ {r}, !.serial = NoSerial]
<1>1. /\ NoSerial \in Serials /\ NoSerial.req = NO_REQUEST /\ r # NO_REQUEST
      /\ q \in [steps : Nat, fits : BOOLEAN, temp : Nat]
    BY TheStreams, TheAsks DEF NoSerial, Serials
<1>2. /\ alone \in Books /\ alone.row = v.row /\ alone.queue = v.queue /\ alone.eng = v.eng
      /\ alone.serial = NoSerial /\ ~alone.err
      /\ alone.ask = [v.ask EXCEPT ![r] = q] /\ alone.upset = v.upset \ {r}
    <2> DEFINE ask == [v.ask EXCEPT ![r] = q]
    <2>1. ask \in [Streams -> [steps : Nat, fits : BOOLEAN, temp : Nat]]
        BY <1>1 DEF Books
    <2>2. alone = [v EXCEPT !.ask = ask, !.upset = v.upset \ {r}, !.serial = NoSerial]
        OBVIOUS
    <2> HIDE DEF ask, alone
    <2>3. /\ alone \in Books /\ alone.row = v.row /\ alone.queue = v.queue /\ alone.eng = v.eng
          /\ alone.serial = NoSerial /\ ~alone.err /\ alone.ask = ask /\ alone.upset = v.upset \ {r}
        BY <1>1, <2>1, <2>2 DEF Books
    <2> QED
        BY <2>3 DEF ask
<1>3. /\ alone.ask[r] = q
      /\ \A s \in Streams \ {r} : alone.ask[s] = v.ask[s] /\ (s \in v.upset => s \in alone.upset)
    BY <1>2 DEF Books
<1>4. w = IF q = NoAsk THEN Raise(alone)
          ELSE IF q.fits /\ FreeRows(v) # {} THEN Submit(alone, Smallest(FreeRows(v)), r)
          ELSE IF q.fits /\ Len(v.queue) < MAX_CONNS
          THEN [alone EXCEPT !.queue = Append(@, r)]
          ELSE [alone EXCEPT !.serial = [NoSerial EXCEPT !.req = r, !.temp = q.temp]]
    <2>1. v.serial.req # r
        BY DEF Held
    <2>2. alone = [v EXCEPT !.ask[r] = q, !.upset = @ \ {r},
                            !.serial = IF v.serial.req = r THEN @ ELSE NoSerial]
        BY <2>1
    <2> HIDE DEF alone
    <2> QED
        BY <2>2 DEF stream_begin
<1> HIDE DEF alone, w
<1>5. /\ Sound(alone) /\ InTurn(alone) /\ ~Held(alone, r)
      /\ FreeRows(alone) = FreeRows(v)
      /\ \A s \in Streams \ {r} : Kept(v, alone, s)
    <2>1. \A s \in Streams : alone.serial.req # s
        BY <1>1, <1>2, TheStreams
    <2>2. \A s \in Streams \ {r} : Kept(v, alone, s)
        BY <1>1, <1>2, <1>3, <2>1, SameOthers
    <2>3. Sound(alone) /\ InTurn(alone) /\ ~Held(alone, r)
        BY <1>1, <1>2, SameTables
    <2> QED
        BY <1>2, <2>2, <2>3 DEF FreeRows
<1>6. CASE q = NoAsk
    <2>1. w = [alone EXCEPT !.err = TRUE]
        BY <1>4, <1>6 DEF Raise
    <2>2. /\ w \in Books /\ w.row = alone.row /\ w.queue = alone.queue /\ w.eng = alone.eng
          /\ w.serial = alone.serial /\ w.ask = alone.ask /\ w.upset = alone.upset /\ w.err
        BY <1>2, <2>1 DEF Books
    <2>3. /\ Sound(w) /\ InTurn(w) /\ ~Held(w, r)
          /\ \A s \in Streams : Kept(alone, w, s)
        BY <1>2, <1>5, <2>2, SameTables, SameOthers
    <2> QED
        BY <1>5, <2>2, <2>3, KeptTwice DEF w
<1>7. CASE q # NoAsk /\ q.fits /\ FreeRows(v) # {}
    <2> DEFINE i == Smallest(FreeRows(v))
    <2>1. i \in FreeRows(alone)
        BY <1>5, <1>7, SmallestFree
    <2>2. w = Submit(alone, i, r)
        BY <1>4, <1>7
    <2> HIDE DEF i
    <2>3. Seated(alone, w, i, r)
        BY <1>2, <1>5, <2>1, <2>2, SubmitSeats DEF Sound, Held
    <2>4. /\ Sound(w) /\ Matches(w, r, <<>>)
          /\ \A s \in Streams \ {r} : Kept(alone, w, s)
        BY <1>2, <1>5, <2>1, <2>3, SeatKeeps
    <2>5. InTurn(w)
        BY <1>5, <1>7, <2>3 DEF InTurn, Seated
    <2> QED
        BY <1>5, <2>3, <2>4, <2>5, KeptTwice DEF Seated, w
<1>8. CASE q # NoAsk /\ FreeRows(v) = {} /\ Len(v.queue) < MAX_CONNS
           /\ w = [alone EXCEPT !.queue = Append(@, r)]
    <2> DEFINE p == Append(v.queue, r)
    <2>1. v.queue \in Seq(Requests) /\ r \in Requests
        BY TheStreams DEF Books
    <2>2. /\ p \in Seq(Requests) /\ Len(p) = Len(v.queue) + 1
          /\ DOMAIN p = DOMAIN v.queue \cup {Len(v.queue) + 1}
          /\ Len(v.queue) + 1 \notin DOMAIN v.queue
          /\ p[Len(v.queue) + 1] = r /\ \A k \in DOMAIN v.queue : p[k] = v.queue[k]
        BY <2>1
    <2>3. w = [alone EXCEPT !.queue = p]
        BY <1>2, <1>8
    <2> HIDE DEF p
    <2>4. /\ w \in Books /\ w.row = alone.row /\ w.queue = p /\ w.eng = alone.eng
          /\ w.serial = NoSerial /\ w.ask = alone.ask /\ w.upset = alone.upset /\ ~w.err
        BY <1>2, <2>2, <2>3 DEF Books
    <2>5. \A s : InRow(w, s) <=> InRow(v, s)
        BY <1>2, <2>4 DEF InRow
    <2>6. \A s : s # r => (Waits(w, s) <=> Waits(v, s))
        BY <1>2, <2>2, <2>4 DEF Waits
    <2>7. ~InRow(v, r) /\ ~Waits(v, r)
        BY DEF Held
    <2>8. OnePlace(w)
        <3>1. \A k, l \in DOMAIN p : p[k] = p[l] /\ p[k] # NO_REQUEST => k = l
            BY <2>2, <2>7 DEF Sound, OnePlace, Waits
        <3>2. \A j \in Rows : \A k \in DOMAIN p : p[k] # NO_REQUEST => w.row[j].req # p[k]
            BY <1>2, <2>2, <2>4, <2>7 DEF Sound, OnePlace, InRow
        <3> QED
            BY <1>1, <1>2, <2>4, <3>1, <3>2 DEF Sound, OnePlace
    <2>9. Known(w)
        BY <1>2, <2>4, <2>5 DEF Sound, Known
    <2>10. Len(w.queue) <= MAX_CONNS
        BY <1>8, <2>1, <2>2, <2>4, TheStreams
    <2>11. InTurn(w)
        BY <1>2, <1>8, <2>4 DEF InTurn, FreeRows
    <2>12. Matches(w, r, <<>>)
        BY <1>1, <2>4, <2>5, <2>7 DEF Matches, RowMatches, SerialMatches, InRow
    <2>13. ASSUME NEW s \in Streams \ {r} PROVE Kept(v, w, s)
        <3>1. Waits(w, s) <=> Waits(v, s)
            BY <2>6
        <3>2. w.serial.req # s
            BY <1>1, <2>4, TheStreams
        <3>3. w.row = v.row /\ w.eng = v.eng
            BY <1>2, <2>4
        <3>4. s \in v.upset => s \in w.upset
            BY <1>3, <2>4
        <3>5. ASSUME NEW g, Matches(v, s, g) PROVE Matches(w, s, g)
            BY <3>1, <3>2, <3>3, <3>4, <3>5 DEF Matches, RowMatches, SerialMatches
        <3> QED
            BY <2>5, <3>1, <3>2, <3>4, <3>5 DEF Kept, Held
    <2> QED
        BY <2>4, <2>8, <2>9, <2>10, <2>11, <2>12, <2>13 DEF Sound, w
<1>9. CASE q # NoAsk /\ w = [alone EXCEPT !.serial = [NoSerial EXCEPT !.req = r, !.temp = q.temp]]
    <2> DEFINE t == [NoSerial EXCEPT !.req = r, !.temp = q.temp]
    <2>1. /\ t \in Serials /\ t.req = r /\ t.temp = q.temp /\ t.count = 0 /\ ~t.started
        BY <1>1, TheStreams DEF NoSerial, Serials
    <2> HIDE DEF t
    <2>2. /\ w \in Books /\ w.row = alone.row /\ w.queue = alone.queue /\ w.eng = alone.eng
          /\ w.serial = t /\ w.ask = alone.ask /\ w.upset = alone.upset /\ ~w.err
        BY <1>2, <1>9, <2>1 DEF Books, t
    <2>3. /\ \A s : InRow(w, s) <=> InRow(alone, s)
          /\ \A s : Waits(w, s) <=> Waits(alone, s)
        BY <2>2 DEF InRow, Waits
    <2>4. ~InRow(w, r) /\ ~Waits(w, r)
        BY <1>5, <2>3 DEF Held
    <2>5. OnePlace(w)
        BY <1>5, <2>1, <2>2, <2>4 DEF Sound, OnePlace
    <2>6. Known(w)
        BY <1>5, <2>2, <2>3 DEF Sound, Known
    <2>7. InTurn(w)
        BY <1>5, <2>2 DEF InTurn, FreeRows
    <2>8. Matches(w, r, <<>>)
        BY <1>3, <2>1, <2>2, <2>4 DEF Matches, RowMatches, SerialMatches, InRow
    <2>9. ASSUME NEW s \in Streams \ {r} PROVE Kept(alone, w, s)
        BY <2>1, <2>2, <2>3 DEF Kept, Held, Matches, RowMatches, SerialMatches
    <2> QED
        BY <1>5, <2>2, <2>5, <2>6, <2>7, <2>8, <2>9, KeptTwice DEF Sound, w
<1>10. \/ q = NoAsk
       \/ q # NoAsk /\ q.fits /\ FreeRows(v) # {}
       \/ q # NoAsk /\ FreeRows(v) = {} /\ Len(v.queue) < MAX_CONNS
          /\ w = [alone EXCEPT !.queue = Append(@, r)]
       \/ q # NoAsk /\ w = [alone EXCEPT !.serial = [NoSerial EXCEPT !.req = r, !.temp = q.temp]]
    BY <1>4
<1> QED
    BY <1>6, <1>7, <1>8, <1>9, <1>10
-----------------------------------------------------------------------------
(* The handler *)

\* A stream the step is not about stays in step; so does one that is now done.
LEMMA Carry ==
    ASSUME NEW s \in Streams, InStep(s), got[s] \in Seq(Nat), Kept(svc, svc', s),
           phase'[s] \in {phase[s], "done"}, conn'[s] = conn[s], got'[s] = got[s]
    PROVE  InStep(s)'
BY DEF InStep, Kept, Telling, IsOwn

\* A stream whose connection is gone, or has just come, has been sent nothing.
LEMMA FromNothing ==
    ASSUME NEW s \in Streams, Held(svc', s) => phase'[s] # "idle", got'[s] = <<>>,
           conn'[s] = "streaming" => Matches(svc', s, <<>>)
    PROVE  InStep(s)'
BY DEF InStep, Telling, IsOwn

LEMMA KeptSelf == \A v, s : Kept(v, v, s)
BY DEF Kept

LEMMA FrameIs ==
    ASSUME TypeOK, NEW r \in Streams, NEW tokens \in Seq(Nat), NEW last \in BOOLEAN,
           NEW how \in {"finish", "error"}, Frame(r, tokens, last, how)
    PROVE  LET over == how = "error" \/ last \/ tokens = <<>>
           IN  /\ phase' \in [Streams -> {"idle", "role", "text", "done"}]
               /\ got' \in [Streams -> Seq(Nat)]
               /\ ended' \in [Streams -> {"no", "finish", "error"}]
               /\ \A s \in Streams \ {r} : phase'[s] = phase[s] /\ got'[s] = got[s]
               /\ phase'[r] = IF over THEN "done" ELSE phase[r]
               /\ got'[r] = IF over \/ conn[r] = "idle" THEN got[r] ELSE got[r] \o tokens
<1> DEFINE over == how = "error" \/ last \/ tokens = <<>>
<1>1. /\ phase' = [phase EXCEPT ![r] = IF over THEN "done" ELSE @]
      /\ got' = [got EXCEPT ![r] = IF over \/ conn[r] = "idle" THEN @ ELSE @ \o tokens]
      /\ ended' = [ended EXCEPT ![r] = IF over /\ conn[r] # "idle" THEN how ELSE @]
    BY DEF Frame
<1> HIDE DEF over
<1>2. got[r] \in Seq(Nat) /\ got[r] \o tokens \in Seq(Nat)
    BY DEF TypeOK
<1>3. got' \in [Streams -> Seq(Nat)]
    BY <1>1, <1>2 DEF TypeOK
<1>4. /\ phase' \in [Streams -> {"idle", "role", "text", "done"}]
      /\ ended' \in [Streams -> {"no", "finish", "error"}]
    BY <1>1 DEF TypeOK
<1>5. /\ \A s \in Streams \ {r} : phase'[s] = phase[s] /\ got'[s] = got[s]
      /\ phase'[r] = IF over THEN "done" ELSE phase[r]
      /\ got'[r] = IF over \/ conn[r] = "idle" THEN got[r] ELSE got[r] \o tokens
    BY <1>1 DEF TypeOK
<1> QED
    BY <1>3, <1>4, <1>5 DEF over

LEMMA HangsIs ==
    ASSUME TypeOK, NEW r \in Streams, Hangs(r)
    PROVE  /\ conn' \in [Streams -> {"idle", "streaming"}]
           /\ got' \in [Streams -> Seq(Nat)]
           /\ ended' \in [Streams -> {"no", "finish", "error"}]
           /\ \A s \in Streams \ {r} : conn'[s] = conn[s] /\ got'[s] = got[s]
           /\ conn'[r] = "idle" /\ got'[r] = <<>>
<1>1. <<>> \in Seq(Nat)
    OBVIOUS
<1> QED
    BY <1>1 DEF Hangs, TypeOK

LEMMA BeginStep ==
    ASSUME IInv, NEW r \in Streams, NEW q \in Asks[r] \cup {NoAsk}, begin_stream(r, q)
    PROVE  IInv'
<1>1. /\ TypeOK /\ svc \in Books /\ ~svc.err /\ Sound(svc) /\ InTurn(svc)
      /\ \A s \in Streams : InStep(s) /\ got[s] \in Seq(Nat)
    BY DEF IInv, Tables, TypeOK
<1>2. call = NO_REQUEST /\ call' = NO_REQUEST /\ conn[r] = "idle"
    BY DEF begin_stream, Ready
<1>3. CallHasRow'
    BY <1>2 DEF CallHasRow
<1>4. PICK v \in IF phase[r] = "idle" THEN {svc} ELSE stream_end(svc, r) :
         LET w == stream_begin(v, r, q)
         IN  IF v.err THEN svc' = Keep(v) /\ UNCHANGED <<phase, conn, got, ended>>
             ELSE /\ svc' = Keep(w)
                  /\ phase' = [phase EXCEPT ![r] = IF w.err THEN "idle" ELSE "role"]
                  /\ conn' = [conn EXCEPT ![r] = IF w.err THEN "idle" ELSE "streaming"]
                  /\ got' = [got EXCEPT ![r] = <<>>]
                  /\ ended' = [ended EXCEPT ![r] = "no"]
    BY DEF begin_stream
<1>5. /\ v \in Books /\ Sound(v) /\ InTurn(v)
      /\ \A s \in Streams \ {r} : Kept(svc, v, s)
      /\ IF v.err THEN Kept(svc, v, r) ELSE ~Held(v, r)
    <2>1. CASE phase[r] = "idle"
        <3>1. v = svc /\ ~Held(svc, r)
            BY <1>1, <1>4, <2>1 DEF InStep
        <3> QED
            BY <1>1, <3>1, KeptSelf
    <2>2. CASE phase[r] # "idle"
        BY <1>1, <1>4, <2>2, EndKeeps
    <2> QED
        BY <2>1, <2>2
<1>6. CASE v.err
    <2>1. svc' = Keep(v) /\ UNCHANGED <<phase, conn, got, ended>>
        BY <1>4, <1>6
    <2>2. /\ Keep(v) \in Books /\ ~Keep(v).err /\ Sound(Keep(v)) /\ InTurn(Keep(v))
          /\ \A s \in Streams : Kept(v, Keep(v), s)
        BY <1>5, Caught
    <2>3. \A s \in Streams : Kept(svc, svc', s)
        BY <1>5, <1>6, <2>1, <2>2, KeptTwice
    <2>4. \A s \in Streams : InStep(s)'
        BY <1>1, <2>1, <2>3, Carry
    <2>5. TypeOK'
        BY <1>1, <1>2, <2>1, <2>2 DEF TypeOK
    <2> QED
        BY <1>3, <2>1, <2>2, <2>4, <2>5 DEF IInv, Tables
<1>7. CASE ~v.err
    <2> DEFINE w == stream_begin(v, r, q)
    <2>1. /\ w \in Books /\ Sound(w) /\ InTurn(w)
          /\ \A s \in Streams \ {r} : Kept(v, w, s)
          /\ IF w.err THEN ~Held(w, r) ELSE Matches(w, r, <<>>)
        BY <1>5, <1>7, BeginKeeps
    <2>2. /\ svc' = Keep(w)
          /\ phase' = [phase EXCEPT ![r] = IF w.err THEN "idle" ELSE "role"]
          /\ conn' = [conn EXCEPT ![r] = IF w.err THEN "idle" ELSE "streaming"]
          /\ got' = [got EXCEPT ![r] = <<>>]
          /\ ended' = [ended EXCEPT ![r] = "no"]
        BY <1>4, <1>7
    <2> HIDE DEF w
    <2>3. /\ Keep(w) \in Books /\ ~Keep(w).err /\ Sound(Keep(w)) /\ InTurn(Keep(w))
          /\ \A s \in Streams : Kept(w, Keep(w), s)
        BY <2>1, Caught
    <2>4. <<>> \in Seq(Nat)
        OBVIOUS
    <2>5. TypeOK'
        BY <1>1, <1>2, <2>2, <2>3, <2>4, TheStreams DEF TypeOK
    <2>6. ASSUME NEW s \in Streams \ {r} PROVE InStep(s)'
        <3>1. Kept(svc, svc', s)
            BY <1>5, <2>1, <2>2, <2>3, KeptTwice
        <3>2. phase'[s] = phase[s] /\ conn'[s] = conn[s] /\ got'[s] = got[s]
            BY <1>1, <2>2 DEF TypeOK
        <3> QED
            BY <1>1, <3>1, <3>2, Carry
    <2>7. InStep(r)'
        <3>1. /\ got'[r] = <<>>
              /\ phase'[r] = IF w.err THEN "idle" ELSE "role"
              /\ conn'[r] = IF w.err THEN "idle" ELSE "streaming"
            BY <1>1, <2>2 DEF TypeOK
        <3>2. CASE w.err
            <4>1. ~Held(svc', r)
                BY <2>1, <2>2, <2>3, <3>2 DEF Kept
            <4> QED
                BY <3>1, <3>2, <4>1, FromNothing
        <3>3. CASE ~w.err
            <4>1. Matches(svc', r, <<>>)
                BY <2>1, <2>2, <2>3, <2>4, <3>3 DEF Kept
            <4> QED
                BY <3>1, <3>3, <4>1, FromNothing
        <3> QED
            BY <3>2, <3>3
    <2> QED
        BY <1>3, <2>2, <2>3, <2>5, <2>6, <2>7 DEF IInv, Tables
<1> QED
    BY <1>6, <1>7

LEMMA CompleteStep ==
    ASSUME IInv, NEW r \in Streams, complete(r)
    PROVE  IInv'
<1>1. /\ TypeOK /\ svc \in Books /\ ~svc.err /\ Sound(svc) /\ InTurn(svc)
      /\ \A s \in Streams : InStep(s) /\ got[s] \in Seq(Nat)
    BY DEF IInv, Tables, TypeOK
<1>2. call = NO_REQUEST /\ UNCHANGED <<phase, call, conn, got, ended>>
    BY DEF complete, Ready
<1>3. PICK kv \in {"empty", "other"} :
         svc' = [svc EXCEPT !.serial.kv = kv, !.upset = @ \cup Serial(svc)]
    BY DEF complete
<1> DEFINE t == [svc.serial EXCEPT !.kv = kv]
           u == svc.upset \cup Serial(svc)
<1>4. t \in Serials /\ u \in SUBSET Streams /\ t.req = svc.serial.req
    BY <1>1, TheStreams DEF Books, Serials, Serial
<1>5. svc' = [svc EXCEPT !.serial = t, !.upset = u]
    BY <1>1, <1>3 DEF Books
<1>6. /\ svc.upset \subseteq u
      /\ \A s \in Streams : t.req # s \/ s \in u
    BY <1>4, TheStreams DEF Serial
<1> HIDE DEF t, u
<1>7. /\ svc' \in Books /\ svc'.row = svc.row /\ svc'.queue = svc.queue /\ svc'.eng = svc.eng
      /\ svc'.serial = t /\ svc'.ask = svc.ask /\ svc'.upset = u /\ ~svc'.err
    BY <1>1, <1>4, <1>5 DEF Books
<1>8. Sound(svc') /\ InTurn(svc') /\ \A s \in Streams : Kept(svc, svc', s)
    BY <1>1, <1>4, <1>6, <1>7, SameTables, SameOthers
<1>9. \A s \in Streams : InStep(s)'
    BY <1>1, <1>2, <1>8, Carry
<1>10. TypeOK' /\ CallHasRow'
    BY <1>1, <1>2, <1>7 DEF TypeOK, CallHasRow
<1> QED
    BY <1>7, <1>8, <1>9, <1>10 DEF IInv, Tables

LEMMA RoleStep ==
    ASSUME IInv, NEW r \in Streams, role(r)
    PROVE  IInv'
<1>1. /\ TypeOK /\ svc \in Books /\ Tables
      /\ \A s \in Streams : InStep(s) /\ got[s] \in Seq(Nat)
    BY DEF IInv, TypeOK
<1>2. /\ call = NO_REQUEST /\ UNCHANGED <<svc, call, conn, got, ended>>
      /\ phase[r] = "role" /\ phase' = [phase EXCEPT ![r] = "text"]
    BY DEF role, Ready
<1>3. phase'[r] = "text" /\ \A s \in Streams \ {r} : phase'[s] = phase[s]
    BY <1>1, <1>2 DEF TypeOK
<1>4. TypeOK' /\ CallHasRow' /\ Tables'
    BY <1>1, <1>2 DEF TypeOK, CallHasRow, Tables
<1>5. \A s \in Streams \ {r} : InStep(s)'
    BY <1>1, <1>2, <1>3, KeptSelf, Carry
<1>6. InStep(r)'
    BY <1>1, <1>2, <1>3 DEF InStep, Telling, IsOwn
<1> QED
    BY <1>4, <1>5, <1>6 DEF IInv

\* The frame that ends a stream for its client leaves it in step.
LEMMA OverStep ==
    ASSUME IInv, NEW r \in Streams, NEW how \in {"finish", "error"},
           Frame(r, <<>>, TRUE, how), call' = NO_REQUEST, UNCHANGED conn,
           svc' \in Books, Tables', \A s \in Streams : Kept(svc, svc', s)
    PROVE  IInv'
<1>1. TypeOK /\ \A s \in Streams : InStep(s) /\ got[s] \in Seq(Nat)
    BY DEF IInv, TypeOK
<1>2. <<>> \in Seq(Nat)
    OBVIOUS
<1>3. /\ phase' \in [Streams -> {"idle", "role", "text", "done"}]
      /\ got' \in [Streams -> Seq(Nat)]
      /\ ended' \in [Streams -> {"no", "finish", "error"}]
      /\ \A s \in Streams \ {r} : phase'[s] = phase[s] /\ got'[s] = got[s]
      /\ phase'[r] = "done" /\ got'[r] = got[r]
    BY <1>1, <1>2, FrameIs
<1>4. TypeOK' /\ CallHasRow'
    BY <1>1, <1>3, TheStreams DEF TypeOK, CallHasRow
<1>5. \A s \in Streams : InStep(s)'
    BY <1>1, <1>3, Carry
<1> QED
    BY <1>4, <1>5 DEF IInv

LEMMA OneMore ==
    ASSUME NEW g \in Seq(Nat), NEW t \in Nat
    PROVE  /\ <<t>> \in Seq(Nat) /\ <<t>> # <<>>
           /\ g \o <<t>> \in Seq(Nat) /\ Len(g \o <<t>>) = Len(g) + 1
           /\ (\A k \in DOMAIN g : g[k] = k) /\ t = Len(g) + 1
              => \A k \in DOMAIN (g \o <<t>>) : (g \o <<t>>)[k] = k
OBVIOUS

\* A token of the serial path: one more of its own answer, unless it is upset.
LEMMA SerialStepKeeps ==
    ASSUME NEW v \in Books, Sound(v), InTurn(v), ~v.err, NEW r \in Streams,
           ~SerialStep(v, r).err, NEW g \in Seq(Nat), Matches(v, r, g)
    PROVE  LET w == SerialStep(v, r)
               t == SerialToken(v, r)
           IN  /\ w \in Books /\ Sound(w) /\ InTurn(w) /\ t \in Nat /\ w.upset = v.upset
               /\ \A s \in Streams \ {r} : Kept(v, w, s)
               /\ Held(w, r) => Held(v, r)
               /\ r \notin v.upset => t = Len(g) + 1
               /\ Matches(w, r, g \o <<t>>)
<1> DEFINE w == SerialStep(v, r)
           t == SerialToken(v, r)
           u == [v.serial EXCEPT !.started = TRUE, !.count = @ + 1,
                                 !.kv = IF v.serial.started THEN @ ELSE "own"]
<1>1. ~(v.serial.req # r \/ (~v.serial.started /\ v.serial.kv # "empty"))
    <2>1. Raise(v).err
        BY DEF Raise, Books
    <2> QED
        BY <2>1 DEF SerialStep
<1>2. v.serial \in Serials /\ v.serial.req = r
    BY <1>1 DEF Books
<1>3. /\ u \in Serials /\ u.req = r /\ u.count = v.serial.count + 1 /\ u.started
      /\ u.temp = v.serial.temp
      /\ u.kv = IF v.serial.started THEN v.serial.kv ELSE "own"
    <2>1. PICK c \in Nat : c = v.serial.count + 1
        BY <1>2 DEF Serials
    <2>2. u = [v.serial EXCEPT !.started = TRUE, !.count = c,
                               !.kv = IF v.serial.started THEN @ ELSE "own"]
        BY <2>1
    <2> HIDE DEF u
    <2> QED
        BY <1>2, <2>1, <2>2 DEF Serials
<1>4. w = [v EXCEPT !.serial = u]
    <2>1. w = [v EXCEPT !.serial.started = TRUE, !.serial.count = @ + 1,
                        !.serial.kv = IF v.serial.started THEN @ ELSE "own"]
        BY <1>1 DEF SerialStep
    <2> HIDE DEF w
    <2> QED
        BY <2>1 DEF Books
<1>5. t = v.serial.count + 1 \/ t = 0
    BY DEF SerialToken, FOREIGN
<1> HIDE DEF w, u
<1>6. /\ w \in Books /\ w.row = v.row /\ w.queue = v.queue /\ w.eng = v.eng
      /\ w.serial = u /\ w.ask = v.ask /\ w.upset = v.upset
    BY <1>3, <1>4 DEF Books
<1>7. t \in Nat
    BY <1>2, <1>5 DEF Serials
<1>8. /\ Sound(w) /\ InTurn(w)
      /\ \A s \in Streams \ {r} : Kept(v, w, s)
      /\ Held(w, r) => Held(v, r)
    BY <1>2, <1>3, <1>6, SameTables, SameOthers
<1>9. ASSUME r \notin v.upset
      PROVE  /\ v.serial.count = Len(g)
             /\ v.serial.started => v.serial.kv = "own"
             /\ v.ask[r].temp # 0 => v.serial.temp = v.ask[r].temp
    BY <1>2, <1>9 DEF Matches, SerialMatches
<1>10. ASSUME r \notin v.upset PROVE t = Len(g) + 1
    BY <1>9, <1>10 DEF SerialToken
<1>11. ~InRow(w, r) /\ ~Waits(w, r)
    <2>1. ~InRow(v, r) /\ ~Waits(v, r)
        BY <1>2, TheStreams DEF Sound, OnePlace
    <2> QED
        BY <1>6, <2>1 DEF InRow, Waits
<1>12. Matches(w, r, g \o <<t>>)
    <2>1. ASSUME r \notin w.upset PROVE SerialMatches(w, r, g \o <<t>>)
        <3>1. Len(g \o <<t>>) = Len(g) + 1
            BY <1>7, OneMore
        <3> QED
            BY <1>3, <1>6, <1>9, <2>1, <3>1 DEF SerialMatches
    <2> QED
        BY <1>11, <2>1 DEF Matches, RowMatches, InRow
<1> HIDE DEF t
<1> QED
    BY <1>6, <1>7, <1>8, <1>10, <1>12 DEF w, t

LEMMA TextStep ==
    ASSUME IInv, NEW r \in Streams, text(r)
    PROVE  IInv'
<1>1. /\ TypeOK /\ svc \in Books /\ ~svc.err /\ Sound(svc) /\ InTurn(svc)
      /\ \A s \in Streams : InStep(s) /\ got[s] \in Seq(Nat)
    BY DEF IInv, Tables, TypeOK
<1>2. call = NO_REQUEST /\ conn[r] = "streaming" /\ phase[r] = "text" /\ conn' = conn
    BY DEF text, Ready
<1>3. PICK v \in Admits(svc) :
         \/ v.err
         \/ /\ ~v.err /\ Waits(v, r)
            /\ svc' = v /\ UNCHANGED <<phase, call, got, ended>>
         \/ /\ ~v.err /\ InRow(v, r)
            /\ svc' = v /\ call' = r /\ UNCHANGED <<phase, got, ended>>
         \/ /\ LET w == SerialStep(v, r)
               IN  \/ svc' = v /\ Frame(r, <<>>, TRUE, "finish")
                   \/ svc' = Keep(w) /\ w.err /\ Frame(r, <<>>, TRUE, "error")
                   \/ svc' = Keep(w) /\ ~w.err /\ Frame(r, <<SerialToken(v, r)>>, FALSE, "finish")
            /\ UNCHANGED call
    BY DEF text
<1>4. /\ v \in Books /\ Sound(v) /\ ~v.err /\ InTurn(v)
      /\ \A s \in Streams : Kept(svc, v, s)
    BY <1>1, AdmitsKeeps
<1>5. CASE svc' = v /\ UNCHANGED <<phase, got, ended>>
           /\ (call' = call \/ (call' = r /\ InRow(v, r)))
    <2>1. \A s \in Streams : InStep(s)'
        BY <1>1, <1>2, <1>4, <1>5, Carry
    <2>2. TypeOK' /\ CallHasRow' /\ Tables'
        BY <1>1, <1>2, <1>4, <1>5, TheStreams DEF TypeOK, CallHasRow, Tables
    <2> QED
        BY <2>1, <2>2 DEF IInv
<1>6. CASE svc' = v /\ call' = call /\ Frame(r, <<>>, TRUE, "finish")
    BY <1>2, <1>4, <1>6, OverStep DEF Tables
<1> DEFINE w == SerialStep(v, r)
           t == SerialToken(v, r)
<1>7. CASE svc' = Keep(w) /\ call' = call /\ w.err /\ Frame(r, <<>>, TRUE, "error")
    <2>1. w = Raise(v)
        BY <1>4, <1>7 DEF SerialStep, Books
    <2>2. /\ w \in Books /\ w.row = v.row /\ w.queue = v.queue /\ w.eng = v.eng
          /\ w.serial = v.serial /\ w.ask = v.ask /\ w.upset = v.upset
        BY <1>4, <2>1 DEF Raise, Books
    <2> HIDE DEF w
    <2>3. Sound(w) /\ InTurn(w) /\ \A s \in Streams : Kept(v, w, s)
        BY <1>4, <2>2, SameTables, SameOthers
    <2>4. /\ Keep(w) \in Books /\ ~Keep(w).err /\ Sound(Keep(w)) /\ InTurn(Keep(w))
          /\ \A s \in Streams : Kept(w, Keep(w), s)
        BY <2>2, <2>3, Caught
    <2>5. \A s \in Streams : Kept(svc, svc', s)
        BY <1>4, <1>7, <2>3, <2>4, KeptTwice
    <2>6. svc' \in Books /\ Tables'
        BY <1>7, <2>4 DEF Tables
    <2> QED
        BY <1>2, <1>7, <2>5, <2>6, OverStep
<1>8. CASE svc' = Keep(w) /\ call' = call /\ ~w.err /\ Frame(r, <<t>>, FALSE, "finish")
    <2>1. Matches(v, r, got[r])
        <3>1. Matches(svc, r, got[r])
            BY <1>1, <1>2 DEF InStep, Telling
        <3> QED
            BY <1>1, <1>4, <3>1 DEF Kept
    <2>2. /\ w \in Books /\ Sound(w) /\ InTurn(w) /\ t \in Nat /\ w.upset = v.upset
          /\ \A s \in Streams \ {r} : Kept(v, w, s)
          /\ Held(w, r) => Held(v, r)
          /\ r \notin v.upset => t = Len(got[r]) + 1
          /\ Matches(w, r, got[r] \o <<t>>)
        BY <1>1, <1>4, <1>8, <2>1, SerialStepKeeps
    <2> HIDE DEF w, t
    <2>3. /\ Keep(w) \in Books /\ ~Keep(w).err /\ Sound(Keep(w)) /\ InTurn(Keep(w))
          /\ \A s \in Streams : Kept(w, Keep(w), s)
        BY <2>2, Caught
    <2>4. Tables' /\ svc' \in Books
        BY <1>8, <2>3 DEF Tables
    <2>5. /\ <<t>> \in Seq(Nat) /\ <<t>> # <<>> /\ got[r] \o <<t>> \in Seq(Nat)
          /\ (\A k \in DOMAIN got[r] : got[r][k] = k) /\ t = Len(got[r]) + 1
             => \A k \in DOMAIN (got[r] \o <<t>>) : (got[r] \o <<t>>)[k] = k
        BY <1>1, <2>2, OneMore
    <2>6. /\ phase' \in [Streams -> {"idle", "role", "text", "done"}]
          /\ got' \in [Streams -> Seq(Nat)]
          /\ ended' \in [Streams -> {"no", "finish", "error"}]
          /\ \A s \in Streams \ {r} : phase'[s] = phase[s] /\ got'[s] = got[s]
          /\ phase'[r] = phase[r] /\ got'[r] = got[r] \o <<t>>
        BY <1>1, <1>2, <1>8, <2>5, FrameIs
    <2>7. TypeOK' /\ CallHasRow'
        BY <1>1, <1>2, <1>8, <2>4, <2>6 DEF TypeOK, CallHasRow
    <2>8. ASSUME NEW s \in Streams \ {r} PROVE InStep(s)'
        <3>1. Kept(svc, svc', s)
            BY <1>4, <1>8, <2>2, <2>3, KeptTwice
        <3> QED
            BY <1>1, <1>2, <2>6, <3>1, Carry
    <2>9. InStep(r)'
        <3>1. Matches(svc', r, got'[r])
            BY <1>8, <2>2, <2>3, <2>5, <2>6 DEF Kept
        <3>2. ASSUME r \notin svc'.upset PROVE \A k \in DOMAIN got'[r] : got'[r][k] = k
            <4>1. r \notin v.upset /\ r \notin svc.upset
                BY <1>4, <1>8, <2>2, <2>3, <3>2 DEF Kept
            <4> QED
                BY <1>1, <2>2, <2>5, <2>6, <4>1 DEF InStep, IsOwn
        <3> QED
            BY <1>2, <2>6, <3>1, <3>2 DEF InStep, IsOwn
    <2> QED
        BY <2>4, <2>7, <2>8, <2>9 DEF IInv
<1>9. \/ svc' = v /\ UNCHANGED <<phase, got, ended>> /\ (call' = call \/ (call' = r /\ InRow(v, r)))
      \/ svc' = v /\ call' = call /\ Frame(r, <<>>, TRUE, "finish")
      \/ svc' = Keep(w) /\ call' = call /\ w.err /\ Frame(r, <<>>, TRUE, "error")
      \/ svc' = Keep(w) /\ call' = call /\ ~w.err /\ Frame(r, <<t>>, FALSE, "finish")
    <2> HIDE DEF w, t
    <2> QED
        BY <1>3, <1>4 DEF w, t
<1> QED
    BY <1>5, <1>6, <1>7, <1>8, <1>9

LEMMA DoneStep ==
    ASSUME IInv, NEW r \in Streams, done(r)
    PROVE  IInv'
<1>1. /\ TypeOK /\ svc \in Books /\ ~svc.err /\ Sound(svc) /\ InTurn(svc)
      /\ \A s \in Streams : InStep(s) /\ got[s] \in Seq(Nat)
    BY DEF IInv, Tables, TypeOK
<1>2. call = NO_REQUEST /\ call' = NO_REQUEST /\ phase[r] = "done"
    BY DEF done, Ready
<1>3. PICK v \in stream_end(svc, r) :
         IF v.err THEN svc' = Keep(v) /\ UNCHANGED phase /\ Hangs(r)
         ELSE /\ svc' = [v EXCEPT !.ask[r] = NoAsk, !.upset = @ \ {r}]
              /\ phase' = [phase EXCEPT ![r] = "idle"]
              /\ got' = [got EXCEPT ![r] = <<>>]
              /\ ended' = [ended EXCEPT ![r] = "no"]
              /\ UNCHANGED conn
    BY DEF done
<1>4. /\ v \in Books /\ Sound(v) /\ InTurn(v)
      /\ \A s \in Streams \ {r} : Kept(svc, v, s)
      /\ IF v.err THEN Kept(svc, v, r) ELSE ~Held(v, r)
    BY <1>1, EndKeeps
<1>5. CASE v.err
    <2>1. svc' = Keep(v) /\ phase' = phase /\ Hangs(r)
        BY <1>3, <1>5
    <2>2. /\ Keep(v) \in Books /\ ~Keep(v).err /\ Sound(Keep(v)) /\ InTurn(Keep(v))
          /\ \A s \in Streams : Kept(v, Keep(v), s)
        BY <1>4, Caught
    <2>3. /\ conn' \in [Streams -> {"idle", "streaming"}]
          /\ got' \in [Streams -> Seq(Nat)]
          /\ ended' \in [Streams -> {"no", "finish", "error"}]
          /\ \A s \in Streams \ {r} : conn'[s] = conn[s] /\ got'[s] = got[s]
          /\ conn'[r] = "idle" /\ got'[r] = <<>>
        BY <1>1, <2>1, HangsIs
    <2>4. \A s \in Streams \ {r} : InStep(s)'
        BY <1>1, <1>4, <1>5, <2>1, <2>2, <2>3, KeptTwice, Carry
    <2>5. InStep(r)'
        BY <1>2, <2>1, <2>3, FromNothing
    <2>6. TypeOK' /\ CallHasRow' /\ Tables'
        BY <1>1, <1>2, <2>1, <2>2, <2>3, TheStreams DEF TypeOK, CallHasRow, Tables
    <2> QED
        BY <2>4, <2>5, <2>6 DEF IInv
<1>6. CASE ~v.err
    <2> DEFINE ask == [v.ask EXCEPT ![r] = NoAsk]
               u == v.upset \ {r}
    <2>1. /\ svc' = [v EXCEPT !.ask = ask, !.upset = u]
          /\ phase' = [phase EXCEPT ![r] = "idle"]
          /\ got' = [got EXCEPT ![r] = <<>>]
          /\ ended' = [ended EXCEPT ![r] = "no"]
          /\ conn' = conn
        BY <1>3, <1>6
    <2>2. /\ ask \in [Streams -> [steps : Nat, fits : BOOLEAN, temp : Nat]]
          /\ \A s \in Streams \ {r} : ask[s] = v.ask[s]
        <3>1. NoAsk \in [steps : Nat, fits : BOOLEAN, temp : Nat]
            BY DEF NoAsk
        <3> QED
            BY <1>4, <3>1 DEF Books
    <2>3. u \in SUBSET Streams /\ \A s \in Streams \ {r} : s \in v.upset => s \in u
        BY <1>4 DEF Books
    <2> HIDE DEF ask, u
    <2>4. /\ svc' \in Books /\ svc'.row = v.row /\ svc'.queue = v.queue /\ svc'.eng = v.eng
          /\ svc'.serial = v.serial /\ svc'.ask = ask /\ svc'.upset = u /\ ~svc'.err
        BY <1>4, <1>6, <2>1, <2>2, <2>3 DEF Books
    <2>5. /\ Sound(svc') /\ InTurn(svc') /\ ~Held(svc', r)
          /\ \A s \in Streams \ {r} : Kept(v, svc', s)
        BY <1>4, <1>6, <2>2, <2>3, <2>4, SameTables, SameOthers
    <2>6. /\ phase'[r] = "idle" /\ got'[r] = <<>> /\ <<>> \in Seq(Nat)
          /\ \A s \in Streams \ {r} : phase'[s] = phase[s] /\ got'[s] = got[s]
        BY <1>1, <2>1 DEF TypeOK
    <2>7. \A s \in Streams \ {r} : InStep(s)'
        BY <1>1, <1>4, <2>1, <2>5, <2>6, KeptTwice, Carry
    <2>8. InStep(r)'
        BY <2>5, <2>6 DEF InStep, Telling, IsOwn
    <2>9. TypeOK' /\ CallHasRow' /\ Tables'
        BY <1>1, <1>2, <2>1, <2>4, <2>5, <2>6, TheStreams DEF TypeOK, CallHasRow, Tables
    <2> QED
        BY <2>7, <2>8, <2>9 DEF IInv
<1> QED
    BY <1>5, <1>6

LEMMA CloseStep ==
    ASSUME IInv, NEW r \in Streams, close(r)
    PROVE  IInv'
<1>1. TypeOK /\ Tables /\ \A s \in Streams : InStep(s) /\ got[s] \in Seq(Nat)
    BY DEF IInv, TypeOK
<1>2. call = NO_REQUEST /\ Hangs(r) /\ UNCHANGED <<svc, phase, call>>
    BY DEF close, Ready
<1>3. /\ conn' \in [Streams -> {"idle", "streaming"}]
      /\ got' \in [Streams -> Seq(Nat)]
      /\ ended' \in [Streams -> {"no", "finish", "error"}]
      /\ \A s \in Streams \ {r} : conn'[s] = conn[s] /\ got'[s] = got[s]
      /\ conn'[r] = "idle" /\ got'[r] = <<>>
    BY <1>1, <1>2, HangsIs
<1>4. \A s \in Streams \ {r} : InStep(s)'
    BY <1>1, <1>2, <1>3, KeptSelf, Carry
<1>5. InStep(r)'
    BY <1>1, <1>2, <1>3, FromNothing DEF InStep
<1>6. TypeOK' /\ CallHasRow' /\ Tables'
    BY <1>1, <1>2, <1>3 DEF TypeOK, CallHasRow, Tables
<1> QED
    BY <1>4, <1>5, <1>6 DEF IInv

LEMMA DropStep ==
    ASSUME IInv, NEW r \in Streams, drop(r)
    PROVE  IInv'
<1>1. /\ TypeOK /\ svc \in Books /\ ~svc.err /\ Sound(svc) /\ InTurn(svc)
      /\ \A s \in Streams : InStep(s) /\ got[s] \in Seq(Nat)
    BY DEF IInv, Tables, TypeOK
<1>2. /\ call = NO_REQUEST /\ Hangs(r) /\ UNCHANGED <<phase, call>>
      /\ svc' = [svc EXCEPT !.upset = @ \ {r}]
    BY DEF drop, Ready
<1>3. /\ conn' \in [Streams -> {"idle", "streaming"}]
      /\ got' \in [Streams -> Seq(Nat)]
      /\ ended' \in [Streams -> {"no", "finish", "error"}]
      /\ \A s \in Streams \ {r} : conn'[s] = conn[s] /\ got'[s] = got[s]
      /\ conn'[r] = "idle" /\ got'[r] = <<>>
    BY <1>1, <1>2, HangsIs
<1>4. /\ svc' \in Books /\ svc'.row = svc.row /\ svc'.queue = svc.queue /\ svc'.eng = svc.eng
      /\ svc'.serial = svc.serial /\ svc'.ask = svc.ask /\ svc'.upset = svc.upset \ {r}
      /\ ~svc'.err
    BY <1>1, <1>2 DEF Books
<1>5. /\ Sound(svc') /\ InTurn(svc')
      /\ Held(svc', r) => Held(svc, r)
      /\ \A s \in Streams \ {r} : Kept(svc, svc', s)
    BY <1>1, <1>4, SameTables, SameOthers
<1>6. \A s \in Streams \ {r} : InStep(s)'
    BY <1>1, <1>2, <1>3, <1>5, Carry
<1>7. InStep(r)'
    BY <1>1, <1>2, <1>3, <1>5, FromNothing DEF InStep
<1>8. TypeOK' /\ CallHasRow' /\ Tables'
    BY <1>1, <1>2, <1>3, <1>4, <1>5 DEF TypeOK, CallHasRow, Tables
<1> QED
    BY <1>6, <1>7, <1>8 DEF IInv

LEMMA TickStep ==
    ASSUME IInv, NEW r \in Streams, batch_tick(r)
    PROVE  IInv'
<1>1. /\ TypeOK /\ svc \in Books /\ ~svc.err /\ Sound(svc) /\ InTurn(svc)
      /\ \A s \in Streams : InStep(s) /\ got[s] \in Seq(Nat)
    BY DEF IInv, Tables, TypeOK
<1>2. call = r /\ conn' = conn
    BY DEF batch_tick
<1>3. PICK v \in Ticks(svc) :
         /\ svc' = Keep(v)
         /\ IF v.err THEN call' = NO_REQUEST /\ Frame(r, <<>>, TRUE, "error")
                     ELSE UNCHANGED <<call, phase, got, ended>>
    BY DEF batch_tick
<1>4. v \in Books /\ Ticked(svc, v)
    BY <1>1, TicksTicked
<1>5. Sound(v) /\ InTurn(v) /\ \A s \in Streams : Kept(svc, v, s)
    BY <1>1, <1>4, TickedKeeps
<1>6. /\ Keep(v) \in Books /\ ~Keep(v).err /\ Sound(Keep(v)) /\ InTurn(Keep(v))
      /\ \A s \in Streams : Kept(v, Keep(v), s)
    BY <1>4, <1>5, Caught
<1>7. svc' \in Books /\ Tables' /\ \A s \in Streams : Kept(svc, svc', s)
    BY <1>3, <1>5, <1>6, KeptTwice DEF Tables
<1>8. CASE v.err
    BY <1>2, <1>3, <1>7, <1>8, OverStep
<1>9. CASE ~v.err
    <2>1. call' = call /\ phase' = phase /\ got' = got /\ ended' = ended
        BY <1>3, <1>9
    <2>2. \A s \in Streams : InStep(s)'
        BY <1>1, <1>2, <1>7, <2>1, Carry
    <2>3. CallHasRow'
        <3>1. InRow(svc, r) /\ phase[r] = "text"
            BY <1>2, TheStreams DEF IInv, CallHasRow
        <3> QED
            BY <1>2, <1>7, <2>1, <3>1 DEF CallHasRow, Kept
    <2>4. TypeOK'
        BY <1>1, <1>2, <1>7, <2>1 DEF TypeOK
    <2> QED
        BY <1>7, <2>2, <2>3, <2>4 DEF IInv
<1> QED
    BY <1>8, <1>9

\* All that there is and has not been sent continues the answer.
LEMMA Continued ==
    ASSUME NEW g \in Seq(Nat), NEW emitted \in Nat, NEW out \in Nat
    PROVE  LET t == NewText(emitted, out)
           IN  /\ t \in Seq(Nat) /\ g \o t \in Seq(Nat)
               /\ emitted = Len(g) /\ Len(g) <= out =>
                    /\ Len(g \o t) = out
                    /\ (\A k \in DOMAIN g : g[k] = k) => \A k \in DOMAIN (g \o t) : (g \o t)[k] = k
<1> DEFINE t == NewText(emitted, out)
<1>1. PICK sent \in Nat : /\ t = [k \in 1 .. out - sent |-> sent + k]
                          /\ sent <= out
                          /\ emitted <= out => sent = emitted
    <2> DEFINE sent == IF emitted > out THEN 0 ELSE emitted
    <2>1. sent \in Nat /\ sent <= out /\ (emitted <= out => sent = emitted)
        OBVIOUS
    <2>2. t = [k \in 1 .. out - sent |-> sent + k]
        BY DEF NewText
    <2> HIDE DEF sent, t
    <2> QED
        BY <2>1, <2>2
<1>2. out - sent \in Nat
    BY <1>1
<1>3. /\ t \in Seq(Nat) /\ Len(t) = out - sent
      /\ \A k \in 1 .. out - sent : t[k] = sent + k
    BY <1>1, <1>2
<1> HIDE DEF t
<1>4. g \o t \in Seq(Nat) /\ Len(g \o t) = Len(g) + (out - sent)
    <2>1. \A u \in Seq(Nat) : g \o u \in Seq(Nat) /\ Len(g \o u) = Len(g) + Len(u)
        OBVIOUS
    <2> QED
        BY <1>3, <2>1
<1>5. ASSUME emitted = Len(g), Len(g) <= out
      PROVE  /\ Len(g \o t) = out
             /\ (\A k \in DOMAIN g : g[k] = k) => \A k \in DOMAIN (g \o t) : (g \o t)[k] = k
    <2>1. sent = Len(g)
        BY <1>1, <1>5
    <2>2. Len(g \o t) = out
        BY <1>4, <2>1
    <2>3. ASSUME \A k \in DOMAIN g : g[k] = k, NEW k \in DOMAIN (g \o t)
          PROVE  (g \o t)[k] = k
        <3>1. k \in 1 .. out
            BY <1>4, <2>2
        <3>2. CASE k <= Len(g)
            BY <1>3, <2>3, <3>1, <3>2
        <3>3. CASE k > Len(g)
            <4>1. (g \o t)[k] = t[k - Len(g)]
                BY <1>3, <1>4, <2>1, <3>1, <3>3
            <4>2. k - Len(g) \in 1 .. out - sent
                BY <2>1, <3>1, <3>3
            <4> QED
                BY <1>3, <2>1, <3>1, <4>1, <4>2
        <3> QED
            BY <3>1, <3>2, <3>3
    <2> QED
        BY <2>2, <2>3
<1> QED
    BY <1>3, <1>4, <1>5 DEF t

LEMMA NextStep ==
    ASSUME IInv, NEW r \in Streams, batch_next(r)
    PROVE  IInv'
<1>1. /\ TypeOK /\ svc \in Books /\ ~svc.err /\ Sound(svc) /\ InTurn(svc) /\ Tables
      /\ \A s \in Streams : InStep(s) /\ got[s] \in Seq(Nat)
    BY DEF IInv, Tables, TypeOK
<1> DEFINE i == slot_of(svc, r)
           out == svc.eng[r].out
           last == Wants(r) + 1 >= svc.ask[r].steps
           t == NewText(svc.row[i].emitted, out)
<1>2. call = r /\ call' = NO_REQUEST /\ conn' = conn /\ r # NO_REQUEST
    BY TheStreams DEF batch_next
<1>3. InRow(svc, r) /\ phase[r] = "text"
    BY <1>2 DEF IInv, CallHasRow
<1>4. i \in Rows /\ svc.row[i].req = r
    BY <1>3 DEF InRow, slot_of
<1>5. \/ svc' = svc /\ (Frame(r, <<>>, TRUE, "error") \/ Frame(r, <<>>, TRUE, "finish"))
      \/ /\ svc' = [svc EXCEPT !.row[i].n = @ + 1, !.row[i].emitted = out]
         /\ Frame(r, t, last, "finish")
    BY DEF batch_next
<1> HIDE DEF i, last
<1>6. CASE svc' = svc /\ (Frame(r, <<>>, TRUE, "error") \/ Frame(r, <<>>, TRUE, "finish"))
    <2>1. Tables' /\ svc' \in Books /\ \A s \in Streams : Kept(svc, svc', s)
        BY <1>1, <1>6, KeptSelf DEF Tables
    <2> QED
        BY <1>2, <1>6, <2>1, OverStep
<1>7. CASE /\ svc' = [svc EXCEPT !.row[i].n = @ + 1, !.row[i].emitted = out]
           /\ Frame(r, t, last, "finish")
    <2>1. out \in Nat /\ svc.row[i] \in Places /\ svc.row \in [Rows -> Places]
        BY <1>1, <1>4 DEF Books
    <2>2. svc.row[i].emitted \in Nat /\ svc.row[i].n \in Nat
        BY <2>1 DEF Places
    <2>3. PICK n \in Nat : n = svc.row[i].n + 1
        BY <2>2
    <2> DEFINE p == [svc.row[i] EXCEPT !.n = n, !.emitted = out]
               row == [svc.row EXCEPT ![i] = p]
    <2>4. p \in Places /\ p.req = r /\ p.emitted = out
        BY <1>4, <2>1, <2>3 DEF Places
    <2>5. svc' = [svc EXCEPT !.row = row]
        BY <1>1, <1>4, <1>7, <2>3 DEF Books
    <2> HIDE DEF p
    <2>6. row \in [Rows -> Places] /\ row[i] = p /\ \A j \in Rows \ {i} : row[j] = svc.row[j]
        BY <1>4, <2>1, <2>4
    <2> HIDE DEF row
    <2>7. /\ svc' \in Books /\ svc'.row = row /\ svc'.queue = svc.queue /\ svc'.eng = svc.eng
          /\ svc'.serial = svc.serial /\ svc'.ask = svc.ask /\ svc'.upset = svc.upset
          /\ ~svc'.err
        BY <1>1, <2>5, <2>6 DEF Books
    <2>8. \A j \in Rows : row[j].req = svc.row[j].req
        BY <1>4, <2>4, <2>6
    <2>9. /\ \A s : InRow(svc', s) <=> InRow(svc, s)
          /\ \A s : Waits(svc', s) <=> Waits(svc, s)
          /\ FreeRows(svc') = FreeRows(svc)
        BY <2>7, <2>8 DEF InRow, Waits, FreeRows
    <2>10. Sound(svc') /\ InTurn(svc')
        <3>1. OnePlace(svc')
            BY <1>1, <2>7, <2>8, <2>9 DEF Sound, OnePlace
        <3>2. Known(svc')
            BY <1>1, <2>7, <2>9 DEF Sound, Known
        <3> QED
            BY <1>1, <2>7, <2>9, <3>1, <3>2 DEF Sound, InTurn
    <2>11. ASSUME NEW s \in Streams \ {r} PROVE Kept(svc, svc', s)
        <3>1. \A j \in Rows : row[j].req = s => row[j] = svc.row[j]
            BY <1>4, <2>4, <2>6
        <3>2. \A g : RowMatches(svc, s, g) => RowMatches(svc', s, g)
            BY <2>7, <3>1 DEF RowMatches
        <3> QED
            BY <2>7, <2>9, <3>2 DEF Kept, Held, Matches, SerialMatches
    <2>12. /\ t \in Seq(Nat) /\ got[r] \o t \in Seq(Nat)
           /\ svc.row[i].emitted = Len(got[r]) /\ Len(got[r]) <= out =>
                /\ Len(got[r] \o t) = out
                /\ (\A k \in DOMAIN got[r] : got[r][k] = k)
                   => \A k \in DOMAIN (got[r] \o t) : (got[r] \o t)[k] = k
        BY <1>1, <2>1, <2>2, Continued
    <2> HIDE DEF t
    <2>13. last \in BOOLEAN
        BY DEF last
    <2> DEFINE over == last \/ t = <<>>
    <2>14. /\ phase' \in [Streams -> {"idle", "role", "text", "done"}]
           /\ got' \in [Streams -> Seq(Nat)]
           /\ ended' \in [Streams -> {"no", "finish", "error"}]
           /\ \A s \in Streams \ {r} : phase'[s] = phase[s] /\ got'[s] = got[s]
           /\ phase'[r] = IF over THEN "done" ELSE phase[r]
           /\ got'[r] = IF over \/ conn[r] = "idle" THEN got[r] ELSE got[r] \o t
        BY <1>1, <1>7, <2>12, <2>13, FrameIs
    <2> HIDE DEF over
    <2>15. TypeOK' /\ CallHasRow' /\ Tables'
        BY <1>1, <1>2, <2>7, <2>10, <2>14, TheStreams DEF TypeOK, CallHasRow, Tables
    <2>16. \A s \in Streams \ {r} : InStep(s)'
        BY <1>1, <1>2, <2>11, <2>14, Carry
    <2>17. InStep(r)'
        <3>1. phase'[r] # "idle"
            BY <1>3, <2>14
        <3>2. CASE got'[r] = got[r] /\ ~Telling(r)'
            BY <1>1, <2>7, <3>1, <3>2 DEF InStep, IsOwn
        <3>3. CASE Telling(r)' \/ got'[r] # got[r]
            <4>1. ~over /\ conn[r] = "streaming" /\ got'[r] = got[r] \o t /\ phase'[r] = "text"
                BY <1>1, <1>2, <1>3, <2>14, <3>3 DEF Telling, TypeOK
            <4>2. Matches(svc, r, got[r])
                BY <1>1, <1>3, <4>1 DEF InStep, Telling
            <4>3. ASSUME r \notin svc.upset
                  PROVE  /\ Len(got'[r]) = out
                         /\ IsOwn(r)'
                <5>1. svc.row[i].emitted = Len(got[r]) /\ Len(got[r]) <= out
                    BY <1>4, <4>2, <4>3 DEF Matches, RowMatches
                <5>2. \A k \in DOMAIN got[r] : got[r][k] = k
                    BY <1>1, <4>3 DEF InStep, IsOwn
                <5>3. /\ Len(got[r] \o t) = out
                      /\ \A k \in DOMAIN (got[r] \o t) : (got[r] \o t)[k] = k
                    BY <2>12, <5>1, <5>2
                <5> QED
                    BY <4>1, <5>3 DEF IsOwn
            <4>4. ~Waits(svc, r) /\ svc.serial.req # r
                BY <1>1, <1>2, <1>3, <1>4 DEF Sound, OnePlace, Waits
            <4>5. Matches(svc', r, got'[r])
                <5>1. \A j \in Rows : row[j].req = r => j = i
                    BY <1>1, <1>2, <1>4, <2>8 DEF Sound, OnePlace
                <5>2. r \notin svc'.upset => RowMatches(svc', r, got'[r])
                    BY <2>1, <2>4, <2>6, <2>7, <4>3, <5>1 DEF RowMatches
                <5> QED
                    BY <2>7, <2>9, <4>4, <5>2 DEF Matches, SerialMatches
            <4> QED
                BY <2>7, <3>1, <4>3, <4>5 DEF InStep
        <3> QED
            BY <3>2, <3>3
    <2> QED
        BY <2>15, <2>16, <2>17 DEF IInv
<1> QED
    BY <1>5, <1>6, <1>7
-----------------------------------------------------------------------------
LEMMA InitHolds ==
    Init => IInv
<1> SUFFICES ASSUME Init PROVE IInv
    OBVIOUS
<1>1. /\ NoRow \in Places /\ NoRow.req = NO_REQUEST
      /\ NoEntry \in [st : States, out : Nat] /\ NoEntry.st = "none" /\ NoEntry.out = 0
      /\ NoSerial \in Serials /\ NoSerial.req = NO_REQUEST
      /\ NoAsk \in [steps : Nat, fits : BOOLEAN, temp : Nat]
      /\ <<>> \in Seq(Requests) /\ <<>> \in Seq(Nat)
    BY TheStreams DEF NoRow, Places, NoEntry, States, NoSerial, Serials, NoAsk
<1>2. /\ svc \in Books
      /\ svc.row = [i \in Rows |-> NoRow] /\ svc.queue = <<>>
      /\ svc.eng = [r \in Streams |-> NoEntry] /\ svc.serial = NoSerial /\ ~svc.err
    BY <1>1 DEF Init, NewService, Books
<1>3. TypeOK
    BY <1>1, <1>2, TheStreams DEF Init, TypeOK
<1>4. /\ \A s \in Streams : ~InRow(svc, s) /\ ~Waits(svc, s) /\ ~Held(svc, s)
      /\ \A s \in Streams : svc.eng[s].st = "none" /\ svc.eng[s].out = 0
    BY <1>1, <1>2, TheStreams DEF InRow, Waits, Held
<1>5. OnePlace(svc)
    BY <1>1, <1>2 DEF OnePlace
<1>6. Known(svc)
    BY <1>4 DEF Known
<1>7. Len(svc.queue) <= MAX_CONNS /\ InTurn(svc)
    BY <1>2, TheStreams DEF InTurn
<1>8. ASSUME NEW s \in Streams PROVE InStep(s)
    BY <1>4 DEF Init, InStep, Telling, IsOwn
<1> QED
    BY <1>2, <1>3, <1>5, <1>6, <1>7, <1>8 DEF IInv, Tables, Sound, CallHasRow, Init

LEMMA NextHolds ==
    IInv /\ [Next]_vars => IInv'
<1> SUFFICES ASSUME IInv, [Next]_vars PROVE IInv'
    OBVIOUS
<1>1. CASE UNCHANGED vars
    BY <1>1 DEF vars, IInv, TypeOK, Tables, CallHasRow, InStep, Telling, IsOwn
<1>2. ASSUME NEW r \in Streams, NEW q \in Asks[r] \cup {NoAsk}, begin_stream(r, q)
      PROVE  IInv'
    BY <1>2, BeginStep
<1>3. ASSUME NEW r \in Streams,
             complete(r) \/ stream_next(r) \/ batch_tick(r) \/ batch_next(r) \/ drop(r)
      PROVE  IInv'
    BY <1>3, CompleteStep, RoleStep, TextStep, DoneStep, CloseStep, TickStep, NextStep, DropStep
       DEF stream_next
<1> QED
    BY <1>1, <1>2, <1>3 DEF Next

\* At most one of a set whose members are all the same.
LEMMA OneOrNone ==
    ASSUME NEW S, \A x, y \in S : x = y
    PROVE  Cardinality(S) = IF S = {} THEN 0 ELSE 1
<1>1. CASE S = {}
    BY <1>1, FS_EmptySet
<1>2. CASE S # {}
    <2>1. PICK x : S = {x}
        BY <1>2
    <2> QED
        BY <1>2, <2>1, FS_Singleton
<1> QED
    BY <1>1, <1>2

LEMMA TablesFollow ==
    IInv => TablesAgree
<1> SUFFICES ASSUME IInv PROVE TablesAgree
    OBVIOUS
<1>1. svc \in Books /\ Sound(svc) /\ InTurn(svc) /\ \A r \in Streams : InStep(r)
    BY DEF IInv, TypeOK, Tables
<1>2. Entries(svc) \subseteq {svc.row[i].req : i \in Rows}
    BY <1>1 DEF Sound, Known, Entries, InRow
<1>3. ASSUME NEW r \in Streams
      PROVE  Cardinality({i \in Rows : svc.row[i].req = r})
               + Cardinality({k \in DOMAIN svc.queue : svc.queue[k] = r})
               + (IF svc.serial.req = r THEN 1 ELSE 0) <= 1
    <2> DEFINE A == {i \in Rows : svc.row[i].req = r}
               B == {k \in DOMAIN svc.queue : svc.queue[k] = r}
    <2>1. r # NO_REQUEST
        BY TheStreams
    <2>2. \A i, j \in A : i = j
        BY <1>1, <2>1 DEF Sound, OnePlace
    <2>3. \A k, l \in B : k = l
        BY <1>1, <2>1 DEF Sound, OnePlace
    <2>4. A # {} => B = {}
        BY <1>1, <2>1 DEF Sound, OnePlace
    <2>5. svc.serial.req = r => A = {} /\ B = {}
        BY <1>1, <2>1 DEF Sound, OnePlace, InRow, Waits
    <2> HIDE DEF A, B
    <2>6. /\ Cardinality(A) = IF A = {} THEN 0 ELSE 1
          /\ Cardinality(B) = IF B = {} THEN 0 ELSE 1
        BY <2>2, <2>3, OneOrNone
    <2>7. Cardinality(A) + Cardinality(B) + (IF svc.serial.req = r THEN 1 ELSE 0) <= 1
        BY <2>4, <2>5, <2>6
    <2> QED
        BY <2>7 DEF A, B
<1>4. ASSUME NEW r \in InService(svc) PROVE phase[r] # "idle"
    <2>1. r # NO_REQUEST /\ (InRow(svc, r) \/ Waits(svc, r) \/ svc.serial.req = r)
        BY DEF InService, InRow, Waits, Range
    <2>2. r \in Requests
        <3>1. svc.queue \in Seq(Requests) /\ svc.row \in [Rows -> Places] /\ svc.serial \in Serials
            BY <1>1 DEF Books
        <3> QED
            BY <2>1, <3>1 DEF Places, Serials, InRow, Waits
    <2> QED
        BY <1>1, <2>1, <2>2, TheStreams DEF InStep, Held
<1> QED
    BY <1>1, <1>2, <1>3, <1>4 DEF TablesAgree, Sound, InTurn

\* The invariant, whatever the connections do and whatever the engine refuses,
\* preempts or fails at.
THEOREM Invariance == Spec => []IInv
<1>1. Init => IInv
    BY InitHolds
<1>2. IInv /\ [Next]_vars => IInv'
    BY NextHolds
<1> QED
    BY <1>1, <1>2, PTL DEF Spec

THEOREM TypeCorrect == Spec => []TypeOK
<1>1. IInv => TypeOK
    BY DEF IInv
<1> QED
    BY <1>1, Invariance, PTL

\* Rows, queue, engine and stream phases agree: the engine serves nobody the
\* table does not know, no stream is in two places or outlives its slot, and
\* nobody waits while a row is free.
THEOREM TheTablesAgree == Spec => []TablesAgree
<1>1. IInv => TablesAgree
    BY TablesFollow
<1> QED
    BY <1>1, Invariance, PTL

\* What is sent on a connection is the beginning of its own answer, in order
\* and without gap or repetition, but for the three ways svc.upset names.
THEOREM AnswersAreOwn == Spec => []OwnAnswerUnlessUpset
<1>1. IInv => OwnAnswerUnlessUpset
    BY DEF IInv, InStep, OwnAnswerUnlessUpset
<1> QED
    BY <1>1, Invariance, PTL
=============================================================================
