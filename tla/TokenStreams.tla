---------------------------- MODULE TokenStreams ----------------------------
(***************************************************************************)
(* What batching promises a request: the tokens it was given are run       *)
(* through the model in order, each once, from the first that others have  *)
(* not run before it on, and once the whole prompt has been run every step *)
(* that catches up with the text adds one answer to it - as if the request *)
(* were alone.  How many tokens of which requests one step takes is left   *)
(* open.                                                                   *)
(***************************************************************************)
EXTENDS Integers, Sequences, FiniteSets

CONSTANTS Requests,   \* request ids
          Tokens,     \* token ids
          MAX_GEN     \* answers a transcript keeps

VARIABLE stream       \* stream[r]: [open, text, done, want, out, left]

Closed == [ open |-> FALSE, text |-> <<>>, done |-> 0, want |-> 0,
            out |-> <<>>, left |-> 0 ]

IsOpen(r) == stream[r].open

Init == stream = [r \in Requests |-> Closed]

\* A request arrives with the first part of a prompt of want tokens.  Some of
\* it may be done, but never all: the last token's run is the first answer's.
Open(r) ==
    /\ ~IsOpen(r)
    /\ stream'[r].open
    /\ stream'[r].done \in 0 .. Len(stream'[r].text) - 1
    /\ stream'[r].out = <<>>
    /\ Len(stream'[r].text) <= stream'[r].want
    /\ \A other \in Requests \ {r} : stream'[other] = stream[other]

\* It is given one more token of its prompt.
Give(r) ==
    /\ IsOpen(r)
    /\ Len(stream[r].text) < stream[r].want
    /\ \E tok \in Tokens : stream' = [stream EXCEPT ![r].text = Append(@, tok)]

Close(r) ==
    /\ IsOpen(r)
    /\ stream' = [stream EXCEPT ![r] = Closed]

\* n tokens have been run.  When that was the whole text, and the prompt is
\* complete, the answer tok is recorded and becomes the next token to run,
\* unless it was the last one asked for.
Ran(q, n) == [q EXCEPT !.done = @ + n]

Answered(q, tok) ==
    [q EXCEPT !.out  = IF Len(@) < MAX_GEN THEN Append(@, tok) ELSE @,
              !.left = @ - 1,
              !.text = IF q.left > 1 THEN Append(@, tok) ELSE @]

Owed(q) == q.done = Len(q.text) /\ q.done >= q.want

Served(r) ==
    \E n \in 1 .. Len(stream[r].text) - stream[r].done :
        LET q == Ran(stream[r], n)
        IN  IF Owed(q) THEN \E tok \in Tokens : stream'[r] = Answered(q, tok)
                       ELSE stream'[r] = q

\* One step of the model for some of the requests.
Compute ==
    /\ stream' \in [Requests -> {stream'[r] : r \in Requests}]
    /\ \E S \in SUBSET {r \in Requests : IsOpen(r)} :
         /\ S # {}
         /\ \A r \in S : Served(r)
         /\ \A r \in Requests \ S : stream'[r] = stream[r]

Next == Compute \/ \E r \in Requests : Open(r) \/ Give(r) \/ Close(r)

Spec == Init /\ [][Next]_stream
=============================================================================
