--------------------------- MODULE ExecutorTraces ---------------------------
(***************************************************************************)
(* The operation lists of scripts/dump_batch_executor_reference.py with    *)
(* the answers recorded under tests/fixtures/batchexec: the slot and the   *)
(* queue of a request, the rows of a step, the histories and queues of the *)
(* resident requests; the digest is left out.                              *)
(***************************************************************************)
EXTENDS Integers, Sequences, SequencesExt

ADD(r, budget, tokens, R) ==                               \* R = i n
    [op |-> "ADD", r |-> r, budget |-> budget, tokens |-> tokens, R |-> R]
DROP(r, R)      == [op |-> "DROP", r |-> r, R |-> R]       \* R = i
NEXT(chosen, R) == [op |-> "NEXT", chosen |-> chosen, R |-> R]   \* R = h p
FIN             == [op |-> "FIN", R |-> <<0>>]             \* R = u

PLAN(R, rows) == [op |-> "PLAN", R |-> R, rows |-> rows]   \* R = T n u, ROW lines

\* Consecutive ROW lines of one request, from position p on.
Run(r, tokens, p) ==
    [i \in DOMAIN tokens |-> [req |-> r, tok |-> tokens[i], pos |-> p + i - 1]]

\* seq() of the script: count ids from start on, inside the toy vocabulary.
seq(start, count) == [i \in 1 .. count |-> (start + i - 1) % 15]

Refused(name) == <<name>>
-----------------------------------------------------------------------------
\* Two prompts of different length: one run of rows after the other.
e01_two_requests ==
    << ADD(7, 4, <<1, 2, 3>>, <<0, 3>>), ADD(9, 4, <<4, 5>>, <<1, 2>>),
       PLAN(<<5, 2, 3008>>, Run(7, <<1, 2, 3>>, 0) \o Run(9, <<4, 5>>, 0)), FIN,
       NEXT(<<6, 7>>, <<<<3, 2>>, <<1, 1>>>>),
       PLAN(<<2, 2, 1344>>, Run(7, <<6>>, 3) \o Run(9, <<7>>, 2)), FIN,
       NEXT(<<8, 9>>, <<<<4, 3>>, <<1, 1>>>>),
       PLAN(<<2, 2, 1344>>, Run(7, <<8>>, 4) \o Run(9, <<9>>, 3)), FIN,
       NEXT(<<10, 11>>, <<<<5, 4>>, <<1, 1>>>>),
       PLAN(<<2, 2, 1344>>, Run(7, <<10>>, 5) \o Run(9, <<11>>, 4)), FIN >>

\* The middle one of three leaves, and the next takes its slot and rows.
e02_hole_after_drop ==
    << ADD(1, 4, <<1, 2>>, <<0, 2>>), ADD(2, 4, <<3, 4, 5>>, <<1, 3>>),
       ADD(3, 4, <<6, 7>>, <<2, 2>>),
       PLAN(<<7, 3, 4096>>, Run(1, <<1, 2>>, 0) \o Run(2, <<3, 4, 5>>, 0) \o Run(3, <<6, 7>>, 0)),
       FIN, NEXT(<<8, 9, 10>>, <<<<2, 3, 2>>, <<1, 1, 1>>>>), DROP(2, <<1>>),
       ADD(4, 4, <<11, 12>>, <<1, 2>>),
       PLAN(<<4, 3, 2240>>, Run(1, <<8>>, 2) \o Run(4, <<11, 12>>, 0) \o Run(3, <<10>>, 2)),
       FIN, NEXT(<<12, -1, 13, 14>>, <<<<3, 2, 3>>, <<1, 0, 1>>>>),
       PLAN(<<2, 2, 1344>>, Run(1, <<12>>, 3) \o Run(3, <<13>>, 3)), FIN >>

\* Three prompts longer together than the block: the last one waits.
e03_more_than_one_step ==
    << ADD(1, 8, seq(1, 10), <<0, 10>>), ADD(2, 8, seq(5, 10), <<1, 10>>),
       PLAN(<<16, 2, 7872>>, Run(1, seq(1, 10), 0) \o Run(2, seq(5, 6), 0)), FIN,
       NEXT(<<11, 12>>, <<<<10, 6>>, <<1, 4>>>>),
       PLAN(<<5, 2, 3008>>, Run(1, <<11>>, 10) \o Run(2, seq(11, 4), 6)), FIN,
       NEXT(<<13, 14>>, <<<<11, 10>>, <<1, 1>>>>),
       PLAN(<<2, 2, 1344>>, Run(1, <<13>>, 11) \o Run(2, <<14>>, 10)), FIN,
       NEXT(<<15, 1>>, <<<<12, 11>>, <<1, 1>>>>),
       PLAN(<<2, 2, 1344>>, Run(1, <<15>>, 12) \o Run(2, <<1>>, 11)), FIN >>

\* Eight requests are resident: the ninth is refused.
e04_batch_full ==
    [i \in 1 .. 8 |-> ADD(99 + i, 4, seq(i, 2), <<i - 1, 2>>)]
    \o << ADD(999, 4, seq(1, 2), Refused("capacity")),
          PLAN(<<16, 8, 8448>>, FlattenSeq([i \in 1 .. 8 |-> Run(99 + i, seq(i, 2), 0)])), FIN >>

\* A prompt longer than a step is refused, not cut.
e05_prompt_longer_than_a_step ==
    << ADD(5, 4, seq(1, 17), Refused("capacity")), PLAN(<<0, 0, 0>>, <<>>), FIN >>

\* A history reaches the end of its region: the plan refuses.
e06_history_outgrows_its_region ==
    << ADD(7, 40, seq(1, 16), <<0, 16>>), PLAN(<<16, 1, 7808>>, Run(7, seq(1, 16), 0)), FIN >>
    \o FlattenSeq([i \in 1 .. 8 |->
          << NEXT(<<1>>, << <<15 + i>>, <<1>> >>), PLAN(<<1, 1, 1024>>, Run(7, <<1>>, 15 + i)), FIN >>])
    \o << NEXT(<<1>>, << <<24>>, <<1>> >>), PLAN(Refused("capacity"), <<>>), FIN >>
=============================================================================
