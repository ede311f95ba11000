------------------------------ MODULE KvTraces ------------------------------
(***************************************************************************)
(* The operation lists of scripts/dump_kv_reference.py (s01 ..) and of     *)
(* scripts/dump_kv_room_reference.py (r01 ..), each operation with the     *)
(* answer recorded for it under tests/fixtures/kv and tests/fixtures/      *)
(* kvroom.  An answer lists the fields of the trace line in their order,   *)
(* the number of used blocks last; the digest and, in the s traces, the    *)
(* number of free blocks are left out.                                     *)
(***************************************************************************)
EXTENDS Integers, Sequences

Dash == -1     \* a field that says nothing

NEWREQ(r, T, R) ==                                         \* R = m o S A u
    [op |-> "NEW", r |-> r, T |-> T, R |-> R]
COM(r, R)    == [op |-> "COM", r |-> r, R |-> R]            \* R = m N S u
MAT(T, R)    == [op |-> "MAT", T |-> T, R |-> R]            \* R = m H o u
APP(r, n, R) == [op |-> "APP", r |-> r, n |-> n, R |-> R]   \* R = A u
REL(r, R)    == [op |-> "REL", r |-> r, R |-> R]            \* R = X u
EVI(v, R)    == [op |-> "EVI", v |-> v, R |-> R]            \* R = X u

\* In the r traces R = u f c: used blocks, free blocks, cached blocks.
ADM(r, T, n, R) == [op |-> "ADM", r |-> r, T |-> T, n |-> n, R |-> R]
EXT(r, n, R)    == [op |-> "EXT", r |-> r, n |-> n, R |-> R]
PUB(r, R)       == [op |-> "PUB", r |-> r, R |-> R]
DRP(r, R)       == [op |-> "DRP", r |-> r, R |-> R]
REC(need, R)    == [op |-> "REC", need |-> need, R |-> R]

P == [i \in 1 .. 20 |-> i]             \* a 20-token prompt
Q == [i \in 1 .. 40 |-> 99 + i]        \* a 40-token prompt

First(s, n)   == SubSeq(s, 1, n)
From(tok, n)  == [i \in 1 .. n |-> tok + i - 1]
Times(tok, n) == [i \in 1 .. n |-> tok]

\* A reproducible prompt: base says where it begins.
prompt_tokens(base, n) == [i \in 1 .. n |-> ((base + i - 1) % 30000) + 1]
-----------------------------------------------------------------------------
\* Three requests over one cached prompt: share, diverge, match again.
s01_prompt_sharing ==
    << NEWREQ(1, P, <<0, Dash, <<>>, <<0, 1>>, 2>>),
       COM(1, <<0, <<1, 2>>, <<0, 1>>, 2>>), MAT(P, <<20, 2, 0, 2>>),
       NEWREQ(2, First(P, 5) \o <<50>>, <<5, 0, <<0>>, <<2>>, 3>>),
       COM(2, <<5, <<3, 4>>, <<2>>, 3>>),
       NEWREQ(3, P \o <<99>>, <<20, 0, <<0, 1>>, <<3>>, 4>>),
       COM(3, <<20, <<5>>, <<3>>, 4>>), REL(1, <<<<>>, 4>>),
       REL(2, <<<<>>, 4>>), REL(3, <<<<>>, 4>>), MAT(P, <<20, 2, 0, 4>>),
       MAT(First(P, 5) \o <<50>>, <<6, 4, 0, 4>>) >>

\* Two divergences inside one cached node: splitting moves no block.
s02_split_divergence ==
    << NEWREQ(1, Times(7, 8), <<0, Dash, <<>>, <<0>>, 1>>),
       COM(1, <<0, <<1>>, <<0>>, 1>>),
       NEWREQ(2, <<7, 7, 7, 8>>, <<3, 0, <<0>>, <<1>>, 2>>),
       COM(2, <<3, <<2, 3>>, <<1>>, 2>>),
       NEWREQ(3, Times(7, 7) \o <<9>>, <<7, 0, <<0>>, <<2>>, 3>>),
       COM(3, <<7, <<4, 5>>, <<2>>, 3>>),
       MAT(Times(7, 7) \o <<9>>, <<8, 5, 0, 3>>),
       MAT(<<7, 7, 7, 8>>, <<4, 3, 0, 3>>), MAT(<<7, 7>>, <<2, 1, 0, 3>>),
       REL(1, <<<<>>, 3>>), REL(2, <<<<>>, 3>>), REL(3, <<<<>>, 3>>),
       EVI(1, <<<<0, 2, 1>>, 0>>), MAT(Times(7, 8), <<0, Dash, Dash, 0>>) >>

\* A prompt longer than a node becomes a chain, split in its middle later.
s03_long_prompt_chain ==
    << NEWREQ(1, Q, <<0, Dash, <<>>, <<0, 1, 2>>, 3>>),
       COM(1, <<0, <<1, 2, 3>>, <<0, 1, 2>>, 3>>),
       MAT(First(Q, 20), <<20, 2, 0, 3>>),
       NEWREQ(2, First(Q, 20) \o <<200>>, <<20, 0, <<0, 1>>, <<3>>, 4>>),
       COM(2, <<20, <<4, 5>>, <<3>>, 4>>),
       NEWREQ(3, First(Q, 5) \o <<201>>, <<5, 0, <<0>>, <<4>>, 5>>),
       COM(3, <<5, <<6, 7>>, <<4>>, 5>>), REL(1, <<<<>>, 5>>),
       REL(2, <<<<>>, 5>>), REL(3, <<<<>>, 5>>), MAT(Q, <<40, 3, 0, 5>>),
       MAT(First(Q, 5) \o <<201>>, <<6, 7, 0, 5>>) >>

\* A request grows in place while its last block is its own.
s04_append_grow ==
    << NEWREQ(1, <<11, 12, 13>>, <<0, Dash, <<>>, <<0>>, 1>>),
       APP(1, 5, <<<<>>, 1>>), APP(1, 10, <<<<1>>, 2>>),
       COM(1, <<0, <<1, 2>>, <<0, 1>>, 2>>),
       MAT(<<11, 12, 13>>, <<3, 1, 0, 2>>),
       NEWREQ(2, From(11, 18), <<3, 0, <<0>>, <<2>>, 3>>),
       APP(2, 4, <<<<3>>, 4>>), COM(2, <<3, <<3, 4, 5>>, <<2, 3>>, 4>>),
       REL(2, <<<<>>, 4>>), REL(1, <<<<>>, 4>>),
       MAT(<<11, 12, 13>>, <<3, 1, 0, 4>>) >>

\* A subtree is evicted; the free stack hands its blocks out again in order.
s05_evict_and_reuse ==
    << NEWREQ(1, First(P, 10), <<0, Dash, <<>>, <<0>>, 1>>),
       COM(1, <<0, <<1>>, <<0>>, 1>>),
       NEWREQ(2, First(P, 10) \o <<21>>, <<10, 0, <<0>>, <<1>>, 2>>),
       COM(2, <<10, <<2>>, <<1>>, 2>>),
       NEWREQ(3, First(P, 10) \o <<22>>, <<10, 0, <<0>>, <<2>>, 3>>),
       COM(3, <<10, <<3>>, <<2>>, 3>>), REL(1, <<<<>>, 3>>),
       REL(2, <<<<>>, 3>>), REL(3, <<<<>>, 3>>),
       MAT(First(P, 10) \o <<21>>, <<11, 2, 0, 3>>),
       EVI(1, <<<<0, 1, 2>>, 0>>), MAT(First(P, 10), <<0, Dash, Dash, 0>>),
       NEWREQ(4, First(P, 10), <<0, Dash, <<>>, <<2>>, 1>>),
       COM(4, <<0, <<1>>, <<2>>, 1>>), REL(4, <<<<>>, 1>>) >>

\* Blocks of four tokens: sharing ends inside a block.
s06_small_blocks ==
    << NEWREQ(1, P, <<0, Dash, <<>>, <<0, 1, 2, 3, 4>>, 5>>),
       COM(1, <<0, <<1, 2>>, <<0, 1, 2, 3, 4>>, 5>>),
       NEWREQ(2, First(P, 10) \o <<99>>, <<10, 0, <<0, 1, 2>>, <<5>>, 6>>),
       COM(2, <<10, <<3, 4>>, <<5>>, 6>>), APP(2, 3, <<<<6>>, 7>>),
       REL(1, <<<<>>, 7>>),
       NEWREQ(3, First(P, 10), <<10, 0, <<0, 1, 2>>, <<>>, 7>>),
       COM(3, <<10, <<>>, <<>>, 7>>), REL(2, <<<<6>>, 6>>),
       REL(3, <<<<>>, 6>>), MAT(P, <<20, 2, 0, 6>>),
       MAT(First(P, 10) \o <<99>>, <<11, 4, 0, 6>>) >>

\* A block shared by a node and its continuation: both must let go.
s07_refcount_pressure ==
    << NEWREQ(1, First(P, 12) \o <<31>>, <<0, Dash, <<>>, <<0>>, 1>>),
       COM(1, <<0, <<1>>, <<0>>, 1>>),
       NEWREQ(2, First(P, 12) \o <<32>>, <<12, 0, <<0>>, <<1>>, 2>>),
       COM(2, <<12, <<2, 3>>, <<1>>, 2>>), REL(1, <<<<>>, 2>>),
       NEWREQ(3, First(P, 12) \o <<33>>, <<12, 0, <<0>>, <<2>>, 3>>),
       COM(3, <<12, <<4>>, <<2>>, 3>>), REL(2, <<<<>>, 3>>),
       EVI(2, <<<<>>, 3>>), MAT(First(P, 12) \o <<31>>, <<12, 1, 0, 3>>),
       EVI(1, <<<<1>>, 2>>), MAT(First(P, 12), <<0, Dash, Dash, 2>>),
       REL(3, <<<<0, 2>>, 0>>) >>

-----------------------------------------------------------------------------
\* The same prompt again needs no new block.
r01_second_prompt_is_free ==
    << ADM(1, prompt_tokens(1000, 32), 32, <<2, 110, 0>>),
       PUB(1, <<2, 110, 0>>), DRP(1, <<2, 110, 2>>),
       ADM(2, prompt_tokens(1000, 32), 32, <<2, 110, 0>>),
       EXT(2, 1, <<3, 109, 0>>), PUB(2, <<3, 109, 0>>), DRP(2, <<3, 109, 3>>) >>

\* A prompt in two slices, published when it is complete.
r02_sliced_prompt ==
    << ADM(1, prompt_tokens(2000, 32), 16, <<1, 111, 0>>),
       EXT(1, 16, <<2, 110, 0>>), PUB(1, <<2, 110, 0>>), DRP(1, <<2, 110, 2>>),
       ADM(2, prompt_tokens(2000, 32), 16, <<2, 110, 1>>),
       EXT(2, 16, <<3, 109, 1>>), PUB(2, <<3, 109, 1>>), DRP(2, <<2, 110, 2>>) >>

\* Token by token.
r03_decode_growth ==
    << ADM(1, prompt_tokens(3000, 8), 8, <<1, 111, 0>>),
       EXT(1, 1, <<1, 111, 0>>), EXT(1, 1, <<1, 111, 0>>),
       EXT(1, 1, <<1, 111, 0>>), PUB(1, <<1, 111, 0>>), DRP(1, <<1, 111, 1>>) >>

\* A pool full of cache is emptied bit by bit, then asked once more.
r04_evict_returns_cache ==
    << ADM(1, prompt_tokens(4100, 64), 64, <<4, 108, 0>>),
       PUB(1, <<4, 108, 0>>), DRP(1, <<4, 108, 4>>),
       ADM(2, prompt_tokens(4200, 64), 64, <<8, 104, 4>>),
       PUB(2, <<8, 104, 4>>), DRP(2, <<8, 104, 8>>),
       ADM(3, prompt_tokens(4300, 64), 64, <<12, 100, 8>>),
       PUB(3, <<12, 100, 8>>), DRP(3, <<12, 100, 12>>),
       ADM(4, prompt_tokens(4400, 64), 64, <<16, 96, 12>>),
       PUB(4, <<16, 96, 12>>), DRP(4, <<16, 96, 16>>),
       ADM(5, prompt_tokens(4500, 64), 64, <<20, 92, 16>>),
       PUB(5, <<20, 92, 16>>), DRP(5, <<20, 92, 20>>),
       ADM(6, prompt_tokens(4600, 64), 64, <<24, 88, 20>>),
       PUB(6, <<24, 88, 20>>), DRP(6, <<24, 88, 24>>), REC(4, <<20, 92, 20>>),
       REC(8, <<12, 100, 12>>), REC(64, <<0, 112, 0>>), REC(4, <<0, 112, 0>>) >>

\* Publishing and hitting, with a reclaim in between.
r05_hit_then_reclaim ==
    << ADM(1, prompt_tokens(5000, 48), 16, <<1, 111, 0>>),
       EXT(1, 32, <<3, 109, 0>>), PUB(1, <<3, 109, 0>>), DRP(1, <<3, 109, 3>>),
       ADM(2, prompt_tokens(5000, 48), 48, <<5, 107, 2>>),
       PUB(2, <<5, 107, 2>>), DRP(2, <<5, 107, 5>>),
       ADM(3, prompt_tokens(5000, 48), 24, <<5, 107, 3>>),
       EXT(3, 24, <<7, 105, 3>>), REC(2, <<5, 107, 1>>), PUB(3, <<5, 107, 1>>),
       DRP(3, <<3, 109, 3>>) >>
=============================================================================
