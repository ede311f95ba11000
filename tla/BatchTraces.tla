----------------------------- MODULE BatchTraces -----------------------------
(***************************************************************************)
(* The operation lists of scripts/dump_batch_reference.py, each operation  *)
(* with the answer recorded for it under tests/fixtures/batch: the fields  *)
(* of the trace line without the digest, or the name of the refusal.       *)
(***************************************************************************)
EXTENDS Integers, Sequences

get(size, R) == [op |-> "get", size |-> size, R |-> R]       \* R = o h u n
rel(h, R)    == [op |-> "rel", h |-> h, R |-> R]             \* R = o u n
clr(R)       == [op |-> "clr", R |-> R]                      \* R = u n
add(r, n, R) == [op |-> "add", r |-> r, n |-> n, R |-> R]    \* R = t N b
del(r, R)    == [op |-> "del", r |-> r, R |-> R]             \* R = t N b

Refused(name) == <<name>>
-----------------------------------------------------------------------------
\* Two steps over three requests with a swap in between: the scratch of the
\* second step lies where that of the first did.
s01_executor_step ==
    << add(1, 3, <<0, 3, 1>>), add(2, 5, <<3, 8, 2>>), add(3, 2, <<8, 10, 3>>),
       get(35840, <<0, 0, 35840, 1>>), get(400, <<35840, 1, 36288, 2>>),
       rel(1, <<35840, 35840, 1>>), rel(0, <<0, 0, 0>>), del(2, <<3, 5, 2>>),
       add(4, 5, <<3, 10, 3>>), get(35840, <<0, 0, 35840, 1>>),
       get(400, <<35840, 1, 36288, 2>>), rel(1, <<35840, 35840, 1>>),
       rel(0, <<0, 0, 0>>), del(1, <<0, 7, 2>>), del(3, <<8, 5, 1>>),
       del(4, <<3, 0, 0>>), clr(<<0, 0>>) >>

\* The middle one of three regions is freed first and filled again.
s02_interleaved_lifetimes ==
    << get(3584, <<0, 0, 3584, 1>>), get(19456, <<3584, 1, 23040, 2>>),
       get(512, <<23040, 2, 23552, 3>>), rel(1, <<3584, 4096, 2>>),
       get(19456, <<3584, 1, 23552, 3>>), rel(0, <<0, 19968, 2>>),
       get(3584, <<0, 0, 23552, 3>>), rel(2, <<23040, 23040, 2>>),
       rel(1, <<3584, 3584, 1>>), rel(0, <<0, 0, 0>>) >>

\* Every other one of sixteen regions is given back: two at once do not fit.
s03_room_but_not_contiguous ==
    [i \in 1 .. 16 |-> get(16384, <<(i - 1) * 16384, i - 1, i * 16384, i>>)]
    \o [i \in 1 .. 8 |-> rel(2 * i - 1, <<(2 * i - 1) * 16384, (16 - i) * 16384, 16 - i>>)]
    \o << get(32768, Refused("capacity")), get(16384, <<16384, 1, 147456, 9>>),
          clr(<<0, 0>>) >>

\* A newcomer takes the rows of one that left.
s04_batch_turnover ==
    << add(7, 12, <<0, 12, 1>>), add(8, 7, <<12, 19, 2>>),
       add(9, 9, <<19, 28, 3>>), add(10, 5, <<28, 33, 4>>),
       del(8, <<12, 26, 3>>), add(11, 7, <<12, 33, 4>>),
       del(10, <<28, 28, 3>>), add(12, 3, <<28, 31, 4>>), del(7, <<0, 19, 3>>),
       del(9, <<19, 10, 2>>), del(11, <<12, 3, 1>>), del(12, <<28, 0, 0>>) >>

\* A large hole below and a small one above: the lower one is taken.
s05_two_holes ==
    << get(65536, <<0, 0, 65536, 1>>), get(65536, <<65536, 1, 131072, 2>>),
       get(8192, <<131072, 2, 139264, 3>>), rel(0, <<0, 73728, 2>>),
       rel(1, <<65536, 8192, 1>>), get(8192, <<0, 0, 16384, 2>>),
       rel(2, <<131072, 8192, 1>>), rel(0, <<0, 0, 0>>), clr(<<0, 0>>) >>

\* Every refusal has a name.
s06_refusals_are_named ==
    << rel(5, Refused("double_free")), get(0, Refused("invalid_argument")),
       add(4, 1, <<0, 1, 1>>), add(4, 1, Refused("invalid_argument")),
       del(99, Refused("invalid_argument")) >>

\* The twenty-fifth lease is refused.
s07_handle_pressure ==
    [i \in 1 .. 24 |-> get(64, <<(i - 1) * 64, i - 1, i * 64, i>>)]
    \o << get(64, Refused("capacity")), rel(0, <<0, 1472, 23>>),
          get(64, <<0, 0, 1536, 24>>) >>
=============================================================================
