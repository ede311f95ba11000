-------------------------------- MODULE Paged --------------------------------
(***************************************************************************)
(* kernels/cpu/paged.mojo: where the rows of a paged context are.  One     *)
(* call writes the n rows of a step into the cache at positions first ..   *)
(* first + n - 1 of a page table (paged_scatter) and then attends over     *)
(* what the table holds up to there (paged_attention).                     *)
(*                                                                         *)
(* The cache is a flat array of elements, as in the kernel; its elements   *)
(* and the rows written are numbers no two of which are equal, so that     *)
(* what a read returned tells where it read.  The reference implementation *)
(* (scripts/dump_paged_scatter_reference.py, dump_paged_reference.py)      *)
(* spreads the runs out into positions first; attention is what it reads.  *)
(***************************************************************************)
EXTENDS Integers, Sequences, SequencesExt, FiniteSets, FiniteSetsExt

CONSTANTS n_heads, n_kv_heads, head_dim,
          PagedCalls    \* [block_size, n_blocks, runs, first, n] each

ASSUME PagedAssumption ==
    /\ n_heads \in Nat \ {0} /\ n_kv_heads \in Nat \ {0} /\ head_dim \in Nat \ {0}
    /\ n_heads % n_kv_heads = 0

kv_cols == n_kv_heads * head_dim
group   == n_heads \div n_kv_heads

VARIABLES paged,     \* the call
          cache,     \* element offset -> value
          put,       \* rows written
          read,      \* what each head of each row attends over
          phase

paging == <<paged, cache, put, read, phase>>

BAD_OFFSET == -1

n_tokens(runs) == FoldLeft(LAMBDA total, run : total + run.len, 0, runs)

\* The run position j falls into; the runs before it count.
RunOf(runs, j) ==
    {i \in DOMAIN runs : /\ n_tokens(SubSeq(runs, 1, i - 1)) <= j
                         /\ j < n_tokens(SubSeq(runs, 1, i))}

RowOffsetFromZero(runs, block_size, j) ==
    IF RunOf(runs, j) = {} THEN BAD_OFFSET
    ELSE LET i == Min(RunOf(runs, j))
         IN  (runs[i].block * block_size + j - n_tokens(SubSeq(runs, 1, i - 1))) * kv_cols

row_offset(runs, block_size, j) ==
    IF RunOf(runs, j) = {} THEN BAD_OFFSET
    ELSE LET i == Min(RunOf(runs, j))
             s == runs[i].start + j - n_tokens(SubSeq(runs, 1, i - 1))
         IN  (runs[i].block * block_size + s) * kv_cols

check_table(runs, block_size, n_blocks) ==
    \A i \in DOMAIN runs :
        /\ runs[i].start >= 0
        /\ runs[i].len > 0
        /\ runs[i].start + runs[i].len <= block_size
        /\ runs[i].block \in 0 .. n_blocks - 1

\* The table cut down to its first upto positions.
table_of(runs, upto) ==
    LET left(i) == upto - n_tokens(SubSeq(runs, 1, i - 1))
        used    == SelectSeq([i \in DOMAIN runs |-> i], LAMBDA i : left(i) > 0)
    IN  [i \in DOMAIN used |->
            [runs[used[i]] EXCEPT !.len = Min({@, left(used[i])})]]

table == table_of(paged.runs, paged.first + paged.n)

\* Element c of row j of what is written: no value the cache starts with.
src(j, c) == -(j * kv_cols + c) - 1

PagedInit(calls) ==
    /\ paged \in calls
    /\ cache = [o \in 0 .. paged.n_blocks * paged.block_size * kv_cols - 1 |-> o]
    /\ put = 0
    /\ read = <<>>
    /\ phase = "asked"

Check ==
    /\ phase = "asked"
    /\ phase' = IF /\ check_table(table, paged.block_size, paged.n_blocks)
                   /\ paged.first + paged.n <= n_tokens(table)
                THEN "writing" ELSE "refused"
    /\ UNCHANGED <<paged, cache, put, read>>

ScatterRow ==
    /\ phase = "writing"
    /\ put < paged.n
    /\ LET dst == row_offset(table, paged.block_size, paged.first + put)
       IN  cache' = [o \in DOMAIN cache |->
                        IF o \in dst .. dst + kv_cols - 1 THEN src(put, o - dst) ELSE cache[o]]
    /\ put' = put + 1
    /\ UNCHANGED <<paged, read, phase>>

\* Row t is the context's position kv_len - n + t and sees up to there; query
\* head h reads the columns of KV head h \div group.
Attend ==
    /\ phase = "writing"
    /\ put = paged.n
    /\ LET kv_len == n_tokens(table)
       IN  read' = [h \in 0 .. n_heads - 1 |-> [t \in 0 .. paged.n - 1 |->
                       [j \in 0 .. kv_len - paged.n + t |-> [d \in 0 .. head_dim - 1 |->
                           cache[row_offset(table, paged.block_size, j)
                                    + (h \div group) * head_dim + d]]]]]
    /\ phase' = "read"
    /\ UNCHANGED <<paged, cache, put>>

PagedNext == Check \/ ScatterRow \/ Attend
-----------------------------------------------------------------------------
(* The reference: positions spread out, then rows one after another *)

Layout(runs) ==
    FlattenSeq([i \in DOMAIN runs |->
        [k \in 1 .. runs[i].len |-> runs[i].block * paged.block_size + runs[i].start + k - 1]])

\* The last of the rows put that belongs to a block slot, if there is one.
scatter_ref(runs, first, rows) ==
    LET layout == Layout(runs)
        putAt(at) == {j \in 0 .. rows - 1 : layout[first + j + 1] = at}
    IN  [o \in DOMAIN cache |->
            LET at == o \div kv_cols
            IN  IF putAt(at) = {} THEN o ELSE src(Max(putAt(at)), o % kv_cols)]

gather_rows(runs) ==
    LET layout == Layout(runs)
    IN  [i \in 0 .. Len(layout) * kv_cols - 1 |->
            cache[layout[(i \div kv_cols) + 1] * kv_cols + (i % kv_cols)]]

attention_ref(k, kv_len, q_len) ==
    [h \in 0 .. n_heads - 1 |-> [t \in 0 .. q_len - 1 |->
        [j \in 0 .. kv_len - q_len + t |-> [d \in 0 .. head_dim - 1 |->
            k[j * kv_cols + (h \div group) * head_dim + d]]]]]

Apart(runs) == IsInjective(Layout(runs))

\* The rows go where the reference puts them and nowhere else, a refused call
\* has written nothing, and attention over the pages reads what attention over
\* the gathered rows reads.  Where no two runs overlap a row therefore sees the
\* history before the step, the step's rows up to its own, and nothing else; the
\* tables that come out of a KvSpace never overlap.
PagesAsReference ==
    phase \in {"writing", "refused", "read"} =>
        /\ paged \in PagedCalls \/ (phase # "refused" /\ Apart(paged.runs))
        /\ phase = "refused" => cache = [o \in DOMAIN cache |-> o]
        /\ phase # "refused" => cache = scatter_ref(table, paged.first, put)
        /\ phase = "read" =>
             /\ read = attention_ref(gather_rows(table), n_tokens(table), paged.n)
             /\ Apart(table) =>
                  \A h \in 0 .. n_heads - 1, t \in 0 .. paged.n - 1, d \in 0 .. head_dim - 1 :
                    \A j \in 0 .. paged.first + t :
                      LET c == (h \div group) * head_dim + d
                      IN  read[h][t][j][d] =
                            IF j >= paged.first THEN src(j - paged.first, c)
                            ELSE Layout(table)[j + 1] * kv_cols + c
=============================================================================
