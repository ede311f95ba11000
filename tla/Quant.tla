------------------------------- MODULE Quant -------------------------------
(***************************************************************************)
(* Weight quantisation: scripts/dump_q4_reference.py (q4_0, the reference  *)
(* of kernels/cpu/quant.mojo) and scripts/dump_q4k_reference.py (Q4_K).    *)
(* Blocks are written one after another to a stream of cells, and read     *)
(* back by position alone, as the kernels read them.                       *)
(*                                                                         *)
(* Weights are integers and scales exact rationals <<n, m>>, n / m; a      *)
(* block has 2 * HALF weights, a sub-block of Q4_K is its least and its    *)
(* greatest weight.  A scale is stored as it is: fp16 is not modelled.     *)
(***************************************************************************)
EXTENDS Integers, Sequences, SequencesExt, FiniteSetsExt, Functions

CONSTANTS HALF,          \* half the weights of a q4_0 block
          Q40Streams,    \* sequences of blocks, [1 .. 2 * HALF -> Int] each
          Q4KBlocks      \* super-blocks: 8 sub-blocks <<least, greatest>>

ASSUME QuantAssumption ==
    /\ HALF \in Nat \ {0}
    /\ \A stream \in Q40Streams : \A i \in DOMAIN stream :
          DOMAIN stream[i] = 1 .. 2 * HALF
    /\ \A b \in Q4KBlocks : DOMAIN b = 0 .. 7 /\ \A j \in 0 .. 7 : b[j][1] <= b[j][2]

MSE_ROUNDS == 2

VARIABLES blocks,     \* what is being quantised
          done,       \* blocks or sub-blocks written
          raw,        \* the stream written so far
          scales      \* the 12 scale bytes of a Q4_K block

quant == <<blocks, done, raw, scales>>

QuantInit(inputs) ==
    /\ blocks \in inputs
    /\ done = 0
    /\ raw = <<>>
    /\ scales = [i \in 0 .. 11 |-> 0]

Abs(n) == IF n < 0 THEN -n ELSE n

Clip(n, a, b) == IF n < a THEN a ELSE IF n > b THEN b ELSE n

\* The integer nearest to n / m, ties to even.
Round(n, m) ==
    LET below == n \div m
        twice == 2 * (n - below * m)
    IN  IF twice < m \/ (twice = m /\ below % 2 = 0) THEN below ELSE below + 1

Sigma(f) == FoldFunction(+, 0, f)
-----------------------------------------------------------------------------
(* q4_0 *)

\* _quantise_with: codes 0 .. 15 around 8.
quantise_with(x, d) ==
    [j \in DOMAIN x |->
        Clip((IF d[1] = 0 THEN 0 ELSE Round(x[j] * d[2], d[1])) + 8, 0, 15)]

\* The scale the greatest weight just reaches the top step with.
NaiveScale(x) == <<Max({Abs(x[j]) : j \in DOMAIN x}), 7>>

\* Least squares forgetting that codes are centred on 8.
RefitUncentred(x, d) ==
    LET q   == quantise_with(x, d)
        num == Sigma([j \in DOMAIN x |-> x[j] * (q[j] - 8)])
        den == Sigma([j \in DOMAIN x |-> q[j] * q[j]])
    IN  IF den > 0 /\ d[1] > 0 THEN <<num, den>> ELSE d

\* The least-squares scale for the codes d gives.
Refit(x, d) ==
    LET q   == quantise_with(x, d)
        num == Sigma([j \in DOMAIN x |-> x[j] * (q[j] - 8)])
        den == Sigma([j \in DOMAIN x |-> (q[j] - 8) * (q[j] - 8)])
    IN  IF den > 0 /\ d[1] > 0 THEN <<num, den>> ELSE d

Scale(x) ==
    FoldLeft(LAMBDA d, round : Refit(x, d), NaiveScale(x),
             [round \in 1 .. MSE_ROUNDS |-> round])

\* Low nibbles hold the first half, high nibbles the second.
Packed(q) == [j \in 1 .. HALF |-> q[j] + 16 * q[HALF + j]]

\* The scale and the packed codes of one block, next to each other.
quantize_q4_0(x) ==
    LET d == Scale(x) IN <<d>> \o Packed(quantise_with(x, d))

\* Block b of a stream, read by position.
Stride == HALF + 1

dequant_q4_0(stream, b) ==
    LET base == (b - 1) * Stride
        byte == [j \in 1 .. HALF |-> stream[base + 1 + j]]
    IN  [d |-> stream[base + 1],
         q |-> [j \in 1 .. 2 * HALF |-> IF j <= HALF THEN byte[j] % 16
                                                     ELSE byte[j - HALF] \div 16]]

\* Squared error times the square of the scale's denominator.
Error(x, d, q) ==
    Sigma([j \in DOMAIN x |-> (x[j] * d[2] - (q[j] - 8) * d[1])
                                * (x[j] * d[2] - (q[j] - 8) * d[1])])

QuantizeQ40 ==
    /\ blocks \in Q40Streams
    /\ done < Len(blocks)
    /\ done' = done + 1
    /\ raw' = raw \o quantize_q4_0(blocks[done + 1])
    /\ UNCHANGED <<blocks, scales>>
-----------------------------------------------------------------------------
(* Q4_K *)

\* A sub-block wholly above zero is not shifted: the offset only goes down.
\* Scales in fifteenths.
sub_sc(w) == IF w[2] <= w[1] THEN 0 ELSE IF w[1] >= 0 THEN w[2] ELSE w[2] - w[1]
sub_mn(w) == IF w[2] <= w[1] \/ w[1] >= 0 THEN 0 ELSE -w[1]

\* Pressed into 6 bits by one factor for all.
SixBits(f) ==
    LET top == Max(Range(f))
    IN  [j \in DOMAIN f |-> IF top = 0 THEN 0 ELSE Clip(Round(63 * f[j], top), 0, 63)]

\* The last four share the two high bits of scale and min: the larger wins.
Aligned(j, sc, mn) ==
    LET high == Max({sc \div 16, mn \div 16})
    IN  IF j < 4 THEN <<sc, mn>> ELSE <<16 * high + (sc % 16), 16 * high + (mn % 16)>>

set_scale_min(j, s, sc, mn) ==
    IF j < 4
    THEN [s EXCEPT ![j] = 64 * (@ \div 64) + (sc % 64), ![j + 4] = 64 * (@ \div 64) + (mn % 64)]
    ELSE [s EXCEPT ![j + 4] = (sc % 16) + 16 * (mn % 16),
                   ![j - 4] = (@ % 64) + 64 * ((sc \div 16) % 4)]

get_scale_min(j, s) ==
    IF j < 4 THEN <<s[j] % 64, s[j + 4] % 64>>
    ELSE LET high == 16 * (s[j - 4] \div 64)
         IN  <<(s[j + 4] % 16) + high, (s[j + 4] \div 16) + high>>

\* The two weights of a sub-block as steps above its offset.
Nibbles(w) ==
    IF w[2] <= w[1] THEN <<0, 0>>
    ELSE IF w[1] >= 0 THEN <<Round(15 * w[1], w[2]), 15>> ELSE <<0, 15>>

\* Sub-block j = done: its scales into the bytes, its nibbles into the low
\* halves of its group's bytes, or the high halves if it is the second.
QuantizeQ4K ==
    /\ blocks \in Q4KBlocks
    /\ done < 8
    /\ done' = done + 1
    /\ LET pair == Aligned(done, SixBits([j \in 0 .. 7 |-> sub_sc(blocks[j])])[done],
                                 SixBits([j \in 0 .. 7 |-> sub_mn(blocks[j])])[done])
       IN  scales' = set_scale_min(done, scales, pair[1], pair[2])
    /\ LET nib == Nibbles(blocks[done])
           top == Len(raw)
       IN  raw' = IF done % 2 = 0 THEN raw \o nib
                  ELSE [raw EXCEPT ![top - 1] = @ + 16 * nib[1], ![top] = @ + 16 * nib[2]]
    /\ UNCHANGED blocks

\* Sub-block j read back: its scales and its nibbles.
dequant_q4_k(j) ==
    LET byte(l) == raw[2 * (j \div 2) + l]
    IN  [pair |-> get_scale_min(j, scales),
         nib  |-> [l \in 1 .. 2 |-> IF j % 2 = 0 THEN byte(l) % 16 ELSE byte(l) \div 16]]

QuantNext == QuantizeQ40 \/ QuantizeQ4K
-----------------------------------------------------------------------------
\* What a kernel reads from a q4_0 stream at a block's place is that block, and
\* nowhere a worse approximation of it than the naive scale would have given:
\* fitting the scale by least squares never loses (quantize_q4_0's claim).
ReadsBackNoWorse ==
    blocks \in Q40Streams =>
        \A b \in 1 .. done :
            LET x     == blocks[b]
                read  == dequant_q4_0(raw, b)
                naive == NaiveScale(x)
            IN  Error(x, read.d, read.q) * naive[2] * naive[2]
                    <= Error(x, naive, quantise_with(x, naive)) * read.d[2] * read.d[2]

\* Writing a later sub-block never disturbs an earlier one: the first four read
\* back exactly, the last four with their low bits and never below what they
\* should be, one of scale and min exactly; and every sub-block's nibbles.
SubBlocksReadBack ==
    blocks \in Q4KBlocks =>
        \A j \in 0 .. done - 1 :
            LET sc   == SixBits([i \in 0 .. 7 |-> sub_sc(blocks[i])])[j]
                mn   == SixBits([i \in 0 .. 7 |-> sub_mn(blocks[i])])[j]
                read == dequant_q4_k(j)
            IN  /\ read.nib = Nibbles(blocks[j])
                /\ j < 4 => read.pair = <<sc, mn>>
                /\ read.pair[1] >= sc /\ (read.pair[1] - sc) % 16 = 0
                /\ read.pair[2] >= mn /\ (read.pair[2] - mn) % 16 = 0
                /\ read.pair[1] = sc \/ read.pair[2] = mn

\* Both formats survive being written and read by position.
QuantReadsBack == ReadsBackNoWorse /\ SubBlocksReadBack
=============================================================================
