------------------------------ MODULE Sampler ------------------------------
(***************************************************************************)
(* runtime/sampler.mojo and its reference scripts/dump_sampler_reference.py*)
(* One call of the pipeline: what history and bias make of the logits, the *)
(* temperature, then the three filters that thin out the surviving tokens, *)
(* then the draw.  The reference refuses a case that stands on a knife's   *)
(* edge, where rounding would decide; the engine goes on.                  *)
(*                                                                         *)
(* Logits are integers and the weight of a token halves with every unit it *)
(* lies below the best one, down to an underflow to nothing; probabilities *)
(* are the exact quotients of these weights.                               *)
(***************************************************************************)
EXTENDS Integers, Sequences, SequencesExt, FiniteSets, FiniteSetsExt, Functions

CONSTANTS vocab,        \* size of the vocabulary
          Logits,       \* logits a model may hand over
          Histories,    \* tokens generated so far
          Biases,       \* logit bias: token -> what is added
          Calls,        \* settings of a call
          UNDERFLOW,    \* a logit this far below the best weighs nothing
          GRID          \* bound: draws are multiples of 1 / GRID

\* Settings [temperature, top_k, top_p, min_p, rep, freq, pres, strict]: the
\* reciprocal of the temperature (0 stands for temperature 0), top_p and min_p
\* in tenths.  strict: the reference and its refusals.
ASSUME SamplerAssumption ==
    /\ vocab \in Nat \ {0}
    /\ Logits \subseteq Int
    /\ \A h \in Histories : ToSet(h) \subseteq 0 .. vocab - 1
    /\ \A c \in Calls :
         /\ c.temperature \in Nat /\ c.top_k \in Nat
         /\ c.top_p \in 1 .. 10 /\ c.min_p \in 0 .. 9
         /\ c.rep \in Nat \ {0} /\ c.freq \in Int /\ c.pres \in Int

VARIABLES stage,     \* what has been done
          call,      \* the settings of the call
          x,         \* the logits as they stand
          alive,     \* the tokens still in
          drawn      \* the answer

sampling == <<stage, call, x, alive, drawn>>

Vocab  == 0 .. vocab - 1    \* token ids
NoDraw == -1
keep   == 1      \* min_tokens_to_keep

Total(f, S) == FoldFunctionOnSet(+, 0, f, S)

Beats(y, i, j) == y[i] > y[j]

Best(y, S) == CHOOSE i \in S : \A j \in S : y[j] <= y[i] /\ (y[j] = y[i] => i <= j)

SamplerInit ==
    /\ stage = "logits"
    /\ x \in [Vocab -> Logits]
    /\ call \in Calls
    /\ alive = Vocab
    /\ drawn = NoDraw
-----------------------------------------------------------------------------
(* What history and bias make of a logit *)

\* A repeated token is penalised once.
Penalised(y, rep, seen) ==
    [t \in Vocab |-> IF t \notin seen THEN y[t]
                     ELSE IF y[t] < 0 THEN y[t] * rep ELSE y[t] \div rep]

Count(history, t) == Cardinality({i \in DOMAIN history : history[i] = t})

\* bias, repetition, frequency, presence, in this order.
preprocess(y, c, bias, history) ==
    LET biased    == [t \in Vocab |-> y[t] + bias[t]]
        penalised == Penalised(biased, c.rep, ToSet(history))
    IN  [t \in Vocab |->
            penalised[t] - c.freq * Count(history, t)
                         - IF t \in ToSet(history) THEN c.pres ELSE 0]

Preprocess ==
    /\ stage = "logits"
    /\ \E history \in Histories, bias \in Biases :
         x' = preprocess(x, call, bias, history)
    /\ stage' = "warped"
    /\ UNCHANGED <<call, alive, drawn>>

\* Temperature 0 puts everything on the best token, the first of equals.
Greedy ==
    /\ stage = "warped"
    /\ call.temperature = 0
    /\ alive' = {Best(x, Vocab)}
    /\ stage' = "filtered"
    /\ UNCHANGED <<call, x, drawn>>

Temper ==
    /\ stage = "warped"
    /\ call.temperature > 0
    /\ x' = [t \in Vocab |-> x[t] * call.temperature]
    /\ stage' = "top_k"
    /\ UNCHANGED <<call, alive, drawn>>
-----------------------------------------------------------------------------
(* Weights: softmax up to the common factor *)

weight(y, S) ==
    LET top == y[Best(y, S)]
    IN  [i \in Vocab |-> IF i \notin S \/ top - y[i] > UNDERFLOW THEN 0
                         ELSE 2 ^ (UNDERFLOW - (top - y[i]))]

\* order: descending, equals by index; ascending the same way round.
Before(y, i, j) == Beats(y, j, i) \/ (y[i] = y[j] /\ i <= j)

\* The weight of everything up to i in ascending order.
Upto(y, S, i) == Total(weight(y, S), {j \in S : Before(y, j, i)})
-----------------------------------------------------------------------------
(* The filters, each with what the reference refuses *)

\* The k-th largest value, equals counted each.
Threshold(y, k) ==
    CHOOSE v \in Range(y) :
        /\ Cardinality({i \in Vocab : y[i] >= v}) >= k
        /\ Cardinality({i \in Vocab : y[i] > v}) < k

top_kStrictly(y, k) ==
    IF k = 0 \/ k >= vocab THEN Vocab
    ELSE {i \in Vocab : y[i] > Threshold(y, k)}

\* Whoever equals the k-th stays.
top_k(y, k) ==
    IF k = 0 \/ k >= vocab THEN Vocab
    ELSE {i \in Vocab : y[i] >= Threshold(y, k)}

TopKOnEdge(y, k) ==
    k > 0 /\ k < vocab /\ Cardinality(top_k(y, k)) > k

\* Removed from below while the weight removed is at most 1 - top_p of all;
\* the last keep in ascending order stay.
Removable(y, S, p) ==
    {i \in S : Upto(y, S, i) * 10 <= (10 - p) * Total(weight(y, S), S)}

Kept(y) == {i \in Vocab : Cardinality({j \in Vocab : Before(y, i, j)}) <= keep}

top_p(y, S, p) == IF p = 10 THEN S ELSE S \ (Removable(y, S, p) \ Kept(y))

\* Refused: the last one removed, or the next one, meets the cutoff exactly.
TopPOnEdge(y, S, p) ==
    LET gone == S \ top_p(y, S, p)
    IN  /\ p < 10 /\ gone # {}
        /\ \E i \in gone : Upto(y, S, i) * 10 = (10 - p) * Total(weight(y, S), S)

\* Removed below min_p of the best; the first keep in descending order stay.
Leading(y) ==
    {i \in Vocab : Cardinality({j \in Vocab : Beats(y, j, i) \/ (y[j] = y[i] /\ j <= i)}) <= keep}

min_p(y, S, p) ==
    IF p = 0 THEN S
    ELSE {i \in S : weight(y, S)[i] * 10 >= p * weight(y, S)[Best(y, S)]}
            \cup (S \cap Leading(y))

Filter(from, to, left, onEdge) ==
    /\ stage = from
    /\ IF call.strict /\ onEdge
       THEN stage' = "refused" /\ UNCHANGED alive
       ELSE stage' = to /\ alive' = left
    /\ UNCHANGED <<call, x, drawn>>

TopK == Filter("top_k", "top_p", top_k(x, call.top_k), TopKOnEdge(x, call.top_k))
TopP == Filter("top_p", "min_p", top_p(x, alive, call.top_p), TopPOnEdge(x, alive, call.top_p))
MinP == Filter("min_p", "filtered", min_p(x, alive, call.min_p), FALSE)
-----------------------------------------------------------------------------
(* The draw *)

\* The first token at which the running sum passes u / GRID of the whole.
inverse_cdf(w, u) ==
    LET sum(i) == Total(w, 0 .. i)
        past   == {i \in Vocab : u * Total(w, Vocab) < GRID * sum(i)}
    IN  IF past = {} THEN vocab - 1 ELSE Min(past)

Pick ==
    /\ stage = "filtered"
    /\ \E u \in 0 .. GRID - 1 : drawn' = inverse_cdf(weight(x, alive), u)
    /\ stage' = "drawn"
    /\ UNCHANGED <<call, x, alive>>

SamplerNext == Preprocess \/ Greedy \/ Temper \/ TopK \/ TopP \/ MinP \/ Pick
-----------------------------------------------------------------------------
(* What the filters are checked against: hf_alive_set, the warpers of       *)
(* transformers one after another.  Each masks what it removes; equals are  *)
(* in no order of their own, so only how many of them stay is compared.     *)

Mass(S) == Total(weight(x, Vocab), S)

\* The other way round from Before: any order of equals will do.
HFAbove(i) == {j \in Vocab : Beats(x, j, i) \/ (x[j] = x[i] /\ j > i)}

HFTopK(S) ==
    IF call.top_k = 0 THEN S
    ELSE {i \in S : Cardinality({j \in S : Beats(x, j, i)}) < call.top_k}

\* The nucleus: as long as what is above falls short of top_p.
HFTopP(S) ==
    IF call.top_p = 10 THEN S
    ELSE {i \in S : \/ HFAbove(i) \cap S = {}
                    \/ 10 * Mass(HFAbove(i) \cap S) < call.top_p * Mass(S)}

HFMinP(S) ==
    {i \in S : \A j \in S : 10 * Mass({i}) >= call.min_p * Mass({j})}

HFAlive == HFMinP(HFTopP(HFTopK(Vocab)))

\* What transformers would keep, equals counted and not told apart (the check
\* main() makes on its nine cases).
KeepsAsHF ==
    (stage = "filtered" /\ call.temperature > 0) =>
        \A v \in Range(x) :
            Cardinality({i \in alive : x[i] = v}) = Cardinality({i \in HFAlive : x[i] = v})

\* The filters keep what transformers would, whatever the logits: never the
\* worse without the better, nor nothing; what is drawn survived and was
\* possible; at temperature 0 it is the best.
AgreesWithHF ==
    /\ KeepsAsHF
    /\ alive # {}
    /\ \A i \in alive, j \in Vocab : Beats(x, j, i) => j \in alive
    /\ stage = "drawn" =>
         /\ drawn \in alive
         /\ weight(x, alive)[drawn] > 0
         /\ call.temperature = 0 => \A i \in Vocab : ~Beats(x, i, drawn)
=============================================================================
