----------------------------- MODULE MCService -----------------------------
(* Three connections.  The first two ask for what fits the engine, a greedy *)
(* and a sampled answer; the third for a sampled answer of another          *)
(* temperature that does not fit - in MCMoreAsks, sometimes for one that    *)
(* does.                                                                    *)
EXTENDS Service

Ask(steps, fits, temp) == [steps |-> steps, fits |-> fits, temp |-> temp]

MCAsks ==
    [r \in Streams |-> CASE r = 0 -> {Ask(2, TRUE, 0)}
                         [] r = 1 -> {Ask(2, TRUE, 1)}
                         [] OTHER -> {Ask(2, FALSE, 2)}]

MCMoreAsks ==
    [r \in Streams |-> CASE r = 0 -> {Ask(2, TRUE, 0)}
                         [] r = 1 -> {Ask(2, TRUE, 1)}
                         [] OTHER -> {Ask(2, TRUE, 2), Ask(2, FALSE, 2)}]
=============================================================================
