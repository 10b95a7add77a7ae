----------------------------- MODULE MCEriPlan -----------------------------
(* A catalogue of inputs for EriPlan: instance types with one, two and     *)
(* three cards (with and without GPUs), every combination of a primary ENI *)
(* and up to two attached secondary ENIs, and up to two leftovers.         *)
EXTENDS EriPlan

Type(e, c, q, g) == [eriQuantity |-> e, networkCards |-> c, queuePairs |-> q, gpus |-> g]

MCInstanceTypes ==
    { Type(Nil, 2, 4, Nil), Type(0, 2, 4, 0),     \* no ERDMA
      Type(1, Nil, 2, Nil), Type(2, 1, 3, 0),     \* one card
      Type(1, 2, 4, 0),                           \* fewer ERIs than cards
      Type(2, 2, 3, 1), Type(2, 2, 5, 0),
      Type(3, 4, 2, 1), Type(3, 3, 7, Nil) }

ENI(id, prim, rdma, q, card, creator, inst) ==
    [id |-> id, primary |-> prim, rdma |-> rdma, qp |-> q, card |-> card,
     creator |-> creator, inst |-> inst]

Primaries ==
    { ENI(1, TRUE, FALSE, 0, 0, FALSE, Inst), ENI(1, TRUE, TRUE, 1, NoCard, FALSE, Inst),
      ENI(1, TRUE, TRUE, 2, 0, FALSE, Inst) }

Secondaries(id) ==
    { ENI(id, FALSE, r, q, c, o, Inst) :
        r \in {TRUE}, q \in {1, 3}, c \in {NoCard, 1, 2}, o \in BOOLEAN }
    \cup {ENI(id, FALSE, FALSE, 0, 1, FALSE, Inst)}

MCAttachedSets ==
    {{}} \cup { {p} : p \in Primaries } \cup { {s} : s \in Secondaries(2) }
    \cup { {p, s} : p \in Primaries, s \in Secondaries(2) }
    \cup { {p, s, t} : p \in Primaries, s \in Secondaries(2), t \in Secondaries(3) }

Leftover(id, q) == ENI(id, FALSE, TRUE, q, NoCard, TRUE, "none")

MCLeftoverSets == { {}, {Leftover(4, 1)}, {Leftover(4, 2), Leftover(5, 1)} }
=============================================================================
