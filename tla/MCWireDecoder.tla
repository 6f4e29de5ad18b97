--------------------------- MODULE MCWireDecoder ---------------------------
(* Model-checking instances of WireCodec. *)
EXTENDS WireCodec

Cells == 0..3

Buffers(len) == UNION {[1..k -> Cells] : k \in 0..len}

(* Every buffer of up to 8 cells for each decoder, and for votes longer    *)
(* ones behind the shortest header, so that two entries fit.               *)
AllInputs ==
    [kind : Kinds, buf : Buffers(8)]
    \cup { [kind |-> "vote", buf |-> <<c, 0, 0, 1, p>> \o t] :
              c \in {2, 3}, p \in 0..2, t \in [1..5 -> Cells] }

SmallPoints == {<<0>>, <<1>>, <<2>>}
ZeroPoint == <<0>>

SmallEntries ==
    {<<>>} \cup { <<e>> : e \in [idx : Cells, claim : {<<>>, <<2>>}] }
           \cup { <<[idx |-> i, claim |-> <<>>], [idx |-> j, claim |-> <<>>]>> :
                    i \in Cells, j \in Cells }

SmallFields(k) ==
    CASE k = "selective" -> { <<f>> : f \in {<<>>, <<3>>} }
      [] k = "vote" -> { <<<<>>, <<>>, f>> : f \in SmallPoints }
      [] k = "revealed" -> {<<>>}

SmallMessages ==
    UNION { [kind : {k}, mcount : IF k = "revealed" THEN {0} ELSE Cells,
             fields : SmallFields(k), revealed : SmallEntries] : k \in Kinds }
=============================================================================
