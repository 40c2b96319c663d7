--------------------------- MODULE MC_DurableRun ----------------------------
(***************************************************************************)
(* A release workflow in small: an approval (2) and a durable wait (3)     *)
(* gate two side effects (1, 4) of the same operation, in an order that    *)
(* is not the order of their ids; 4 also reads the output of 1.            *)
(***************************************************************************)
EXTENDS DurableRun

MCUpstream == [n \in 1 .. 4 |-> CASE n = 1 -> {2} [] n = 4 -> {1, 3} [] OTHER -> {}]
MCOperation == [n \in 1 .. 4 |-> "publish"]
MCMaxAttempts == [n \in 1 .. 4 |-> IF n = 3 THEN 1 ELSE 2]
=============================================================================
