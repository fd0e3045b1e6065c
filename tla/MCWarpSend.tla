----------------------------- MODULE MCWarpSend -----------------------------
(***************************************************************************)
(* Two sends of a job over two coins that are interchangeable.             *)
(***************************************************************************)
EXTENDS WarpSendProps
Sym == Permutations(Coins)

\* A funding takes one coin; a cat_spend one or both.
MCInputs == [k \in {"fund", "burn"} |-> IF k = "fund" THEN {1} ELSE {1, 2}]
=============================================================================
