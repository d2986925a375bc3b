----------------------------- MODULE MCBTCChain ------------------------------
(* A chain of three blocks with a fork of two at height 2, difficulty         *)
(* transitions every second block, a checkpoint at the start and one, a2,    *)
(* that peers relay, and four transactions: t1 pays the wallet; t2 and t3    *)
(* spend the same output of t1, one on each branch; t4, marked               *)
(* replace-by-fee, spends the change of t2.                                  *)
EXTENDS BTCChain

MCTx == {"t1", "t2", "t3", "t4"}
Out(chain, k, amount) == [address |-> <<chain, k>>, amount |-> amount]
MCInputs == [t \in MCTx |-> CASE t = "t1" -> {<<"coinbase", 0>>}
                              [] t = "t2" -> {<<"t1", 0>>}
                              [] t = "t3" -> {<<"t1", 0>>}
                              [] t = "t4" -> {<<"t2", 1>>}]
MCOutputs == [t \in MCTx |-> CASE t = "t1" -> <<Out("external", 0, 5)>>
                               [] t = "t2" -> <<Out("foreign", 0, 2), Out("internal", 0, 3)>>
                               [] t = "t3" -> <<Out("foreign", 0, 1), Out("external", 1, 4)>>
                               [] t = "t4" -> <<Out("foreign", 1, 3)>>]
MCReplaceable == {"t4"}
MCLockTime == [t \in MCTx |-> IF t = "t2" THEN 2 ELSE 0]
MCGapLimit == [external |-> 1, internal |-> 1]

MCPrev == [c0 |-> "none", a1 |-> "c0", a2 |-> "a1", a3 |-> "a2", b3 |-> "a2",
           b4 |-> "b3", x1 |-> "c0"]
MCBlock == DOMAIN MCPrev
MCHeight == [c0 |-> 0, a1 |-> 1, a2 |-> 2, a3 |-> 3, b3 |-> 3, b4 |-> 4, x1 |-> 1]
MCMatched == [c0 |-> << >>, a1 |-> <<"t1">>, a2 |-> << >>, a3 |-> <<"t2">>,
              b3 |-> <<"t3">>, b4 |-> << >>, x1 |-> << >>]
=============================================================================
