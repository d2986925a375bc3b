------------------------------ MODULE MCBTCSync ------------------------------
(* A chain of three blocks, the last two mined during the download: t1 and   *)
(* t2 use addresses the first filter has, t3, in the block of t2, the first  *)
(* one it does not have; t4 spends t3 and pays nobody of the wallet; t5 is   *)
(* nobody's.                                                                 *)
EXTENDS BTCSync

MCTx == {"t1", "t2", "t3", "t4", "t5"}
Out(chain, k, amount) == [address |-> <<chain, k>>, amount |-> amount]
MCInputs ==
    [t \in MCTx |-> CASE t = "t1" -> {<<"coinbase", 1>>}
                      [] t = "t2" -> {<<"coinbase", 2>>}
                      [] t = "t3" -> {<<"coinbase", 3>>}
                      [] t = "t4" -> {<<"t3", 0>>}
                      [] t = "t5" -> {<<"coinbase", 5>>}]
MCOutputs == [t \in MCTx |-> <<CASE t = "t1" -> Out("external", 0, 5)
                                 [] t = "t2" -> Out("external", 1, 4)
                                 [] t = "t3" -> Out("external", 2, 3)
                                 [] t = "t4" -> Out("foreign", 0, 3)
                                 [] t = "t5" -> Out("foreign", 1, 1)>>]
MCLockTime == [t \in MCTx |-> 0]
MCGapLimit == [external |-> 1, internal |-> 1]
MCMined == <<<<"t1">>, <<"t2", "t5", "t3">>, <<"t4">>>>

(* The wallet counts each of them: NoMissedPayment does not hold otherwise.   *)
ASSUME PlainAssumption == AllPlain
=============================================================================
