------------------------ MODULE MCStockTransactions ------------------------
(* The transactions of inventory-service on small instances.               *)
EXTENDS StockTransactions, TLC

Symmetry == Permutations(Threads)

SomePrices == [p \in Products |-> 3]
SomeStock  == [p \in Products |-> 3]

\* Every order wants two units of a product of which there are three.
SomeRequests == [o \in OrderIds |->
    [product |-> CHOOSE p \in Products : TRUE, quantity |-> 2, paymentType |-> "PIX"]]
===========================================================================
