----------------------- MODULE MCPaymentTransactions -----------------------
(* ProcessPayment on small instances.                                      *)
EXTENDS PaymentTransactions, TLC

Symmetry == Permutations(Threads) \cup Permutations(OrderIds)
===========================================================================
