-------------------------- MODULE MCPaymentEngine --------------------------
EXTENDS LedgerRefinement, TLC
RequestSymmetry == Permutations(Requests)
=============================================================================
