--------------------------- MODULE MCReporting ---------------------------
EXTENDS Reporting, TLC

PaymentSymmetry == Permutations(Payments)
=============================================================================
