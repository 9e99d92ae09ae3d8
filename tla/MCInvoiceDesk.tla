---------------------------- MODULE MCInvoiceDesk ----------------------------
(* InvoiceDesk on a small instance: invoices of one total, and balances that *)
(* cover one bill or none, so that two bills compete for an account.         *)
EXTENDS InvoiceDesk, TLC

CONSTANTS k1, k2, i1, i2, i3, b1, y1, y2

MCTotal == [i \in Invoices |-> 2]

MCSymmetry == Permutations(Clerks) \union Permutations(Invoices) \union Permutations(Years)
=============================================================================
