----------------------------- MODULE InvoicesMC -----------------------------
\* Instances of Invoices for TLC.
EXTENDS Invoices, TLC

Symmetry == Permutations(Invs) \union Permutations(Calls)

=============================================================================
