--------------------------- MODULE MCPurchaseQuotes ---------------------------
EXTENDS PurchaseQuotes, TLC

Symmetry == Permutations(Quotes) \cup Permutations(Tasks) \cup Permutations(Users)
=============================================================================
