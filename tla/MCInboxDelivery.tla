--------------------------- MODULE MCInboxDelivery ---------------------------
EXTENDS InboxDelivery, TLC

Symmetry == Permutations(Messages \ Twins) \cup Permutations(Sessions)
=============================================================================
