--------------------------- MODULE MCTaskApprovals ---------------------------
EXTENDS TaskApprovals
=============================================================================
