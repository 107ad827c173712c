--------------------------- MODULE MCIdleOrdering ---------------------------
EXTENDS IdleOrdering
=============================================================================
