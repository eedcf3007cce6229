--------------------------- MODULE MCIntermediary ---------------------------
EXTENDS Intermediary
=============================================================================
