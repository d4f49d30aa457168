--------------------------- MODULE MCSwimDetector ---------------------------
EXTENDS SwimDetector, TLC
=============================================================================
