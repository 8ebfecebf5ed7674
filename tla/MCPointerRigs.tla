--------------------------- MODULE MCPointerRigs -----------------------------
EXTENDS PointerRigs
==============================================================================
