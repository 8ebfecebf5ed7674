--------------------------- MODULE MCFuzzGenerator ---------------------------
EXTENDS FuzzGenerator
==============================================================================
