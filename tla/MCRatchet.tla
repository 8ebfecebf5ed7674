------------------------------ MODULE MCRatchet ------------------------------
EXTENDS Ratchet, TLC
Symmetric == Permutations(Entries) \cup Permutations(Kinds) \cup Permutations(Params)
==============================================================================
