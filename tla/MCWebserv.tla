------------------------------ MODULE MCWebserv ------------------------------
EXTENDS WebservProps, TLC
Symmetry == Permutations(Clients)
=============================================================================
