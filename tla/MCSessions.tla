----------------------------- MODULE MCSessions -----------------------------
EXTENDS Sessions, TLC

Symmetry == Permutations(Token) \cup Permutations(Code) \cup Permutations(Request)
=============================================================================
