--------------------------- MODULE MCResponseState ---------------------------
EXTENDS ResponseState, TLC

CONSTANTS a, b, c, d

FourIds == {a, b, c, d}
Sym == Permutations(FourIds)

=============================================================================
