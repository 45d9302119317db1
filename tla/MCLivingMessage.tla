--------------------------- MODULE MCLivingMessage ---------------------------
EXTENDS LivingMessage, TLC

MCThreadOf == [s \in Sessions |-> CHOOSE k \in Threads : TRUE]
Symmetry == Permutations(Sessions)
=============================================================================
