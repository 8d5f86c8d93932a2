------------------------ MODULE MCAccountlessSharing ------------------------
EXTENDS AccountlessSharing, TLC

PassSymmetry == Permutations(Pass) \cup Permutations(Call)
=============================================================================
