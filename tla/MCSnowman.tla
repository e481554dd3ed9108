----------------------------- MODULE MCSnowman ------------------------------
EXTENDS Snowman, TLC

Symmetry == Permutations(Node)
=============================================================================
