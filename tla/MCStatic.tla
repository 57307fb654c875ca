------------------------------ MODULE MCStatic ------------------------------
EXTENDS Static, TLC

CONSTANTS c1, c2, f1, a1, a2

\* Versions 1 and 3 are cached, version 2 is too large.
MCLarge == {2}

Symmetry == Permutations(Client) \cup Permutations(Address)

=============================================================================
