------------------------------ MODULE MCTimers ------------------------------
EXTENDS Timers

Symmetry == Permutations(Timer)

=============================================================================
