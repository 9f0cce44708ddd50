----------------------------- MODULE MCRewards ------------------------------
\* Instances of LoginRewards for TLC: weeks, cycles and streaks of two days and
\* periods of four.  Handlers are interchangeable.
EXTENDS LoginRewards, TLC

CONSTANTS h1, h2

Symmetry == Permutations(Handlers)
=============================================================================
