------------------------------- MODULE MCStore -------------------------------
EXTENDS Store, TLC

\* Tasks are interchangeable.
TaskSymmetry == Permutations(Tasks)
=============================================================================
