---------------------------- MODULE MCConfigEntry ----------------------------
EXTENDS ConfigEntry, TLC

\* Tasks are interchangeable.
TaskSymmetry == Permutations(Tasks)
=============================================================================
