---------------------------- MODULE MCDeckBuild ----------------------------
\* Finite instances of DeckBuild for TLC.
EXTENDS DeckBuild, TLC

\* Workers of one kind are interchangeable; sound for the safety runs only.
Symmetry == Permutations(Workers \ CliWorkers)
=============================================================================
