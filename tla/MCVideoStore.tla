---------------------------- MODULE MCVideoStore ----------------------------
(* Instances of VideoStore. Requests are alike.                            *)
EXTENDS VideoStore, TLC

Alike == Permutations(Requests)

\* What follows after two uploads wrote one file is not explored: the properties of
\* files and segments assume that it did not happen.
NoClashSoFar == clashed = {}
=============================================================================
