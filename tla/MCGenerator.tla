------------------------------ MODULE MCGenerator ------------------------------
(* Generator for TLC: thread and worker names are model values.            *)
EXTENDS Generator, TLC

Symmetry == Permutations(Threads) \cup Permutations(Workers)
================================================================================
