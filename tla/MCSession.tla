------------------------------- MODULE MCSession -------------------------------
(* Session for TLC: sessions are model values.                             *)
EXTENDS Session, TLC

Symmetry == Permutations(Sessions)
================================================================================
