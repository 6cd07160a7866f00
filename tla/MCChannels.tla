------------------------------- MODULE MCChannels -------------------------------
(* Channels for TLC: the default text, the empty text and a longer one.    *)
EXTENDS Channels

ThreeTexts == [t \in 0 .. 2 |-> IF t = 0 THEN 2 ELSE IF t = 1 THEN 0 ELSE 3]
================================================================================
