-------------------------------- MODULE MCInput --------------------------------
(* Input for TLC: the corners of the screen of 1366 by 768 that session.js *)
(* asks for, wheel steps that fit a byte and that do not, the left and the *)
(* right control key, which share their code, and the key A.               *)
EXTENDS Input

TwoButtons   == {1, 2}
KeyCodes     == {29, 285, 30}
Columns      == {0, 1365}
Rows         == {0, 767}
WheelSteps   == {0, 1, 120, 136, 255, 256, 600, 767}
================================================================================
