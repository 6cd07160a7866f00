------------------------------- MODULE MCPicture --------------------------------
\* The instance of Picture that TLC checks: every format that holds a colour,
\* and colours whose channels differ in their high and low bits.
EXTENDS Picture

TwoColours == {[r |-> 255, g |-> 131, b |-> 6, a |-> 0],
               [r |-> 8, g |-> 252, b |-> 77, a |-> 200]}

ByRed == [v \in TwoColours |-> v.r]
=============================================================================
